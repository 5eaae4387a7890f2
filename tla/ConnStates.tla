------------------------------ MODULE ConnStates ------------------------------
(***************************************************************************)
(* What the user interface may rely on: the connection state it shows is    *)
(* always one of the five of ConnState, and it only ever changes along the  *)
(* edges below.  In particular Connected is entered from Connecting alone   *)
(* (never straight from a backoff or a failure), a failure is final, and a  *)
(* retry always passes through a visible Backoff.                           *)
(***************************************************************************)

VARIABLE conn

ConnState == {"disconnected", "connecting", "connected", "backoff", "failed"}

Init == conn = "connecting"

(* The edges of the automaton, as pairs <<from, to>>. *)
Edges == {<<"connecting", "connected">>, <<"connecting", "disconnected">>,
          <<"connecting", "backoff">>, <<"connecting", "failed">>,
          <<"connected", "disconnected">>, <<"connected", "backoff">>,
          <<"disconnected", "backoff">>, <<"backoff", "connecting">>}

Next == <<conn, conn'>> \in Edges

Spec == Init /\ [][Next]_conn

===============================================================================
