---------------------------------- MODULE Voice ----------------------------------
(***************************************************************************)
(* A conversation's call and its count: whoever comes into the room or leaves  *)
(* it, this user included, changes the count that the server announces.       *)
(***************************************************************************)
EXTENDS Calls, CallCounts

VARIABLE focus  \* bound: whether the counts are followed, then with one call, from an empty room

voiceVars == <<callVars, countVars, focus>>

InCall == Cardinality(Present) + IF seat = 0 THEN 0 ELSE 1

Init ==
  /\ CallsInit /\ CountsInit
  /\ focus \in {"calls", "counts"}
  /\ focus = "counts" => Present = {}

\* The counts follow the room; following them, the second call is left out.
Next ==
  /\ UNCHANGED focus
  /\ \/ /\ CallsNext
        /\ focus = "counts" => \A c \in CallIds \ {1} : task'[c] = "idle"
        /\ IF focus = "counts" /\ InCall' # InCall THEN Announced(InCall') ELSE UNCHANGED wire
        /\ UNCHANGED <<config, link, bursts, snapshot, badge, skewed>>
     \/ focus = "counts" /\ CountsNext(InCall) /\ UNCHANGED callVars

\* The task runs on its runtime, and the main loop drains the window's events.
Spec ==
  /\ Init /\ [][Next]_voiceVars
  /\ \A c \in CallIds : WF_callVars(Runs(c)) /\ WF_callVars(Drain(c))

\* Connected, with nothing on its way, the badge shows how many are in the call,
\* whatever happened while the client was away; except after a snapshot that
\* failed, one overtaken by a frame or a newer snapshot, and a burst that was
\* done before the capabilities arrived (app.rs:703).
CountAgrees ==
  link /\ wire = <<>> /\ InFlight = {} /\ ~skewed =>
    Badge = IF config = "enabled" THEN InCall ELSE 0
================================================================================
