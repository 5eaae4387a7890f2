-------------------------------- MODULE Fetching --------------------------------
(***************************************************************************)
(* What a cache of fetched things promises: an address is absent, under way,   *)
(* had or failed; it is fetched once at a time; what is had stays; a fetch     *)
(* that is under way comes to an end.                                         *)
(***************************************************************************)
CONSTANT Addresses

VARIABLE slot

Slots == [Addresses -> {"absent", "underway", "have", "failed"}]

Init == slot = [u \in Addresses |-> "absent"]

\* Any number of addresses are asked for, or asked for again, or come to an end.
Fetch ==
  /\ slot' \in Slots
  /\ \A u \in Addresses : slot'[u] # slot[u] =>
       <<slot[u], slot'[u]>> \in {<<"absent", "underway">>, <<"failed", "underway">>,
                                  <<"underway", "have">>, <<"underway", "failed">>}

\* A restart keeps some results and nothing that is under way.
Forget ==
  /\ slot' \in Slots
  /\ \A u \in Addresses : slot'[u] \in {"absent", slot[u]} \ {"underway"}

Ends == \A u \in Addresses : slot[u] = "underway" ~> slot[u] # "underway"

Spec == Init /\ [][Fetch \/ Forget]_slot /\ Ends
================================================================================
