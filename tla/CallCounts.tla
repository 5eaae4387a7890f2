------------------------------- MODULE CallCounts --------------------------------
(***************************************************************************)
(* How many are in a conversation's call (scully app.rs hydrate_call_presence, *)
(* start_session; lurker-client store.rs hydrate_call_presence, CallPresence): *)
(* the server's frames carry changes only, and what was missed is read by a    *)
(* REST call once the connect burst is done.                                  *)
(***************************************************************************)
EXTENDS Integers, Sequences, FiniteSets

CONSTANT MaxBursts  \* bound: connections

ASSUME CountsAssumption == MaxBursts \in Nat

VARIABLES
  config,   \* the capabilities: asked, enabled, unknown
  link,     \* the socket
  wire,     \* frames on their way: numbers, or the end of a burst
  bursts,
  snapshot, \* the REST calls, one for each burst
  badge,    \* the client's count
  skewed    \* history: what CountAgrees excepts

countVars == <<config, link, wire, bursts, snapshot, badge, skewed>>

Snapshots == 1..MaxBursts
InFlight == {n \in Snapshots : snapshot[n].state \in {"sent", "served"}}
Unasked == [state |-> "none", count |-> 0, older |-> 0, late |-> FALSE, turn |-> 0]
Answered == [Unasked EXCEPT !.state = "over"]
BurstDone == -1  \* in place of a number
\* The numbers on their way; the end of a burst comes before them.
Counts == IF wire # <<>> /\ Head(wire) = BurstDone THEN Len(wire) - 1 ELSE Len(wire)

\* The server tells every connected client of a change.
Announced(count) == wire' = IF link THEN Append(wire, count) ELSE wire

--------------------------------------------------------------------------------
\* start_session: the capabilities arrive when they do, or never.
ConfigHere ==
  /\ config = "asked" /\ config' \in {"enabled", "unknown"}
  /\ UNCHANGED <<link, wire, bursts, snapshot, badge, skewed>>

\* A new connection; what was served before it is late.
LinkUp ==
  /\ ~link /\ bursts < MaxBursts
  /\ link' = TRUE /\ bursts' = bursts + 1 /\ wire' = <<BurstDone>>
  /\ snapshot' = [n \in Snapshots |-> [snapshot[n] EXCEPT !.late = snapshot[n].state = "served"]]
  /\ UNCHANGED <<config, badge, skewed>>

LinkDown ==
  /\ link /\ link' = FALSE /\ wire' = <<>>
  /\ UNCHANGED <<config, bursts, snapshot, badge, skewed>>

\* The burst is done: the app reads the counts, if it knows by now that there
\* are calls at all.
HearBurst ==
  /\ wire # <<>> /\ Head(wire) = BurstDone
  /\ wire' = Tail(wire)
  /\ IF config = "enabled"
     THEN snapshot' = [snapshot EXCEPT ![bursts].state = "sent"] /\ UNCHANGED skewed
     ELSE skewed' = TRUE /\ UNCHANGED snapshot
  /\ UNCHANGED <<config, link, bursts, badge>>

\* A call-presence frame; a snapshot served before it was sent is late from now on.
HearCount ==
  /\ wire # <<>> /\ Head(wire) # BurstDone
  /\ wire' = Tail(wire)
  /\ badge' = Head(wire)
  /\ skewed' = FALSE
  /\ snapshot' = [n \in Snapshots |->
       IF snapshot[n].state # "served" THEN snapshot[n]
       ELSE IF snapshot[n].older > 0 THEN [snapshot[n] EXCEPT !.older = @ - 1]
       ELSE [snapshot[n] EXCEPT !.late = TRUE]]
  /\ UNCHANGED <<config, link, bursts>>

ServeSnapshot(n, count) ==
  /\ snapshot[n].state = "sent"
  /\ snapshot' = [snapshot EXCEPT ![n] = [state |-> "served", count |-> count, older |-> Counts,
       late |-> FALSE, turn |-> 1 + Cardinality({m \in Snapshots : snapshot[m].state = "served"})]]
  /\ UNCHANGED <<config, link, wire, bursts, badge, skewed>>

\* mutant: calls that are not in the snapshot keep their count
SnapshotAdds(n) ==
  /\ snapshot[n].state = "served"
  /\ badge' = IF snapshot[n].count > 0 THEN snapshot[n].count ELSE badge
  /\ skewed' = snapshot[n].late
  /\ snapshot' = [snapshot EXCEPT ![n] = Answered]
  /\ UNCHANGED <<config, link, wire, bursts>>

\* The reply replaces what the client had, whatever it has heard since.
SnapshotHere(n) ==
  /\ snapshot[n].state = "served"
  /\ badge' = snapshot[n].count
  /\ skewed' = snapshot[n].late
  /\ snapshot' = [m \in Snapshots |->
       IF m = n THEN Answered
       ELSE [snapshot[m] EXCEPT !.late = @ \/ snapshot[m].turn \in 1..(snapshot[n].turn - 1)]]
  /\ UNCHANGED <<config, link, wire, bursts>>

\* An error is ignored.
SnapshotFails(n) ==
  /\ n \in InFlight
  /\ snapshot' = [snapshot EXCEPT ![n] = Answered]
  /\ skewed' = TRUE
  /\ UNCHANGED <<config, link, wire, bursts, badge>>

\* refresh_voice_ui: how many a conversation says are in its call; nothing of
\* calls is shown before the server is known to have them.
Badge == IF config = "enabled" THEN badge ELSE 0

--------------------------------------------------------------------------------
CountsInit ==
  /\ config = "asked" /\ link = FALSE /\ wire = <<>> /\ bursts = 0 /\ badge = 0
  /\ snapshot = [n \in Snapshots |-> Unasked] /\ skewed = FALSE

CountsNext(count) ==
  \/ ConfigHere \/ LinkUp \/ LinkDown \/ HearBurst \/ HearCount
  \/ \E n \in Snapshots : ServeSnapshot(n, count) \/ SnapshotHere(n) \/ SnapshotFails(n)
================================================================================
