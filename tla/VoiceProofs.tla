---------------------------- MODULE VoiceProofs ----------------------------
(***************************************************************************)
(* What holds of a conversation's calls and of their count in every state,      *)
(* however many calls, participants and connections there are.                *)
(***************************************************************************)
EXTENDS Voice, FiniteSetTheorems, TLAPS

--------------------------------------------------------------------------------
(* The count *)

Snaps == [state : {"none", "sent", "served", "over"}, count : Int, older : Nat, late : BOOLEAN, turn : Int]

\* Frames carry what the server counts, the last of them what it counts now; a
\* snapshot that is not late is as old as the frames that follow it; and unless a
\* snapshot failed or came late, what the client shows is what it last read.
CountsInv ==
  /\ wire \in Seq(Int) /\ snapshot \in [Snapshots -> Snaps]
  /\ bursts \in 0..MaxBursts
  /\ link => focus = "counts" /\ bursts \in Snapshots
  /\ ~link => wire = <<>>
  /\ \A i \in 1..Len(wire) : i > 1 => wire[i] # BurstDone
  /\ link /\ Counts > 0 => wire[Len(wire)] = InCall
  /\ link => \A n \in Snapshots : snapshot[n].state = "served" /\ ~snapshot[n].late =>
       snapshot[n].older <= Counts /\ (snapshot[n].older = Counts => snapshot[n].count = InCall)
  /\ link /\ wire = <<>> /\ ~skewed /\ bursts \notin InFlight => badge = InCall

\* How many are in the call is a number.
LEMMA InCallIs == InCall \in Nat
<1>1. IsFiniteSet(Others) /\ Present \subseteq Others
  BY CallsAssumption DEF Present
<1>2. IsFiniteSet(Present)
  BY <1>1, FS_Subset
<1>3. Cardinality(Present) \in Nat
  BY <1>2, FS_CardinalityType
<1>4. QED BY <1>3 DEF InCall

\* The frames that are on their way are all numbers but perhaps the first.
LEMMA CountsIs ==
  ASSUME NEW w \in Seq(Int), w = wire
  PROVE  /\ Counts \in Nat
         /\ w = <<>> => Counts = 0
         /\ w # <<>> /\ Head(w) = BurstDone => Counts = Len(w) - 1
         /\ w # <<>> /\ Head(w) # BurstDone => Counts = Len(w)
BY DEF Counts

\* A snapshot that was answered is over.
LEMMA AnsweredIs == Answered \in Snaps /\ Answered.state = "over"
<1>1. ASSUME NEW f
      PROVE  [[state |-> "none", count |-> 0, older |-> 0, late |-> f, turn |-> 0] EXCEPT !.state = "over"]
             = [state |-> "over", count |-> 0, older |-> 0, late |-> f, turn |-> 0]
  OBVIOUS
<1>2. Answered = [state |-> "over", count |-> 0, older |-> 0, late |-> FALSE, turn |-> 0]
  BY Zenon, <1>1 DEF Answered, Unasked
<1>3. QED BY <1>2 DEF Snaps

\* A frame is announced to a client that is connected.
LEMMA CountsAnnounced ==
  ASSUME CountsInv, NEW count \in Nat, InCall' = count, count # InCall, Announced(count),
         UNCHANGED <<config, link, bursts, snapshot, badge, skewed, focus>>
  PROVE  CountsInv'
<1>1. CASE ~link
  <2>1. wire' = wire /\ wire = <<>>
    BY <1>1 DEF Announced, CountsInv
  <2>2. QED BY <1>1, <2>1 DEF CountsInv, Snapshots
<1>2. CASE link
  <2>1. wire' = Append(wire, count) /\ wire \in Seq(Int) /\ BurstDone \notin Nat
    BY <1>2 DEF Announced, CountsInv, BurstDone
  <2>2. /\ wire' \in Seq(Int) /\ wire' # <<>> /\ Len(wire') = Len(wire) + 1 /\ wire'[Len(wire')] = count
        /\ \A i \in 1..Len(wire) : wire'[i] = wire[i]
    BY <2>1
  <2>3. \A i \in 1..Len(wire') : i > 1 => wire'[i] # BurstDone
    BY <2>1, <2>2 DEF CountsInv
  <2>4. Counts' = Counts + 1 /\ Counts \in Nat
    <3>1. CASE wire = <<>>
      BY <2>1, <2>2, <3>1 DEF Counts
    <3>2. CASE wire # <<>>
      BY <2>1, <2>2, <3>2 DEF Counts
    <3>3. QED BY <3>1, <3>2
  <2>5. ASSUME NEW n \in Snapshots, snapshot[n].state = "served" /\ ~snapshot[n].late
        PROVE  snapshot[n].older <= Counts' /\ snapshot[n].older # Counts'
    <3>1. snapshot[n].older \in Nat /\ snapshot[n].older <= Counts
      BY <1>2, <2>5 DEF CountsInv, Snaps
    <3>2. QED BY <2>4, <3>1
  <2>6. /\ link' = link /\ bursts' = bursts /\ snapshot' = snapshot /\ focus' = focus /\ Snapshots' = Snapshots
        /\ wire' # <<>>
    BY <2>2 DEF Snapshots
  <2>7. snapshot \in [Snapshots -> Snaps] /\ bursts \in 0..MaxBursts /\ (link => focus = "counts" /\ bursts \in Snapshots)
    BY DEF CountsInv
  <2>8. QED BY <1>2, <2>2, <2>3, <2>5, <2>6, <2>7 DEF CountsInv
<1>3. QED BY <1>1, <1>2

\* Every step keeps the count, the frames and the snapshots in agreement.
LEMMA CountsStep ==
  ASSUME CountsInv, CountsNext(InCall), focus = "counts", UNCHANGED <<callVars, focus>> PROVE CountsInv'
<1>1. InCall' = InCall /\ InCall \in Nat /\ focus' = "counts"
  BY InCallIs DEF callVars, outsideWorld, InCall, Present
<1>2. /\ wire \in Seq(Int) /\ snapshot \in [Snapshots -> Snaps] /\ bursts \in 0..MaxBursts
      /\ link => bursts \in Snapshots
      /\ ~link => wire = <<>>
      /\ \A i \in 1..Len(wire) : i > 1 => wire[i] # BurstDone
      /\ link /\ Counts > 0 => wire[Len(wire)] = InCall
      /\ link => \A n \in Snapshots : snapshot[n].state = "served" /\ ~snapshot[n].late =>
           snapshot[n].older <= Counts /\ (snapshot[n].older = Counts => snapshot[n].count = InCall)
      /\ link /\ wire = <<>> /\ ~skewed /\ bursts \notin InFlight => badge = InCall
  BY DEF CountsInv
<1>3. MaxBursts \in Nat /\ Snapshots = 1..MaxBursts /\ BurstDone = -1
  BY CountsAssumption DEF Snapshots, BurstDone
<1>4. /\ Counts \in Nat
      /\ wire = <<>> => Counts = 0
      /\ wire # <<>> /\ Head(wire) = BurstDone => Counts = Len(wire) - 1
      /\ wire # <<>> /\ Head(wire) # BurstDone => Counts = Len(wire)
  BY <1>2, CountsIs
<1>5. CASE ConfigHere
  BY <1>1, <1>2, <1>5 DEF ConfigHere, CountsInv, Counts, InFlight, Snapshots
<1>6. CASE LinkUp
  <2>1. /\ link' = TRUE /\ bursts' = bursts + 1 /\ bursts < MaxBursts /\ wire' = <<BurstDone>>
        /\ snapshot' = [n \in Snapshots |-> [snapshot[n] EXCEPT !.late = snapshot[n].state = "served"]]
    BY <1>6 DEF LinkUp
  <2>2. /\ wire' \in Seq(Int) /\ Counts' = 0 /\ wire' # <<>> /\ Len(wire') = 1
    BY <1>3, <2>1 DEF Counts
  <2>3. \A n \in Snapshots : /\ snapshot'[n] = [snapshot[n] EXCEPT !.late = snapshot[n].state = "served"]
                             /\ (snapshot[n].state = "served") \in BOOLEAN
    BY <2>1
  <2>4. ASSUME NEW n \in Snapshots, NEW b \in BOOLEAN
        PROVE  [snapshot[n] EXCEPT !.late = b] \in Snaps /\ [snapshot[n] EXCEPT !.late = b].late = b
               /\ [snapshot[n] EXCEPT !.late = b].state = snapshot[n].state
    BY <1>2 DEF Snaps
  <2>5. \A n \in Snapshots : /\ snapshot'[n] \in Snaps /\ snapshot'[n].state = snapshot[n].state
                             /\ snapshot'[n].late = (snapshot[n].state = "served")
    BY Zenon, <2>3, <2>4
  <2>6. snapshot' \in [Snapshots -> Snaps]
    BY <2>1, <2>5
  <2>7. bursts' \in Snapshots
    BY <1>2, <1>3, <2>1
  <2>8. \A n \in Snapshots : ~(snapshot'[n].state = "served" /\ ~snapshot'[n].late)
    BY <2>5
  <2>9. \A i \in 1..Len(wire') : ~(i > 1)
    BY <2>2
  <2>10. link' => focus' = "counts" /\ bursts' \in Snapshots'
    BY <1>1, <2>7 DEF Snapshots
  <2>11. bursts' \in 0..MaxBursts /\ Snapshots' = Snapshots
    BY <1>3, <2>7 DEF Snapshots
  <2>12. /\ link' => \A n \in Snapshots' : snapshot'[n].state = "served" /\ ~snapshot'[n].late =>
               snapshot'[n].older <= Counts' /\ (snapshot'[n].older = Counts' => snapshot'[n].count = InCall')
         /\ ~link' => wire' = <<>>
         /\ ~(Counts' > 0) /\ wire' # <<>>
    BY <2>1, <2>2, <2>8, <2>11
  <2>13. QED BY <2>2, <2>6, <2>9, <2>10, <2>11, <2>12 DEF CountsInv
<1>7. CASE LinkDown
  BY <1>1, <1>2, <1>7 DEF LinkDown, CountsInv, Snapshots
<1>8. CASE HearBurst
  <2>1. /\ wire # <<>> /\ Head(wire) = BurstDone /\ wire' = Tail(wire) /\ link' = link /\ bursts' = bursts
        /\ badge' = badge
        /\ \/ snapshot' = [snapshot EXCEPT ![bursts].state = "sent"]
           \/ skewed' = TRUE /\ snapshot' = snapshot
    BY <1>8 DEF HearBurst
  <2>2. link /\ bursts \in Snapshots
    BY <1>2, <2>1
  <2>3. /\ wire' \in Seq(Int) /\ Len(wire') = Len(wire) - 1
        /\ \A i \in 1..Len(wire') : wire'[i] = wire[i + 1]
    BY <1>2, <2>1
  <2>4. \A i \in 1..Len(wire') : wire'[i] # BurstDone
    BY SMTT(30), <1>2, <2>3
  <2>5. Counts' = Counts
    <3>1. wire' # <<>> => Head(wire') = wire'[1] /\ 1 \in 1..Len(wire')
      BY <2>3
    <3>2. Counts' = Len(wire')
      BY <2>4, <3>1 DEF Counts
    <3>3. QED BY <1>4, <2>1, <2>3, <3>2
  <2>6. Counts > 0 => wire'[Len(wire')] = InCall
    BY <1>2, <1>4, <2>1, <2>2, <2>3
  <2>7. snapshot' \in [Snapshots -> Snaps]
    BY ZenonT(40), <1>2, <2>1, <2>2 DEF Snaps
  <2>8. \A n \in Snapshots : \/ snapshot'[n] = snapshot[n]
                             \/ snapshot'[n].state = "sent"
    BY <1>2, <2>1, <2>2 DEF Snaps
  <2>9. skewed' \/ bursts \in InFlight'
    BY <1>2, <2>1, <2>2 DEF InFlight, Snaps, Snapshots
  <2>10. \A n \in Snapshots : snapshot'[n].state = "served" /\ ~snapshot'[n].late =>
           snapshot'[n].older <= Counts' /\ (snapshot'[n].older = Counts' => snapshot'[n].count = InCall)
    BY <1>2, <2>2, <2>5, <2>8
  <2>11. QED
    BY <1>1, <1>2, <1>3, <2>1, <2>2, <2>3, <2>4, <2>5, <2>6, <2>7, <2>9, <2>10 DEF CountsInv
<1>9. CASE HearCount
  <2>1. /\ wire # <<>> /\ Head(wire) # BurstDone /\ wire' = Tail(wire) /\ link' = link /\ bursts' = bursts
        /\ badge' = Head(wire) /\ skewed' = FALSE
        /\ snapshot' = [n \in Snapshots |->
             IF snapshot[n].state # "served" THEN snapshot[n]
             ELSE IF snapshot[n].older > 0 THEN [snapshot[n] EXCEPT !.older = @ - 1]
             ELSE [snapshot[n] EXCEPT !.late = TRUE]]
    BY <1>9 DEF HearCount
  <2>2. link /\ bursts \in Snapshots
    BY <1>2, <2>1
  <2>3. /\ wire' \in Seq(Int) /\ Len(wire') = Len(wire) - 1
        /\ \A i \in 1..Len(wire') : wire'[i] = wire[i + 1]
    BY <1>2, <2>1
  <2>4. \A i \in 1..Len(wire') : wire'[i] # BurstDone
    BY SMTT(30), <1>2, <2>3
  <2>5. Counts' = Counts - 1 /\ Counts = Len(wire) /\ Counts > 0
    <3>1. wire' # <<>> => Head(wire') = wire'[1] /\ 1 \in 1..Len(wire')
      BY <2>3
    <3>2. Counts' = Len(wire')
      BY <2>4, <3>1 DEF Counts
    <3>3. QED BY <1>2, <1>4, <2>1, <2>3, <3>2
  <2>6. wire[Len(wire)] = InCall
    BY <1>2, <2>2, <2>5
  <2>7. Counts' > 0 => wire'[Len(wire')] = InCall
    BY <1>2, <2>3, <2>5, <2>6
  <2>8. wire' = <<>> => badge' = InCall
    BY <1>2, <2>1, <2>3, <2>6
  <2>9. ASSUME NEW n \in Snapshots
        PROVE  /\ snapshot'[n] \in Snaps
               /\ snapshot'[n].state = "served" /\ ~snapshot'[n].late =>
                    snapshot'[n].older <= Counts' /\ (snapshot'[n].older = Counts' => snapshot'[n].count = InCall)
    <3>1. snapshot[n] \in Snaps
      BY <1>2
    <3>2. CASE snapshot[n].state # "served"
      <4>1. snapshot'[n] = snapshot[n]
        BY <2>1, <3>2
      <4>2. QED BY <3>1, <3>2, <4>1
    <3>3. CASE snapshot[n].state = "served" /\ snapshot[n].older > 0
      <4>1. snapshot'[n] = [snapshot[n] EXCEPT !.older = @ - 1]
        BY <2>1, <3>3
      <4>2. /\ snapshot'[n] \in Snaps /\ snapshot'[n].older = snapshot[n].older - 1
            /\ snapshot'[n].late = snapshot[n].late /\ snapshot'[n].count = snapshot[n].count
        BY <3>1, <3>3, <4>1 DEF Snaps
      <4>3. snapshot[n].older \in Int
        BY <3>1 DEF Snaps
      <4>4. ASSUME ~snapshot'[n].late
            PROVE  snapshot'[n].older <= Counts' /\ (snapshot'[n].older = Counts' => snapshot'[n].count = InCall)
        <5>1. snapshot[n].older <= Counts /\ (snapshot[n].older = Counts => snapshot[n].count = InCall)
          BY <1>2, <2>2, <3>3, <4>2, <4>4
        <5>2. QED BY <1>4, <2>5, <4>2, <4>3, <5>1
      <4>5. QED BY <4>2, <4>4
    <3>4. CASE snapshot[n].state = "served" /\ ~(snapshot[n].older > 0)
      <4>1. snapshot'[n] = [snapshot[n] EXCEPT !.late = TRUE]
        BY <2>1, <3>4
      <4>2. snapshot'[n] \in Snaps /\ snapshot'[n].late
        BY <3>1, <4>1 DEF Snaps
      <4>3. QED BY <4>2
    <3>5. QED BY <3>2, <3>3, <3>4
  <2>10. snapshot' \in [Snapshots -> Snaps]
    BY <2>1, <2>9
  <2>11. QED BY <1>1, <1>2, <1>3, <2>1, <2>2, <2>3, <2>4, <2>7, <2>8, <2>9, <2>10 DEF CountsInv
<1>10. ASSUME NEW n \in Snapshots, ServeSnapshot(n, InCall) PROVE CountsInv'
  <2> DEFINE turn == 1 + Cardinality({m \in Snapshots : snapshot[m].state = "served"})
             s == [state |-> "served", count |-> InCall, older |-> Counts, late |-> FALSE, turn |-> turn]
  <2>1. /\ snapshot[n].state = "sent" /\ snapshot' = [snapshot EXCEPT ![n] = s]
        /\ wire' = wire /\ link' = link /\ bursts' = bursts /\ badge' = badge /\ skewed' = skewed
    BY <1>10 DEF ServeSnapshot
  <2>2. turn \in Int
    <3>1. IsFiniteSet(Snapshots) /\ {m \in Snapshots : snapshot[m].state = "served"} \subseteq Snapshots
      BY <1>3, FS_Interval
    <3>2. Cardinality({m \in Snapshots : snapshot[m].state = "served"}) \in Nat
      BY <3>1, FS_Subset, FS_CardinalityType
    <3>3. QED BY <3>2
  <2> HIDE DEF turn
  <2>3. s \in Snaps
    BY <1>1, <1>4, <2>2 DEF Snaps
  <2>4. s.state = "served" /\ s.count = InCall /\ s.older = Counts
    OBVIOUS
  <2> HIDE DEF s
  <2>5. snapshot' \in [Snapshots -> Snaps] /\ \A m \in Snapshots : snapshot'[m] = IF m = n THEN s ELSE snapshot[m]
    BY <1>2, <2>1, <2>3
  <2>6. InFlight' = InFlight
    BY <2>1, <2>4, <2>5 DEF InFlight, Snapshots
  <2>7. Counts' = Counts
    BY <2>1 DEF Counts
  <2>8. ASSUME link, NEW m \in Snapshots, snapshot'[m].state = "served" /\ ~snapshot'[m].late
        PROVE  snapshot'[m].older <= Counts /\ (snapshot'[m].older = Counts => snapshot'[m].count = InCall)
    BY <1>2, <1>4, <2>4, <2>5, <2>8
  <2>9. QED BY <1>1, <1>2, <1>3, <2>1, <2>5, <2>6, <2>7, <2>8 DEF CountsInv
<1>11. ASSUME NEW n \in Snapshots, SnapshotHere(n) PROVE CountsInv'
  <2>1. /\ snapshot[n].state = "served" /\ badge' = snapshot[n].count /\ skewed' = snapshot[n].late
        /\ snapshot' = [m \in Snapshots |->
             IF m = n THEN Answered
             ELSE [snapshot[m] EXCEPT !.late = @ \/ snapshot[m].turn \in 1..(snapshot[n].turn - 1)]]
        /\ wire' = wire /\ link' = link /\ bursts' = bursts
    BY <1>11 DEF SnapshotHere
  <2>2. Answered \in Snaps /\ Answered.state = "over"
    BY AnsweredIs
  <2>3. ASSUME NEW m \in Snapshots, NEW b \in BOOLEAN
        PROVE  /\ [snapshot[m] EXCEPT !.late = b] \in Snaps /\ [snapshot[m] EXCEPT !.late = b].late = b
               /\ [snapshot[m] EXCEPT !.late = b].state = snapshot[m].state
               /\ [snapshot[m] EXCEPT !.late = b].older = snapshot[m].older
               /\ [snapshot[m] EXCEPT !.late = b].count = snapshot[m].count
    BY <1>2 DEF Snaps
  <2> DEFINE later(m) == snapshot[m].late \/ snapshot[m].turn \in 1..(snapshot[n].turn - 1)
  <2>4. \A m \in Snapshots : later(m) \in BOOLEAN /\ (snapshot[m].late => later(m) = TRUE)
    BY <1>2 DEF Snaps
  <2>5. \A m \in Snapshots : m # n => snapshot'[m] = [snapshot[m] EXCEPT !.late = later(m)]
    BY <2>1
  <2>6. snapshot'[n] = Answered
    BY <2>1
  <2> HIDE DEF later
  <2>7. ASSUME NEW m \in Snapshots, m # n
        PROVE  /\ snapshot'[m] \in Snaps /\ snapshot'[m].late = later(m)
               /\ snapshot'[m].state = snapshot[m].state
               /\ snapshot'[m].older = snapshot[m].older /\ snapshot'[m].count = snapshot[m].count
    <3>1. snapshot'[m] = [snapshot[m] EXCEPT !.late = later(m)] /\ later(m) \in BOOLEAN
      BY <2>4, <2>5, <2>7
    <3> DEFINE s == [snapshot[m] EXCEPT !.late = later(m)]
    <3>2. /\ s \in Snaps /\ s.late = later(m) /\ s.state = snapshot[m].state
          /\ s.older = snapshot[m].older /\ s.count = snapshot[m].count
      BY <2>3, <3>1
    <3>3. QED BY Zenon, <3>1, <3>2
  <2>8. snapshot' \in [Snapshots -> Snaps]
    <3>1. \A m \in Snapshots : snapshot'[m] \in Snaps
      BY <2>2, <2>6, <2>7
    <3>2. snapshot' = [m \in Snapshots |-> snapshot'[m]]
      BY <2>1
    <3>3. QED BY <3>1, <3>2
  <2>9. Counts' = Counts
    BY <2>1 DEF Counts
  <2>10. ASSUME link, NEW m \in Snapshots, snapshot'[m].state = "served" /\ ~snapshot'[m].late
         PROVE  snapshot'[m].older <= Counts /\ (snapshot'[m].older = Counts => snapshot'[m].count = InCall)
    <3>1. m # n
      BY <2>2, <2>6, <2>10
    <3>2. ~later(m)
      BY <2>7, <2>10, <3>1
    <3>3. ~snapshot[m].late
      BY <2>4, <3>2
    <3>4. QED BY <1>2, <2>7, <2>10, <3>1, <3>3
  <2>11. link /\ wire = <<>> /\ ~skewed' => badge' = InCall
    <3>1. SUFFICES ASSUME link, wire = <<>>, ~snapshot[n].late PROVE snapshot[n].count = InCall
      BY <2>1
    <3>2. snapshot[n].older \in Int /\ snapshot[n].older <= 0 /\ Counts = 0
      BY <1>2, <1>4, <2>1, <3>1 DEF Snaps
    <3>3. snapshot[n].older = Counts
      BY <1>2, <3>2 DEF Snaps
    <3>4. QED BY <1>2, <2>1, <3>1, <3>3
  <2>12. QED BY <1>1, <1>2, <1>3, <2>1, <2>8, <2>9, <2>10, <2>11 DEF CountsInv
<1>12. ASSUME NEW n \in Snapshots, SnapshotFails(n) PROVE CountsInv'
  <2>1. /\ snapshot' = [snapshot EXCEPT ![n] = Answered] /\ skewed' = TRUE
        /\ wire' = wire /\ link' = link /\ bursts' = bursts /\ badge' = badge
    BY <1>12 DEF SnapshotFails
  <2>2. Answered \in Snaps /\ Answered.state = "over"
    BY AnsweredIs
  <2>3. snapshot' \in [Snapshots -> Snaps] /\ \A m \in Snapshots : snapshot'[m] = IF m = n THEN Answered ELSE snapshot[m]
    BY <1>2, <2>1, <2>2
  <2>4. Counts' = Counts
    BY <2>1 DEF Counts
  <2>5. \A m \in Snapshots : snapshot'[m].state = "served" => snapshot'[m] = snapshot[m]
    BY <2>2, <2>3
  <2>6. QED BY <1>1, <1>2, <1>3, <2>1, <2>3, <2>4, <2>5 DEF CountsInv
<1>13. QED BY <1>5, <1>6, <1>7, <1>8, <1>9, <1>10, <1>11, <1>12 DEF CountsNext

\* Connected, with nothing on its way, the badge shows how many are in the call
\* (store.rs hydrate_call_presence, app.rs hydrate_call_presence): however frames
\* and snapshots overtook each other, unless a snapshot failed or came late.
THEOREM BadgeIsRight == Spec => []CountAgrees
<1>1. Init => CountsInv
  <2>1. SUFFICES ASSUME CountsInit PROVE CountsInv
    BY DEF Init
  <2>2. /\ link = FALSE /\ wire = <<>> /\ bursts = 0 /\ snapshot = [n \in Snapshots |-> Unasked]
    BY <2>1 DEF CountsInit
  <2>3. Unasked \in Snaps
    BY DEF Unasked, Snaps
  <2>4. wire \in Seq(Int) /\ Len(wire) = 0 /\ bursts \in 0..MaxBursts
    BY <2>2, CountsAssumption
  <2>5. QED BY <2>2, <2>3, <2>4 DEF CountsInv
<1>2. CountsInv /\ [Next]_voiceVars => CountsInv'
  <2>1. SUFFICES ASSUME CountsInv, [Next]_voiceVars PROVE CountsInv'
    OBVIOUS
  <2>2. CASE UNCHANGED voiceVars
    BY <2>1, <2>2 DEF voiceVars, countVars, callVars, outsideWorld, CountsInv, Counts, InFlight, InCall,
                      Present, Snapshots
  <2>3. CASE focus = "counts" /\ CountsNext(InCall) /\ UNCHANGED <<callVars, focus>>
    BY <2>1, <2>3, CountsStep
  <2>4. ASSUME CallsNext, UNCHANGED <<config, link, bursts, snapshot, badge, skewed, focus>>,
               IF focus = "counts" /\ InCall' # InCall THEN Announced(InCall') ELSE wire' = wire
        PROVE  CountsInv'
    <3>1. InCall \in Nat /\ InCall' \in Nat
      <4>1. InCall \in Nat
        BY InCallIs
      <4>2. InCall' \in Nat
        <5>1. (InCall \in Nat)'
          BY InCallIs, PTL
        <5>2. QED BY <5>1
      <4>3. QED BY <4>1, <4>2
    <3>2. CASE focus = "counts" /\ InCall' # InCall
      <4>1. Announced(InCall')
        BY <2>4, <3>2
      <4>2. \A n \in Nat : InCall' = n /\ n # InCall /\ Announced(n) => CountsInv'
        BY <2>1, <2>4, CountsAnnounced
      <4>3. QED BY <3>1, <3>2, <4>1, <4>2
    <3>3. CASE ~(focus = "counts" /\ InCall' # InCall)
      <4>1. /\ wire' = wire /\ link' = link /\ bursts' = bursts /\ snapshot' = snapshot /\ badge' = badge
            /\ skewed' = skewed /\ focus' = focus
        BY <2>4, <3>3
      <4>2. Counts' = Counts /\ InFlight' = InFlight
        BY <4>1 DEF Counts, InFlight, Snapshots
      <4>3. CASE focus = "counts"
        BY <2>1, <3>3, <4>1, <4>2, <4>3 DEF CountsInv, Snapshots
      <4>4. CASE focus # "counts"
        BY <2>1, <4>1, <4>2, <4>4 DEF CountsInv, Snapshots
      <4>5. QED BY <4>3, <4>4
    <3>4. QED BY <3>2, <3>3
  <2>5. QED BY <2>1, <2>2, <2>3, <2>4 DEF Next
<1>3. CountsInv => CountAgrees
  <2>1. SUFFICES ASSUME CountsInv, link, wire = <<>>, InFlight = {}, ~skewed PROVE badge = InCall
    BY DEF CountAgrees, Badge
  <2>2. QED BY <2>1 DEF CountsInv
<1>4. QED BY <1>1, <1>2, <1>3, PTL DEF Spec

--------------------------------------------------------------------------------
(* Coming and going *)

\* Whether p is in at the end of q, if it was in B before: what puts it in is on,
\* what takes it out is off.
Ends(q, on, off, p, B) ==
  \/ \E i \in 1..Len(q) : q[i] \in on /\ \A j \in 1..Len(q) : j > i => q[j] \notin off
  \/ p \in B /\ \A i \in 1..Len(q) : q[i] \notin off

\* Where nothing happens, nobody comes or goes.
LEMMA EndsEmpty ==
  ASSUME NEW on, NEW off, NEW p, NEW B PROVE Ends(<<>>, on, off, p, B) <=> p \in B
<1>1. Len(<<>>) = 0
  OBVIOUS
<1>2. QED BY <1>1 DEF Ends

\* Only p's own place before counts for p.
LEMMA EndsBase ==
  ASSUME NEW q, NEW on, NEW off, NEW p, NEW B, NEW C, p \in B <=> p \in C
  PROVE  Ends(q, on, off, p, B) <=> Ends(q, on, off, p, C)
BY DEF Ends

\* What happens last decides.
LEMMA EndsAppend ==
  ASSUME NEW S, NEW q \in Seq(S), NEW e \in S, NEW on, NEW off, on \cap off = {}, NEW p, NEW B
  PROVE  Ends(Append(q, e), on, off, p, B) <=> e \in on \/ (Ends(q, on, off, p, B) /\ e \notin off)
<1> DEFINE r == Append(q, e)
<1>1. /\ Len(r) = Len(q) + 1 /\ r[Len(r)] = e /\ Len(q) \in Nat
      /\ \A i \in 1..Len(q) : r[i] = q[i]
  OBVIOUS
<1> HIDE DEF r
<1>2. \A i \in 1..Len(r) : i = Len(r) \/ i \in 1..Len(q)
  BY <1>1
<1>3. ASSUME e \in on PROVE Ends(r, on, off, p, B)
  <2>1. Len(r) \in 1..Len(r) /\ \A j \in 1..Len(r) : ~(j > Len(r))
    BY <1>1
  <2>2. QED BY <1>1, <1>3, <2>1 DEF Ends
<1>4. ASSUME e \notin on, Ends(q, on, off, p, B), e \notin off PROVE Ends(r, on, off, p, B)
  <2>1. ASSUME NEW i \in 1..Len(q), q[i] \in on, \A j \in 1..Len(q) : j > i => q[j] \notin off
        PROVE  Ends(r, on, off, p, B)
    <3>1. i \in 1..Len(r) /\ r[i] \in on
      BY <1>1, <2>1
    <3>2. \A j \in 1..Len(r) : j > i => r[j] \notin off
      BY <1>1, <1>2, <1>4, <2>1
    <3>3. QED BY <3>1, <3>2 DEF Ends
  <2>2. ASSUME p \in B, \A i \in 1..Len(q) : q[i] \notin off PROVE Ends(r, on, off, p, B)
    <3>1. \A i \in 1..Len(r) : r[i] \notin off
      BY <1>1, <1>2, <1>4, <2>2
    <3>2. QED BY <2>2, <3>1 DEF Ends
  <2>3. QED BY <1>4, <2>1, <2>2 DEF Ends
<1>5. ASSUME Ends(r, on, off, p, B), e \notin on PROVE Ends(q, on, off, p, B) /\ e \notin off
  <2>1. Len(r) \in 1..Len(r) /\ \A i \in 1..Len(q) : i \in 1..Len(r) /\ Len(r) > i
    BY <1>1
  <2>2. ASSUME NEW i \in 1..Len(r), r[i] \in on, \A j \in 1..Len(r) : j > i => r[j] \notin off
        PROVE  Ends(q, on, off, p, B) /\ e \notin off
    <3>1. i \in 1..Len(q)
      BY <1>1, <1>2, <1>5, <2>2
    <3>2. e \notin off
      BY <1>1, <2>1, <2>2, <3>1
    <3>3. q[i] \in on /\ \A j \in 1..Len(q) : j > i => q[j] \notin off
      BY <1>1, <2>1, <2>2, <3>1
    <3>4. QED BY <3>1, <3>2, <3>3 DEF Ends
  <2>3. ASSUME p \in B, \A i \in 1..Len(r) : r[i] \notin off
        PROVE  Ends(q, on, off, p, B) /\ e \notin off
    <3>1. e \notin off /\ \A i \in 1..Len(q) : q[i] \notin off
      BY <1>1, <2>1, <2>3
    <3>2. QED BY <2>3, <3>1 DEF Ends
  <2>4. QED BY <1>5, <2>2, <2>3 DEF Ends
<1>6. QED BY <1>3, <1>4, <1>5 DEF r

\* What happens first counts as if it had been so before.
LEMMA EndsTail ==
  ASSUME NEW S, NEW q \in Seq(S), q # <<>>, NEW on, NEW off, on \cap off = {}, NEW p, NEW B, NEW C,
         p \in C <=> Head(q) \in on \/ (p \in B /\ Head(q) \notin off)
  PROVE  Ends(q, on, off, p, B) <=> Ends(Tail(q), on, off, p, C)
<1> DEFINE t == Tail(q)
<1>1. /\ Len(q) \in Nat /\ Len(q) > 0 /\ Len(t) = Len(q) - 1 /\ q[1] = Head(q)
      /\ \A i \in 1..Len(t) : t[i] = q[i + 1] /\ i + 1 \in 1..Len(q)
  OBVIOUS
<1> HIDE DEF t
<1>2. \A i \in 1..Len(q) : i = 1 \/ (i - 1 \in 1..Len(t) /\ q[i] = t[i - 1])
  BY <1>1
<1>3. ASSUME Ends(q, on, off, p, B) PROVE Ends(t, on, off, p, C)
  <2>1. ASSUME NEW i \in 1..Len(q), q[i] \in on, \A j \in 1..Len(q) : j > i => q[j] \notin off
        PROVE  Ends(t, on, off, p, C)
    <3>1. CASE i = 1
      <4>1. \A j \in 1..Len(t) : t[j] \notin off
        BY <1>1, <2>1, <3>1
      <4>2. p \in C
        BY <1>1, <2>1, <3>1
      <4>3. QED BY <4>1, <4>2 DEF Ends
    <3>2. CASE i # 1
      <4>1. i - 1 \in 1..Len(t) /\ t[i - 1] \in on
        BY <1>2, <2>1, <3>2
      <4>2. \A j \in 1..Len(t) : j > i - 1 => t[j] \notin off
        BY <1>1, <2>1
      <4>3. QED BY <4>1, <4>2 DEF Ends
    <3>3. QED BY <3>1, <3>2
  <2>2. ASSUME p \in B, \A i \in 1..Len(q) : q[i] \notin off PROVE Ends(t, on, off, p, C)
    <3>1. p \in C /\ \A j \in 1..Len(t) : t[j] \notin off
      BY <1>1, <2>2
    <3>2. QED BY <3>1 DEF Ends
  <2>3. QED BY <1>3, <2>1, <2>2 DEF Ends
<1>4. ASSUME Ends(t, on, off, p, C) PROVE Ends(q, on, off, p, B)
  <2>1. ASSUME NEW i \in 1..Len(t), t[i] \in on, \A j \in 1..Len(t) : j > i => t[j] \notin off
        PROVE  Ends(q, on, off, p, B)
    <3>1. i + 1 \in 1..Len(q) /\ q[i + 1] \in on
      BY <1>1, <2>1
    <3>2. \A j \in 1..Len(q) : j > i + 1 => q[j] \notin off
      BY <1>2, <2>1
    <3>3. QED BY <3>1, <3>2 DEF Ends
  <2>2. ASSUME p \in C, \A j \in 1..Len(t) : t[j] \notin off PROVE Ends(q, on, off, p, B)
    <3>1. CASE Head(q) \in on
      <4>1. 1 \in 1..Len(q) /\ q[1] \in on /\ \A j \in 1..Len(q) : j > 1 => q[j] \notin off
        BY <1>1, <1>2, <2>2, <3>1
      <4>2. QED BY <4>1 DEF Ends
    <3>2. CASE Head(q) \notin on
      <4>1. p \in B /\ \A j \in 1..Len(q) : q[j] \notin off
        BY <1>1, <1>2, <2>2, <3>2
      <4>2. QED BY <4>1 DEF Ends
    <3>3. QED BY <3>1, <3>2
  <2>3. QED BY <1>4, <2>1, <2>2 DEF Ends
<1>5. QED BY <1>3, <1>4 DEF t

--------------------------------------------------------------------------------
(* What a call's window and its mixer know of the room *)

RoomEvents == [what : {"connected", "disconnected", "subscribed", "unsubscribed"}, who : Others, kind : Kinds]
              \cup {Event("dropped", "me", "mic")}
Tellings == [what : {"connected", "joined", "left", "ended", "failed"}, who : SUBSET Others]

\* What the room says of somebody who comes or goes, what gives p a queue in the
\* mixer or takes it away, and what the window is told of p
Comes(p) == {e \in RoomEvents : e.what = "connected" /\ e.who = p}
Goes(p) == {e \in RoomEvents : e.what = "disconnected" /\ e.who = p}
Queues(p) == {e \in RoomEvents : e.what = "subscribed" /\ e.kind = "mic" /\ e.who = p}
Unqueues(p) == {e \in RoomEvents : e.what \in {"unsubscribed", "disconnected"} /\ e.who = p}
Adds(p) == {t \in Tellings : t.what # "left" /\ p \in t.who}
Drops(p) == {t \in Tellings : t.what = "left" /\ p \in t.who}

\* Whom the window will list once it has read all it was told
Shown(c) == {p \in Others : Ends(told[c], Adds(p), Drops(p), p, roster[c])}
\* Before its first word the window knows nobody, and will be told who is there.
Told(c) == IF task[c] = "publishing" THEN Present ELSE Shown(c)

CallTypes ==
  /\ CallsTypeOK
  /\ heard \in [CallIds -> Seq(RoomEvents)] /\ told \in [CallIds -> Seq(Tellings)]

\* What goes with where the task is
Shape(c) ==
  /\ seat = c => c \in InRoom
  /\ task[c] = "handling" => heard[c] # <<>>
  /\ task[c] \in {"idle", "minting", "connecting"} => heard[c] = <<>>
  /\ task[c] \in {"idle", "minting"} => window[c] = "none"
  /\ task[c] \in {"idle", "minting", "connecting", "publishing"} =>
       told[c] = <<>> /\ roster[c] = {} /\ mixer[c] = {}

\* Having heard all that is on its way, the call in the room lists and plays
\* those who are there.
Knows(c) ==
  seat = c /\ window[c] = "open" =>
    \A p \in Others :
      /\ Ends(heard[c], Comes(p), Goes(p), p, Told(c)) <=> p \in Present
      /\ p \notin muffled =>
           (Ends(heard[c], Queues(p), Unqueues(p), p, mixer[c]) <=> p \in Present)

CallInv == CallTypes /\ \A c \in CallIds : Shape(c) /\ Knows(c)

\* What the room says, and what the window is told
LEMMA EventIs ==
  ASSUME NEW w \in {"connected", "disconnected", "subscribed", "unsubscribed"},
         NEW p \in Others, NEW k \in Kinds
  PROVE  /\ Event(w, p, k) \in RoomEvents /\ Event("dropped", "me", "mic") \in RoomEvents
         /\ "mic" \in Kinds /\ "cam" \in Kinds
BY DEF Event, RoomEvents, Kinds

\* Appending to what the call in the room hears keeps sequences of events.
LEMMA HeardIs ==
  ASSUME CallTypes, NEW a \in RoomEvents
  PROVE  /\ Heard(<<a>>) \in [CallIds -> Seq(RoomEvents)]
         /\ \A b \in RoomEvents : Heard(<<a, b>>) \in [CallIds -> Seq(RoomEvents)]
<1>1. \A b \in RoomEvents : <<a>> \in Seq(RoomEvents) /\ <<a, b>> \in Seq(RoomEvents)
  OBVIOUS
<1>2. \A c \in CallIds : heard[c] \in Seq(RoomEvents)
  BY DEF CallTypes
<1>3. \A c \in CallIds, s \in Seq(RoomEvents) : heard[c] \o s \in Seq(RoomEvents)
  BY <1>2
<1>4. ASSUME NEW s \in Seq(RoomEvents) PROVE Heard(s) \in [CallIds -> Seq(RoomEvents)]
  BY <1>2, <1>3 DEF Heard
<1>5. QED BY <1>1, <1>4

\* Telling the window keeps sequences of tellings.
LEMMA TellIs ==
  ASSUME CallTypes, NEW c \in CallIds, NEW who \in SUBSET Others,
         NEW what \in {"connected", "joined", "left", "ended", "failed"}
  PROVE  Tell(c, what, who) \in [CallIds -> Seq(Tellings)]
<1>1. told \in [CallIds -> Seq(Tellings)] /\ told[c] \in Seq(Tellings)
  BY DEF CallTypes
<1>2. [what |-> what, who |-> who] \in Tellings
  BY DEF Tellings
<1>3. Append(told[c], [what |-> what, who |-> who]) \in Seq(Tellings)
  BY <1>1, <1>2
<1>4. QED BY <1>1, <1>3 DEF Tell

\* What a call that comes into the room hears first
LEMMA ConnectsHears ==
  ASSUME CallTypes, NEW c \in CallIds, Connects(c)
  PROVE  \E order \in Seq(Present) :
           /\ \A p \in Present : \E i \in 1..Len(order) : order[i] = p
           /\ heard' = [d \in CallIds |->
                IF d = c THEN [i \in 1..Len(order) |-> Event("subscribed", order[i], "mic")]
                ELSE IF d = seat THEN Append(heard[d], Event("dropped", "me", "mic")) ELSE heard[d]]
<1>1. IsFiniteSet(Others) /\ Present \subseteq Others
  BY CallsAssumption DEF Present
<1>2. Cardinality(Present) \in Nat
  BY <1>1, FS_Subset, FS_CardinalityType
<1>3. PICK order \in {s \in [1..Cardinality(Present) -> Present] : \A p \in Present : \E i \in DOMAIN s : s[i] = p} :
        heard' = [d \in CallIds |->
         IF d = c THEN [i \in DOMAIN order |-> Event("subscribed", order[i], "mic")]
         ELSE IF d = seat THEN Append(heard[d], Event("dropped", "me", "mic")) ELSE heard[d]]
  BY DEF Connects
<1>4. order \in Seq(Present) /\ DOMAIN order = 1..Len(order)
  BY <1>2, <1>3
<1>5. QED BY <1>3, <1>4

\* Every step keeps the types.
LEMMA CallTypesKept == CallTypes /\ (\A c \in CallIds : Shape(c)) /\ CallsNext => CallTypes'
<1> SUFFICES ASSUME CallTypes, \A c \in CallIds : Shape(c), CallsNext PROVE CallTypes'
  OBVIOUS
<1> USE DEF Became
<1>1. /\ CallsTypeOK /\ heard \in [CallIds -> Seq(RoomEvents)] /\ told \in [CallIds -> Seq(Tellings)]
  BY DEF CallTypes
<1>2. CASE Dropped
  <2>1. heard' \in [CallIds -> Seq(RoomEvents)]
    <3>1. Event("dropped", "me", "mic") \in RoomEvents
      BY DEF RoomEvents
    <3>2. QED BY <1>2, <3>1, HeardIs DEF Dropped
  <2>2. CallsTypeOK'
    BY <1>1, <1>2, CallsAssumption DEF Dropped, Move, CallsTypeOK, screen, CallIds
  <2>3. QED BY <1>1, <1>2, <2>1, <2>2 DEF CallTypes, Dropped, screen, CallIds
<1>3. ASSUME NEW p \in Others, Join(p) \/ Depart(p) \/ CameraOn(p) \/ CameraOff(p) PROVE CallTypes'
  <2>1. heard' \in [CallIds -> Seq(RoomEvents)]
    <3>1. \A w \in {"connected", "disconnected", "subscribed", "unsubscribed"}, k \in Kinds : Event(w, p, k) \in RoomEvents
      BY EventIs
    <3>2. "mic" \in Kinds /\ "cam" \in Kinds
      BY DEF Kinds
    <3>3. CASE Join(p)
      BY <3>1, <3>2, <3>3, HeardIs DEF Join
    <3>4. CASE Depart(p)
      BY <3>1, <3>2, <3>4, HeardIs DEF Depart
    <3>5. CASE CameraOn(p)
      BY <3>1, <3>2, <3>5, HeardIs DEF CameraOn
    <3>6. CASE CameraOff(p)
      BY <3>1, <3>2, <3>6, HeardIs DEF CameraOff
    <3>7. QED BY <1>3, <3>3, <3>4, <3>5, <3>6
  <2>2. told' = told /\ seat' = seat /\ task' = task /\ mixer' = mixer /\ window' = window /\ status' = status /\ roster' = roster /\ deaf' = deaf
    BY <1>3 DEF Join, Depart, CameraOn, CameraOff, screen
  <2>3. muffled' \subseteq Others /\ moves' \in 0..MaxMoves
    BY <1>1, <1>3, CallsAssumption DEF Join, Depart, CameraOn, CameraOff, Move, CallsTypeOK
  <2>4. room' \in [Others -> SUBSET Kinds]
    <3>1. \A v \in SUBSET Kinds : [room EXCEPT ![p] = v] \in [Others -> SUBSET Kinds]
      BY <1>1 DEF CallsTypeOK
    <3>2. {} \in SUBSET Kinds /\ {"mic"} \in SUBSET Kinds /\ Kinds \in SUBSET Kinds
      BY DEF Kinds
    <3>3. QED BY <1>3, <3>1, <3>2 DEF Join, Depart, CameraOn, CameraOff
  <2>5. QED BY <1>1, <2>1, <2>2, <2>3, <2>4 DEF CallTypes, CallsTypeOK, CallIds
<1>4. ASSUME NEW c \in CallIds, StartCall(c) \/ StartRefused(c) \/ Started(c) \/ TakeEvent(c)
      PROVE  CallTypes'
  <2>1. /\ heard' = heard /\ told' = told /\ seat' = seat /\ room' = room /\ mixer' = mixer
        /\ status' = status /\ roster' = roster /\ deaf' = deaf /\ muffled' = muffled
    BY <1>4 DEF StartCall, StartRefused, Started, TakeEvent, outsideWorld, screen
  <2>2. \E v \in {"minting", "over", "connecting", "handling"} : task' = [task EXCEPT ![c] = v]
    BY <1>4 DEF StartCall, StartRefused, Started, TakeEvent
  <2>3. task' \in [CallIds -> {"idle", "minting", "connecting", "publishing", "waiting",
                           "handling", "leaving", "over"}]
    BY <1>1, <2>2 DEF CallsTypeOK
  <2>4. window' \in [CallIds -> {"none", "open", "closed"}]
    BY <1>1, <1>4 DEF StartCall, StartRefused, Started, TakeEvent, screen, CallsTypeOK
  <2>5. moves' \in 0..MaxMoves
    <3>1. moves' = moves \/ Move
      BY <1>4 DEF StartCall, StartRefused, Started, TakeEvent, outsideWorld
    <3>2. QED BY <1>1, <3>1, CallsAssumption DEF Move, CallsTypeOK
  <2>6. QED BY <1>1, <2>1, <2>3, <2>4, <2>5 DEF CallTypes, CallsTypeOK, CallIds
<1>5. ASSUME NEW c \in CallIds, ConnectFails(c) \/ PublishFails(c) \/ Publishes(c) \/ Leave(c)
      PROVE  CallTypes'
  <2>1. /\ room' = room /\ mixer' = mixer /\ window' = window
        /\ status' = status /\ roster' = roster /\ deaf' = deaf /\ muffled' = muffled
    BY <1>5 DEF ConnectFails, PublishFails, Publishes, Leave, outsideWorld
  <2>2. /\ task' \in [CallIds -> {"idle", "minting", "connecting", "publishing", "waiting",
                           "handling", "leaving", "over"}]
        /\ moves' \in 0..MaxMoves /\ seat' \in 0..MaxCalls
    <3>1. \E v \in {"waiting", "over"} : task' = [task EXCEPT ![c] = v]
      BY <1>5 DEF ConnectFails, PublishFails, Publishes, Leave
    <3>2. task' \in [CallIds -> {"idle", "minting", "connecting", "publishing", "waiting",
                           "handling", "leaving", "over"}]
      BY <1>1, <3>1 DEF CallsTypeOK
    <3>3. moves' = moves \/ Move
      BY <1>5 DEF ConnectFails, PublishFails, Publishes, Leave, outsideWorld
    <3>4. seat' = seat \/ seat' = 0
      BY <1>5 DEF ConnectFails, PublishFails, Publishes, Leave, outsideWorld
    <3>5. QED BY <1>1, <3>2, <3>3, <3>4, CallsAssumption DEF Move, CallsTypeOK
  <2>3. told' \in [CallIds -> Seq(Tellings)]
    <3>1. Present \in SUBSET Others /\ {} \in SUBSET Others
      BY DEF Present
    <3>2. QED BY <1>5, <3>1, TellIs DEF ConnectFails, PublishFails, Publishes, Leave
  <2>4. heard' \in [CallIds -> Seq(RoomEvents)]
    <3>1. <<>> \in Seq(RoomEvents)
      OBVIOUS
    <3>2. QED BY <1>1, <1>5, <3>1 DEF ConnectFails, PublishFails, Publishes, Leave
  <2>5. QED BY <1>1, <2>1, <2>2, <2>3, <2>4 DEF CallTypes, CallsTypeOK, CallIds
<1>6. ASSUME NEW c \in CallIds, Connects(c) PROVE CallTypes'
  <2>1. /\ room' = room /\ mixer' = mixer /\ window' = window /\ moves' = moves /\ told' = told
        /\ status' = status /\ roster' = roster /\ deaf' = deaf /\ muffled' = muffled
    BY <1>6 DEF Connects, screen
  <2>2. /\ task' \in [CallIds -> {"idle", "minting", "connecting", "publishing", "waiting",
                           "handling", "leaving", "over"}]
        /\ seat' \in 0..MaxCalls
    BY <1>1, <1>6 DEF Connects, CallsTypeOK, CallIds
  <2>3. heard' \in [CallIds -> Seq(RoomEvents)]
    <3>1. PICK order \in Seq(Present) :
            heard' = [d \in CallIds |->
                IF d = c THEN [i \in 1..Len(order) |-> Event("subscribed", order[i], "mic")]
                ELSE IF d = seat THEN Append(heard[d], Event("dropped", "me", "mic")) ELSE heard[d]]
      BY <1>6, ConnectsHears
    <3>2. \A i \in 1..Len(order) : Event("subscribed", order[i], "mic") \in RoomEvents
      <4>1. \A i \in 1..Len(order) : order[i] \in Others
        BY DEF Present
      <4>2. "mic" \in Kinds
        BY DEF Kinds
      <4>3. QED BY <4>1, <4>2, EventIs
    <3>3. Event("dropped", "me", "mic") \in RoomEvents
      BY DEF RoomEvents
    <3>4. [i \in 1..Len(order) |-> Event("subscribed", order[i], "mic")] \in Seq(RoomEvents)
      BY <3>2
    <3>5. \A d \in CallIds : Append(heard[d], Event("dropped", "me", "mic")) \in Seq(RoomEvents)
      BY <1>1, <3>3
    <3>6. QED BY <1>1, <3>1, <3>4, <3>5
  <2>4. QED BY <1>1, <2>1, <2>2, <2>3 DEF CallTypes, CallsTypeOK, CallIds
<1>7. ASSUME NEW c \in CallIds, Handle(c), heard[c] # <<>> PROVE CallTypes'
  <2>1. /\ room' = room /\ window' = window /\ moves' = moves /\ seat' = seat
        /\ status' = status /\ roster' = roster /\ deaf' = deaf /\ muffled' = muffled
        /\ heard' = [heard EXCEPT ![c] = Tail(@)]
    BY <1>7 DEF Handle, outsideWorld
  <2>2. task' \in [CallIds -> {"idle", "minting", "connecting", "publishing", "waiting",
                           "handling", "leaving", "over"}]
    BY <1>1, <1>7 DEF Handle, CallsTypeOK
  <2>3. heard[c] \in Seq(RoomEvents) /\ Tail(heard[c]) \in Seq(RoomEvents) /\ Head(heard[c]) \in RoomEvents
    BY <1>1, <1>7
  <2>4. heard' \in [CallIds -> Seq(RoomEvents)]
    BY <1>1, <2>1, <2>3
  <2> DEFINE e == Head(heard[c])
  <2>5. e \in RoomEvents
    BY <2>3
  <2>6. /\ \/ mixer' = [mixer EXCEPT ![c] = @ \cup {e.who}] /\ e.what = "subscribed"
           \/ mixer' = [mixer EXCEPT ![c] = @ \ {e.who}]
           \/ mixer' = mixer
        /\ \/ told' = Tell(c, "joined", {e.who}) /\ e.what = "connected"
           \/ told' = Tell(c, "left", {e.who}) /\ e.what = "disconnected"
           \/ told' = Tell(c, "ended", {})
           \/ told' = told
    BY <1>7 DEF Handle
  <2> HIDE DEF e
  <2>7. e.what # "dropped" => e.who \in Others
    BY <2>5 DEF RoomEvents, Event
  <2>8. mixer' \in [CallIds -> SUBSET Others]
    <3>1. mixer \in [CallIds -> SUBSET Others]
      BY <1>1 DEF CallsTypeOK
    <3>2. QED BY <2>6, <2>7, <3>1
  <2>9. told' \in [CallIds -> Seq(Tellings)]
    <3>1. {} \in SUBSET Others /\ (e.what # "dropped" => {e.who} \in SUBSET Others)
      BY <2>7
    <3>2. CASE told' = Tell(c, "joined", {e.who}) /\ e.what = "connected"
      BY <3>1, <3>2, TellIs
    <3>3. CASE told' = Tell(c, "left", {e.who}) /\ e.what = "disconnected"
      BY <3>1, <3>3, TellIs
    <3>4. CASE told' = Tell(c, "ended", {})
      BY <3>1, <3>4, TellIs
    <3>5. QED BY <1>1, <2>6, <3>2, <3>3, <3>4
  <2>10. QED BY <1>1, <2>1, <2>2, <2>4, <2>8, <2>9 DEF CallTypes, CallsTypeOK, CallIds
<1>8. ASSUME NEW c \in CallIds, CloseWindow(c) \/ Drain(c) PROVE CallTypes'
  <2>1. /\ room' = room /\ moves' = moves /\ seat' = seat /\ heard' = heard /\ muffled' = muffled
    BY <1>8 DEF CloseWindow, Drain, outsideWorld
  <2>2. told[c] # <<>> => Head(told[c]) \in Tellings /\ Tail(told[c]) \in Seq(Tellings)
    BY <1>1
  <2>3. Closed(c) => /\ window' \in [CallIds -> {"none", "open", "closed"}]
                     /\ mixer' \in [CallIds -> SUBSET Others] /\ roster' \in [CallIds -> SUBSET Others]
                     /\ deaf' \subseteq CallIds
                     /\ task' \in [CallIds -> {"idle", "minting", "connecting", "publishing", "waiting",
                           "handling", "leaving", "over"}]
    BY <1>1 DEF Closed, HangUp, CallsTypeOK
  <2>4. CASE CloseWindow(c)
    <3>1. Closed(c) /\ told' = [told EXCEPT ![c] = <<>>] /\ status' = status
      BY <2>4 DEF CloseWindow
    <3>2. told' \in [CallIds -> Seq(Tellings)]
      BY <1>1, <3>1
    <3>3. QED BY <1>1, <2>1, <2>3, <3>1, <3>2 DEF CallTypes, CallsTypeOK, CallIds
  <2>5. CASE Drain(c)
    <3> DEFINE e == Head(told[c])
    <3>1. /\ told[c] # <<>> /\ told' = [told EXCEPT ![c] = IF e.what = "ended" THEN <<>> ELSE Tail(told[c])]
          /\ status' = IF e.what \in {"connected", "failed"} THEN [status EXCEPT ![c] = e.what] ELSE status
          /\ \/ Closed(c)
             \/ /\ roster' = [roster EXCEPT ![c] = IF e.what = "left" THEN roster[c] \ e.who
                                         ELSE roster[c] \cup e.who]
                /\ UNCHANGED <<window, mixer, task, deaf>>
      BY <2>5 DEF Drain
    <3>2. e \in Tellings /\ Tail(told[c]) \in Seq(Tellings) /\ <<>> \in Seq(Tellings)
      BY <2>2, <3>1
    <3> HIDE DEF e
    <3>3. e.who \in SUBSET Others
      BY <3>2 DEF Tellings
    <3>4. told' \in [CallIds -> Seq(Tellings)]
      BY <1>1, <3>1, <3>2
    <3>5. status' \in [CallIds -> {"connecting", "connected", "failed"}]
      BY <1>1, <3>1 DEF CallsTypeOK
    <3>6. CASE Closed(c)
      BY <1>1, <2>1, <2>3, <3>4, <3>5, <3>6 DEF CallTypes, CallsTypeOK, CallIds
    <3>7. CASE roster' = [roster EXCEPT ![c] = IF e.what = "left" THEN roster[c] \ e.who
                                         ELSE roster[c] \cup e.who] /\ UNCHANGED <<window, mixer, task, deaf>>
      <4>1. roster' \in [CallIds -> SUBSET Others]
        BY <1>1, <3>3, <3>7 DEF CallsTypeOK
      <4>2. QED BY <1>1, <2>1, <3>4, <3>5, <3>7, <4>1 DEF CallTypes, CallsTypeOK, CallIds
    <3>8. QED BY <3>1, <3>6, <3>7
  <2>6. QED BY <1>8, <2>4, <2>5
<1>9. \A c \in CallIds : Handle(c) => heard[c] # <<>>
  BY DEF Handle, Shape
<1>10. QED BY <1>2, <1>3, <1>4, <1>5, <1>6, <1>7, <1>8, <1>9 DEF CallsNext, Runs

\* What was heard and taken up stays in step with where the task is.
LEMMA ShapeKept ==
  ASSUME CallTypes, CallTypes', \A c \in CallIds : Shape(c), CallsNext
  PROVE  \A c \in CallIds : Shape(c)'
<1> USE DEF Became
<1>1. /\ task \in [CallIds -> {"idle", "minting", "connecting", "publishing", "waiting",
                           "handling", "leaving", "over"}]
      /\ window \in [CallIds -> {"none", "open", "closed"}] /\ seat \in 0..MaxCalls
      /\ heard \in [CallIds -> Seq(RoomEvents)] /\ told \in [CallIds -> Seq(Tellings)]
      /\ roster \in [CallIds -> SUBSET Others] /\ mixer \in [CallIds -> SUBSET Others]
      /\ MaxCalls \in Nat
  BY CallsAssumption DEF CallTypes, CallsTypeOK
<1>2. SUFFICES ASSUME NEW d \in CallIds PROVE Shape(d)'
  OBVIOUS
<1>3. Shape(d) /\ d \in 1..MaxCalls /\ (d \in InRoom <=> task[d] \in {"publishing", "waiting", "handling", "leaving"})
      /\ (d \in InRoom' <=> task'[d] \in {"publishing", "waiting", "handling", "leaving"})
  BY DEF InRoom, CallIds
<1>4. ASSUME NEW s \in Seq(RoomEvents), s # <<>>, heard' = Heard(s), task' = task, window' = window, told' = told,
             roster' = roster, mixer' = mixer, seat' = seat \/ seat' = 0
      PROVE  Shape(d)'
  <2>1. heard'[d] = (IF d = seat /\ d \in InRoom THEN heard[d] \o s ELSE heard[d])
    BY <1>4 DEF Heard
  <2>2. heard[d] \o s # <<>>
    BY <1>1, <1>4
  <2>3. QED BY <1>1, <1>3, <1>4, <2>1, <2>2 DEF Shape
<1>5. \A w \in {"connected", "disconnected", "subscribed", "unsubscribed"}, p \in Others, k \in Kinds :
        Event(w, p, k) \in RoomEvents
  BY EventIs
<1>6. Event("dropped", "me", "mic") \in RoomEvents /\ "mic" \in Kinds /\ "cam" \in Kinds
  BY DEF RoomEvents, Kinds
<1>7. CASE Dropped
  <2>1. <<Event("dropped", "me", "mic")>> \in Seq(RoomEvents) /\ <<Event("dropped", "me", "mic")>> # <<>>
    BY <1>6
  <2>2. QED BY <1>4, <1>7, <2>1 DEF Dropped, screen
<1>8. ASSUME NEW p \in Others, Join(p) \/ Depart(p) \/ CameraOn(p) \/ CameraOff(p) PROVE Shape(d)'
  <2>1. \A a, b \in RoomEvents : <<a>> \in Seq(RoomEvents) /\ <<a>> # <<>>
                              /\ <<a, b>> \in Seq(RoomEvents) /\ <<a, b>> # <<>>
    OBVIOUS
  <2>2. /\ task' = task /\ window' = window /\ told' = told /\ roster' = roster /\ mixer' = mixer /\ seat' = seat
    BY <1>8 DEF Join, Depart, CameraOn, CameraOff, screen
  <2>3. \A w, v \in {"connected", "disconnected", "subscribed", "unsubscribed"}, k, l \in Kinds :
          heard' = Heard(<<Event(w, p, k)>>) \/ heard' = Heard(<<Event(w, p, k), Event(v, p, l)>>) => Shape(d)'
    BY <1>4, <1>5, <2>1, <2>2
  <2>4. QED BY <1>6, <1>8, <2>3 DEF Join, Depart, CameraOn, CameraOff
<1>9. ASSUME NEW c \in CallIds, StartCall(c) \/ StartRefused(c) \/ Started(c) PROVE Shape(d)'
  BY <1>1, <1>3, <1>9 DEF StartCall, StartRefused, Started, outsideWorld, screen, Shape
<1>10. ASSUME NEW c \in CallIds, TakeEvent(c) PROVE Shape(d)'
  BY <1>1, <1>3, <1>10 DEF TakeEvent, outsideWorld, screen, Shape
<1>11. ASSUME NEW c \in CallIds, ConnectFails(c) \/ PublishFails(c) \/ Publishes(c) \/ Leave(c) PROVE Shape(d)'
  <2>1. d # c => told'[d] = told[d]
    BY <1>1, <1>11 DEF ConnectFails, PublishFails, Publishes, Leave, Tell
  <2>2. /\ task'[c] \in {"waiting", "over"} /\ (d # c => task'[d] = task[d])
        /\ window' = window /\ roster' = roster /\ mixer' = mixer
    BY <1>1, <1>11 DEF ConnectFails, PublishFails, Publishes, Leave
  <2>3. (d # c => heard'[d] = heard[d])
    BY <1>1, <1>11 DEF ConnectFails, PublishFails, Publishes, Leave
  <2>4. seat' \in {seat, 0} /\ (seat' = c => task'[c] = "waiting" \/ task[c] = "connecting")
    BY <1>1, <1>11 DEF ConnectFails, PublishFails, Publishes, Leave, outsideWorld, CallIds
  <2>5. QED BY <1>1, <1>3, <2>1, <2>2, <2>3, <2>4 DEF Shape
<1>12. ASSUME NEW c \in CallIds, Connects(c) PROVE Shape(d)'
  <2>1. PICK order \in Seq(Present) :
            heard' = [b \in CallIds |->
                IF b = c THEN [i \in 1..Len(order) |-> Event("subscribed", order[i], "mic")]
                ELSE IF b = seat THEN Append(heard[b], Event("dropped", "me", "mic")) ELSE heard[b]]
    BY <1>12, ConnectsHears
  <2>2. task' = [task EXCEPT ![c] = "publishing"] /\ seat' = c /\ mixer' = mixer /\ roster' = roster
        /\ told' = told /\ window' = window /\ task[c] = "connecting"
    BY <1>12 DEF Connects, screen
  <2>3. Append(heard[d], Event("dropped", "me", "mic")) # <<>>
    <3>1. \A q \in Seq(RoomEvents), e \in RoomEvents : Append(q, e) # <<>>
      OBVIOUS
    <3>2. QED BY <1>1, <1>6, <3>1
  <2>4. d # c => heard'[d] = heard[d] \/ (d = seat /\ heard'[d] # <<>>)
    BY <2>1, <2>3
  <2>5. QED BY <1>1, <1>3, <2>2, <2>4 DEF Shape
<1>13. ASSUME NEW c \in CallIds, Handle(c) PROVE Shape(d)'
  <2>1. /\ task[c] = "handling" /\ task' = [task EXCEPT ![c] = "waiting"]
        /\ heard' = [heard EXCEPT ![c] = Tail(@)] /\ seat' = seat /\ roster' = roster /\ window' = window
    BY <1>13 DEF Handle, outsideWorld
  <2>2. d # c => told'[d] = told[d] /\ mixer'[d] = mixer[d]
    BY <1>1, <1>13 DEF Handle, Tell
  <2>3. QED BY <1>1, <1>3, <2>1, <2>2 DEF Shape
<1>14. ASSUME NEW c \in CallIds, CloseWindow(c) \/ Drain(c) PROVE Shape(d)'
  <2>1. /\ heard' = heard /\ seat' = seat
        /\ d # c => told'[d] = told[d] /\ mixer'[d] = mixer[d] /\ roster'[d] = roster[d]
                    /\ window'[d] = window[d] /\ task'[d] = task[d]
    BY <1>1, <1>14 DEF CloseWindow, Drain, Closed, HangUp, outsideWorld
  <2>2. task'[c] = task[c] \/ (task[c] = "waiting" /\ task'[c] = "leaving")
    BY <1>1, <1>14 DEF CloseWindow, Drain, Closed, HangUp
  <2>3. task[c] \notin {"idle", "minting"}
    <3>1. Shape(c)
      OBVIOUS
    <3>2. window[c] = "open" \/ told[c] # <<>>
      BY <1>14 DEF CloseWindow, Drain
    <3>3. QED BY <3>1, <3>2 DEF Shape
  <2>4. task[c] \in {"connecting", "publishing"} => told'[c] = <<>> /\ roster'[c] = {} /\ mixer'[c] = {}
    <3>1. Shape(c)
      OBVIOUS
    <3>2. task[c] \in {"connecting", "publishing"} => CloseWindow(c)
      BY <1>14, <3>1 DEF Shape, Drain
    <3>3. CloseWindow(c) => told'[c] = <<>> /\ roster'[c] = {} /\ mixer'[c] = {}
      BY <1>1 DEF CloseWindow, Closed
    <3>4. QED BY <3>2, <3>3
  <2>5. QED BY <1>1, <1>3, <2>1, <2>2, <2>3, <2>4 DEF Shape
<1>15. QED BY <1>7, <1>8, <1>9, <1>10, <1>11, <1>12, <1>13, <1>14 DEF CallsNext, Runs

\* What the room says of p, as far as it tells of p at all
LEMMA EventTells ==
  ASSUME NEW p \in Others, NEW e \in RoomEvents
  PROVE  /\ e \in Comes(p) <=> e.what = "connected" /\ e.who = p
         /\ e \in Goes(p) <=> e.what = "disconnected" /\ e.who = p
         /\ e \in Queues(p) <=> e.what = "subscribed" /\ e.kind = "mic" /\ e.who = p
         /\ e \in Unqueues(p) <=> e.what \in {"unsubscribed", "disconnected"} /\ e.who = p
         /\ Comes(p) \cap Goes(p) = {} /\ Queues(p) \cap Unqueues(p) = {}
BY DEF Comes, Goes, Queues, Unqueues

\* What the window is told of p
LEMMA TellingTells ==
  ASSUME NEW p \in Others, NEW t \in Tellings
  PROVE  /\ t \in Adds(p) <=> t.what # "left" /\ p \in t.who
         /\ t \in Drops(p) <=> t.what = "left" /\ p \in t.who
         /\ Adds(p) \cap Drops(p) = {}
BY DEF Adds, Drops

\* Where nothing that a call knows by is touched, it knows what it knew.
LEMMA KnowsStill ==
  ASSUME NEW d \in CallIds, Knows(d),
         seat' = d /\ window'[d] = "open" =>
           /\ seat = d /\ window[d] = "open" /\ room' = room /\ muffled' = muffled /\ heard'[d] = heard[d]
           /\ told'[d] = told[d] /\ roster'[d] = roster[d] /\ mixer'[d] = mixer[d]
           /\ task'[d] = "publishing" <=> task[d] = "publishing"
  PROVE  Knows(d)'
<1>1. CASE ~(seat' = d /\ window'[d] = "open")
  BY <1>1 DEF Knows
<1>2. CASE seat' = d /\ window'[d] = "open"
  <2>1. /\ seat = d /\ window[d] = "open" /\ room' = room /\ muffled' = muffled /\ heard'[d] = heard[d]
        /\ told'[d] = told[d] /\ roster'[d] = roster[d] /\ mixer'[d] = mixer[d]
        /\ task'[d] = "publishing" <=> task[d] = "publishing"
    BY <1>2
  <2>2. Present' = Present
    BY <2>1 DEF Present
  <2>3. Shown(d)' = Shown(d)
    BY <2>1 DEF Shown, Ends
  <2>4. Told(d)' = Told(d)
    BY <2>1, <2>2, <2>3 DEF Told
  <2>5. QED BY <1>2, <2>1, <2>2, <2>4, Zenon DEF Knows, Ends
<1>3. QED BY <1>1, <1>2

\* Two things that the room says, one after the other
LEMMA EndsTwice ==
  ASSUME NEW S, NEW q \in Seq(S), NEW a \in S, NEW b \in S, NEW on, NEW off, on \cap off = {}, NEW p, NEW B
  PROVE  Ends(q \o <<a, b>>, on, off, p, B) <=>
           b \in on \/ ((a \in on \/ (Ends(q, on, off, p, B) /\ a \notin off)) /\ b \notin off)
<1>1. q \o <<a, b>> = Append(Append(q, a), b) /\ Append(q, a) \in Seq(S)
  OBVIOUS
<1>2. Ends(Append(q, a), on, off, p, B) <=> a \in on \/ (Ends(q, on, off, p, B) /\ a \notin off)
  BY EndsAppend
<1> DEFINE r == Append(q, a)
<1>3. r \in Seq(S)
  BY <1>1
<1> HIDE DEF r
<1>4. Ends(Append(r, b), on, off, p, B) <=> b \in on \/ (Ends(r, on, off, p, B) /\ b \notin off)
  BY <1>3, EndsAppend
<1>5. q \o <<a, b>> = Append(r, b) /\ (Ends(r, on, off, p, B) <=> a \in on \/ (Ends(q, on, off, p, B) /\ a \notin off))
  BY <1>1, <1>2, Zenon DEF r
<1>6. QED BY <1>4, <1>5, Zenon

\* One thing that the room says
LEMMA EndsOnce ==
  ASSUME NEW S, NEW q \in Seq(S), NEW a \in S, NEW on, NEW off, on \cap off = {}, NEW p, NEW B
  PROVE  Ends(q \o <<a>>, on, off, p, B) <=> a \in on \/ (Ends(q, on, off, p, B) /\ a \notin off)
<1>1. q \o <<a>> = Append(q, a)
  OBVIOUS
<1>2. Ends(Append(q, a), on, off, p, B) <=> a \in on \/ (Ends(q, on, off, p, B) /\ a \notin off)
  BY EndsAppend
<1>3. QED BY <1>1, <1>2, Zenon

\* Somebody comes or goes, or turns a camera on or off: the call in the room hears it.
LEMMA KnowsOfOthers ==
  ASSUME CallTypes, NEW d \in CallIds, Shape(d), Knows(d), NEW p \in Others,
         Join(p) \/ Depart(p) \/ CameraOn(p) \/ CameraOff(p)
  PROVE  Knows(d)'
<1>1. /\ task' = task /\ window' = window /\ told' = told /\ roster' = roster /\ mixer' = mixer /\ seat' = seat
  BY DEF Join, Depart, CameraOn, CameraOff, screen
<1>2. /\ heard[d] \in Seq(RoomEvents)
      /\ \A w \in {"connected", "disconnected", "subscribed", "unsubscribed"}, k \in Kinds :
           Event(w, p, k) \in RoomEvents
      /\ "mic" \in Kinds /\ "cam" \in Kinds
  BY EventIs DEF CallTypes, Kinds
<1>3. SUFFICES ASSUME seat = d, window[d] = "open", NEW r \in Others
               PROVE  /\ Ends(heard[d]', Comes(r), Goes(r), r, Told(d)') <=> r \in Present'
                      /\ r \notin muffled' =>
                          (Ends(heard[d]', Queues(r), Unqueues(r), r, mixer[d]') <=> r \in Present')
  BY <1>1 DEF Knows
<1>4. d \in InRoom
  BY <1>3 DEF Shape
<1>5. /\ \A a, b \in RoomEvents : heard' = Heard(<<a, b>>) => heard[d]' = heard[d] \o <<a, b>>
      /\ \A a \in RoomEvents : heard' = Heard(<<a>>) => heard[d]' = heard[d] \o <<a>>
  BY <1>3, <1>4 DEF Heard
<1>6. /\ Ends(heard[d], Comes(r), Goes(r), r, Told(d)) <=> r \in Present
      /\ r \notin muffled => (Ends(heard[d], Queues(r), Unqueues(r), r, mixer[d]) <=> r \in Present)
  BY <1>3 DEF Knows
<1>7. r # p => (r \in Told(d)' <=> r \in Told(d)) /\ (r \in Present' <=> r \in Present)
  <2>1. r # p => room'[r] = room[r]
    BY DEF Join, Depart, CameraOn, CameraOff, CallTypes, CallsTypeOK
  <2>2. r # p => (r \in Present' <=> r \in Present)
    BY <2>1 DEF Present
  <2>3. Shown(d)' = Shown(d)
    BY <1>1 DEF Shown, Ends
  <2>4. QED BY <1>1, <2>2, <2>3 DEF Told
<1>8. r # p => /\ Ends(heard[d], Comes(r), Goes(r), r, Told(d)') <=> r \in Present'
               /\ r \notin muffled => (Ends(heard[d], Queues(r), Unqueues(r), r, mixer[d]) <=> r \in Present')
  BY <1>6, <1>7, EndsBase
<1>9. \A w \in {"connected", "disconnected", "subscribed", "unsubscribed"}, k \in Kinds :
         LET e == Event(w, p, k) IN
         /\ e \in Comes(r) <=> w = "connected" /\ r = p
         /\ e \in Goes(r) <=> w = "disconnected" /\ r = p
         /\ e \in Queues(r) <=> w = "subscribed" /\ k = "mic" /\ r = p
         /\ e \in Unqueues(r) <=> w \in {"unsubscribed", "disconnected"} /\ r = p
  BY <1>2, EventTells DEF Event
<1>10. Comes(r) \cap Goes(r) = {} /\ Queues(r) \cap Unqueues(r) = {}
  BY <1>2, EventTells
<1> DEFINE com(q) == Ends(q, Comes(r), Goes(r), r, Told(d)')
           que(q) == Ends(q, Queues(r), Unqueues(r), r, mixer[d])
<1>11. \A a, b \in RoomEvents :
         /\ com(heard[d] \o <<a, b>>) <=>
             b \in Comes(r) \/ ((a \in Comes(r) \/ (com(heard[d]) /\ a \notin Goes(r))) /\ b \notin Goes(r))
         /\ que(heard[d] \o <<a, b>>) <=>
             b \in Queues(r) \/ ((a \in Queues(r) \/ (que(heard[d]) /\ a \notin Unqueues(r))) /\ b \notin Unqueues(r))
         /\ com(heard[d] \o <<a>>) <=> a \in Comes(r) \/ (com(heard[d]) /\ a \notin Goes(r))
         /\ que(heard[d] \o <<a>>) <=> a \in Queues(r) \/ (que(heard[d]) /\ a \notin Unqueues(r))
  <2>1. SUFFICES ASSUME NEW a \in RoomEvents, NEW b \in RoomEvents
        PROVE
         /\ com(heard[d] \o <<a, b>>) <=>
             b \in Comes(r) \/ ((a \in Comes(r) \/ (com(heard[d]) /\ a \notin Goes(r))) /\ b \notin Goes(r))
         /\ que(heard[d] \o <<a, b>>) <=>
             b \in Queues(r) \/ ((a \in Queues(r) \/ (que(heard[d]) /\ a \notin Unqueues(r))) /\ b \notin Unqueues(r))
         /\ com(heard[d] \o <<a>>) <=> a \in Comes(r) \/ (com(heard[d]) /\ a \notin Goes(r))
         /\ que(heard[d] \o <<a>>) <=> a \in Queues(r) \/ (que(heard[d]) /\ a \notin Unqueues(r))
    BY Zenon
  <2>2. heard[d] \in Seq(RoomEvents) /\ Comes(r) \cap Goes(r) = {} /\ Queues(r) \cap Unqueues(r) = {}
    BY <1>2, <1>10
  <2>3. ASSUME NEW q \in Seq(RoomEvents), NEW on, NEW off, on \cap off = {}, NEW B
        PROVE  /\ Ends(q \o <<a, b>>, on, off, r, B) <=>
                    b \in on \/ ((a \in on \/ (Ends(q, on, off, r, B) /\ a \notin off)) /\ b \notin off)
               /\ Ends(q \o <<a>>, on, off, r, B) <=> a \in on \/ (Ends(q, on, off, r, B) /\ a \notin off)
    <3>1. Ends(q \o <<a, b>>, on, off, r, B) <=>
                    b \in on \/ ((a \in on \/ (Ends(q, on, off, r, B) /\ a \notin off)) /\ b \notin off)
      BY <2>3, EndsTwice
    <3>2. Ends(q \o <<a>>, on, off, r, B) <=> a \in on \/ (Ends(q, on, off, r, B) /\ a \notin off)
      BY ZenonT(40), <2>3, EndsOnce
    <3>3. QED BY <3>1, <3>2
  <2>4. com(heard[d] \o <<a, b>>) <=>
             b \in Comes(r) \/ ((a \in Comes(r) \/ (com(heard[d]) /\ a \notin Goes(r))) /\ b \notin Goes(r))
    BY <2>2, <2>3, Zenon DEF com, que
  <2>5. que(heard[d] \o <<a, b>>) <=>
             b \in Queues(r) \/ ((a \in Queues(r) \/ (que(heard[d]) /\ a \notin Unqueues(r))) /\ b \notin Unqueues(r))
    BY <2>2, <2>3, Zenon DEF com, que
  <2>6. com(heard[d] \o <<a>>) <=> a \in Comes(r) \/ (com(heard[d]) /\ a \notin Goes(r))
    BY <2>2, <2>3, Zenon DEF com, que
  <2>7. que(heard[d] \o <<a>>) <=> a \in Queues(r) \/ (que(heard[d]) /\ a \notin Unqueues(r))
    BY <2>2, <2>3, Zenon DEF com, que
  <2>8. QED BY <2>4, <2>5, <2>6, <2>7, Zenon
<1> HIDE DEF com, que
<1>12. SUFFICES /\ com(heard[d]') <=> r \in Present'
                /\ r \notin muffled' => (que(heard[d]') <=> r \in Present')
  BY <1>1 DEF com, que
<1>13. /\ r # p => com(heard[d]) <=> r \in Present'
       /\ r # p /\ r \notin muffled => (que(heard[d]) <=> r \in Present')
  BY <1>8 DEF com, que
<1>14. CASE Join(p)
  <2> DEFINE a == Event("connected", p, "mic")
             b == Event("subscribed", p, "mic")
  <2>1. a \in RoomEvents /\ b \in RoomEvents
    BY <1>2
  <2>2. heard[d]' = heard[d] \o <<a, b>> /\ muffled' = muffled
    BY <1>5, <1>14, <2>1 DEF Join
  <2>3. p \in Present'
    BY <1>14 DEF Join, Present, CallTypes, CallsTypeOK
  <2>4. /\ (a \in Comes(r) <=> r = p) /\ b \notin Comes(r) /\ a \notin Goes(r) /\ b \notin Goes(r)
        /\ (b \in Queues(r) <=> r = p) /\ a \notin Queues(r) /\ a \notin Unqueues(r) /\ b \notin Unqueues(r)
    BY <1>2, <1>9
  <2> HIDE DEF a, b
  <2>5. QED BY <1>11, <1>13, <2>1, <2>2, <2>3, <2>4
<1>15. CASE Depart(p)
  <2> DEFINE a == Event("unsubscribed", p, "mic")
             b == Event("disconnected", p, "mic")
  <2>1. a \in RoomEvents /\ b \in RoomEvents
    BY <1>2
  <2>2. heard[d]' = heard[d] \o <<a, b>> /\ muffled' = muffled \ {p}
    BY <1>5, <1>15, <2>1 DEF Depart
  <2>3. p \notin Present'
    BY <1>15 DEF Depart, Present, CallTypes, CallsTypeOK
  <2>4. /\ a \notin Comes(r) /\ b \notin Comes(r) /\ a \notin Goes(r) /\ (b \in Goes(r) <=> r = p)
        /\ a \notin Queues(r) /\ b \notin Queues(r) /\ (b \in Unqueues(r) <=> r = p) /\ (a \in Unqueues(r) <=> r = p)
    BY <1>2, <1>9
  <2> HIDE DEF a, b
  <2>5. QED BY <1>11, <1>13, <2>1, <2>2, <2>3, <2>4
<1>16. CASE CameraOn(p)
  <2> DEFINE a == Event("subscribed", p, "cam")
  <2>1. a \in RoomEvents
    BY <1>2
  <2>2. heard[d]' = heard[d] \o <<a>> /\ muffled' = muffled
    BY <1>5, <1>16, <2>1 DEF CameraOn
  <2>3. Present' = Present
    BY <1>16 DEF CameraOn, Present, CallTypes, CallsTypeOK, Kinds
  <2>4. a \notin Comes(r) /\ a \notin Goes(r) /\ a \notin Queues(r) /\ a \notin Unqueues(r)
    BY <1>2, <1>9
  <2>5. com(heard[d]) <=> r \in Present
    <3>1. Told(d)' = Told(d)
      BY <1>1, <2>3 DEF Told, Shown, Ends
    <3>2. QED BY <1>6, <3>1 DEF com
  <2>6. r \notin muffled => (que(heard[d]) <=> r \in Present)
    BY <1>6 DEF que
  <2> HIDE DEF a
  <2>7. QED BY <1>11, <2>1, <2>2, <2>3, <2>4, <2>5, <2>6
<1>17. CASE CameraOff(p)
  <2> DEFINE a == Event("unsubscribed", p, "cam")
  <2>1. a \in RoomEvents
    BY <1>2
  <2>2. heard[d]' = heard[d] \o <<a>> /\ muffled' = muffled \cup {p}
    BY <1>5, <1>17, <2>1 DEF CameraOff
  <2>3. Present' = Present
    BY <1>17 DEF CameraOff, Present, CallTypes, CallsTypeOK, Kinds
  <2>4. a \notin Comes(r) /\ a \notin Goes(r) /\ a \notin Queues(r) /\ (a \in Unqueues(r) <=> r = p)
    BY <1>2, <1>9
  <2>5. com(heard[d]) <=> r \in Present
    <3>1. Told(d)' = Told(d)
      BY <1>1, <2>3 DEF Told, Shown, Ends
    <3>2. QED BY <1>6, <3>1 DEF com
  <2>6. r \notin muffled => (que(heard[d]) <=> r \in Present)
    BY <1>6 DEF que
  <2> HIDE DEF a
  <2>7. QED BY <1>11, <2>1, <2>2, <2>3, <2>4, <2>5, <2>6
<1>18. QED BY <1>14, <1>15, <1>16, <1>17

\* Coming into the room, a call knows nobody and will hear of everybody there.
LEMMA KnowsOnConnecting ==
  ASSUME CallTypes, NEW c \in CallIds, Shape(c), Connects(c)
  PROVE  Knows(c)'
<1>1. PICK order \in Seq(Present) :
        /\ \A p \in Present : \E i \in 1..Len(order) : order[i] = p
        /\ heard' = [d \in CallIds |->
                IF d = c THEN [i \in 1..Len(order) |-> Event("subscribed", order[i], "mic")]
                ELSE IF d = seat THEN Append(heard[d], Event("dropped", "me", "mic")) ELSE heard[d]]
  BY ConnectsHears
<1>2. /\ task[c] = "connecting" /\ task'[c] = "publishing" /\ room' = room /\ mixer' = mixer
  BY DEF Connects, Became, CallTypes, CallsTypeOK
<1>3. Present' = Present /\ Told(c)' = Present /\ mixer'[c] = {}
  BY <1>2 DEF Present, Told, Shape
<1>4. Len(order) \in Nat /\ \A i \in 1..Len(order) : order[i] \in Others
  BY DEF Present
<1> DEFINE h == [i \in 1..Len(order) |-> Event("subscribed", order[i], "mic")]
<1>5. heard'[c] = h /\ Len(h) = Len(order)
  BY <1>1, <1>4
<1>6. ASSUME NEW r \in Others
      PROVE  /\ Ends(h, Comes(r), Goes(r), r, Present) <=> r \in Present
             /\ Ends(h, Queues(r), Unqueues(r), r, {}) <=> r \in Present
  <2>1. \A i \in 1..Len(h) : h[i] \notin Comes(r) /\ h[i] \notin Goes(r) /\ h[i] \notin Unqueues(r)
                             /\ (h[i] \in Queues(r) <=> order[i] = r)
    <3>1. ASSUME NEW i \in 1..Len(h)
          PROVE  h[i] \notin Comes(r) /\ h[i] \notin Goes(r) /\ h[i] \notin Unqueues(r)
                 /\ (h[i] \in Queues(r) <=> order[i] = r)
      <4>1. h[i] = Event("subscribed", order[i], "mic") /\ order[i] \in Others
        BY <1>4, <1>5
      <4>2. Event("subscribed", order[i], "mic") \in RoomEvents
        BY <4>1, EventIs DEF Kinds
      <4>3. QED BY <4>1, <4>2, EventTells DEF Event
    <3>2. QED BY <3>1
  <2>2. (\E i \in 1..Len(h) : h[i] \in Queues(r)) <=> r \in Present
    <3>1. \A i \in 1..Len(order) : order[i] \in Present
      OBVIOUS
    <3>2. QED BY <1>1, <1>5, <2>1, <3>1
  <2> HIDE DEF h
  <2>3. QED BY <2>1, <2>2 DEF Ends
<1> HIDE DEF h
<1>7. QED BY <1>3, <1>5, <1>6, Zenon DEF Knows

\* What the window is told last decides whether it will list p.
LEMMA ToldOnce ==
  ASSUME NEW q \in Seq(Tellings), NEW t \in Tellings, NEW p \in Others, NEW B
  PROVE  Ends(Append(q, t), Adds(p), Drops(p), p, B) <=>
           t \in Adds(p) \/ (Ends(q, Adds(p), Drops(p), p, B) /\ t \notin Drops(p))
<1>1. Adds(p) \cap Drops(p) = {}
  BY TellingTells
<1> DEFINE on == Adds(p)
           off == Drops(p)
<1>2. on \cap off = {}
  BY <1>1
<1> HIDE DEF on, off
<1>3. Ends(Append(q, t), on, off, p, B) <=> t \in on \/ (Ends(q, on, off, p, B) /\ t \notin off)
  BY <1>2, EndsAppend
<1>4. QED BY <1>3 DEF on, off

\* Its first word to the window is who is there.
LEMMA KnowsOnPublishing ==
  ASSUME CallTypes, NEW c \in CallIds, Shape(c), Knows(c), Publishes(c)
  PROVE  Knows(c)'
<1>1. /\ task[c] = "publishing" /\ task'[c] = "waiting" /\ room' = room /\ mixer' = mixer /\ seat' = seat
      /\ heard' = heard /\ window' = window /\ roster' = roster /\ muffled' = muffled
  BY DEF Publishes, Became, CallTypes, CallsTypeOK, outsideWorld
<1>2. SUFFICES ASSUME seat = c, window[c] = "open" PROVE Knows(c)'
  BY <1>1 DEF Knows
<1> DEFINE t == [what |-> "connected", who |-> Present]
<1>3. told[c] = <<>> /\ roster[c] = {} /\ told[c] \in Seq(Tellings) /\ t \in Tellings
  BY <1>1 DEF Shape, CallTypes, Tellings, Present
<1>4. told'[c] = Append(told[c], t)
  BY <1>2 DEF Publishes, Tell, CallTypes
<1>5. ASSUME NEW r \in Others PROVE r \in Told(c)' <=> r \in Present
  <2>1. r \in Told(c)' <=> Ends(Append(told[c], t), Adds(r), Drops(r), r, roster[c])
    BY <1>1, <1>4 DEF Told, Shown
  <2>2. (t \in Adds(r) <=> r \in Present) /\ t \notin Drops(r) /\ Adds(r) \cap Drops(r) = {}
    BY <1>3, TellingTells
  <2>3. ~Ends(told[c], Adds(r), Drops(r), r, roster[c])
    BY <1>3, EndsEmpty
  <2> HIDE DEF t
  <2>4. Ends(Append(told[c], t), Adds(r), Drops(r), r, roster[c]) <=>
          t \in Adds(r) \/ (Ends(told[c], Adds(r), Drops(r), r, roster[c]) /\ t \notin Drops(r))
    BY <1>3, ToldOnce
  <2>5. QED BY <2>1, <2>2, <2>3, <2>4
<1>6. Present' = Present /\ Told(c) = Present
  BY <1>1 DEF Present, Told
<1>7. ASSUME NEW r \in Others
      PROVE  /\ Ends(heard'[c], Comes(r), Goes(r), r, Told(c)') <=> r \in Present'
             /\ r \notin muffled' =>
                  (Ends(heard'[c], Queues(r), Unqueues(r), r, mixer'[c]) <=> r \in Present')
  <2>1. /\ Ends(heard[c], Comes(r), Goes(r), r, Told(c)) <=> r \in Present
        /\ r \notin muffled => (Ends(heard[c], Queues(r), Unqueues(r), r, mixer[c]) <=> r \in Present)
    BY <1>2 DEF Knows
  <2>2. r \in Told(c) <=> r \in Told(c)'
    BY <1>5, <1>6
  <2>3. Ends(heard[c], Comes(r), Goes(r), r, Told(c)) <=> Ends(heard[c], Comes(r), Goes(r), r, Told(c)')
    BY <2>2, EndsBase
  <2>4. QED BY <1>1, <1>6, <2>1, <2>3
<1>8. QED BY <1>7 DEF Knows

\* What is handled is played or not, and told.
LEMMA KnowsOnHandling ==
  ASSUME CallTypes, NEW c \in CallIds, Shape(c), Knows(c), Handle(c)
  PROVE  Knows(c)'
<1> DEFINE e == Head(heard[c])
<1>1. /\ task[c] = "handling" /\ task'[c] = "waiting" /\ room' = room /\ seat' = seat
      /\ heard'[c] = Tail(heard[c]) /\ window' = window /\ roster' = roster /\ muffled' = muffled
  BY DEF Handle, Became, CallTypes, CallsTypeOK, outsideWorld
<1>2. SUFFICES ASSUME seat = c, window[c] = "open" PROVE Knows(c)'
  BY <1>1 DEF Knows
<1>3. heard[c] \in Seq(RoomEvents) /\ heard[c] # <<>> /\ e \in RoomEvents /\ told[c] \in Seq(Tellings)
  <2>1. heard[c] \in Seq(RoomEvents) /\ heard[c] # <<>> /\ told[c] \in Seq(Tellings)
    BY <1>1 DEF CallTypes, Shape
  <2>2. QED BY <2>1
<1>4. mixer'[c] = IF e.what = "subscribed" /\ e.kind = "mic" THEN mixer[c] \cup {e.who}
                  ELSE IF e.what \in {"unsubscribed", "disconnected"} THEN mixer[c] \ {e.who} ELSE mixer[c]
  BY DEF Handle, CallTypes, CallsTypeOK
<1> DEFINE say(w, s) == [what |-> w, who |-> s]
<1>5. /\ \/ e.what = "connected" /\ told'[c] = Append(told[c], say("joined", {e.who}))
         \/ e.what = "disconnected" /\ told'[c] = Append(told[c], say("left", {e.who}))
         \/ e.what = "dropped" /\ told'[c] = Append(told[c], say("ended", {}))
         \/ e.what \in {"subscribed", "unsubscribed"} /\ told'[c] = told[c]
  <2>1. \A w, s : Tell(c, w, s) = [told EXCEPT ![c] = Append(@, say(w, s))]
    BY <1>2 DEF Tell
  <2>2. \A w, s : Tell(c, w, s)[c] = Append(told[c], say(w, s))
    BY ZenonT(40), <2>1 DEF CallTypes
  <2>3. e.what \in {"connected", "disconnected", "subscribed", "unsubscribed", "dropped"}
    BY <1>3 DEF RoomEvents, Event
  <2>4. \/ e.what = "connected" /\ told' = Tell(c, "joined", {e.who})
        \/ e.what = "disconnected" /\ told' = Tell(c, "left", {e.who})
        \/ e.what = "dropped" /\ told' = Tell(c, "ended", {})
        \/ e.what \in {"subscribed", "unsubscribed"} /\ told' = told
    BY <2>3 DEF Handle
  <2> HIDE DEF e, say
  <2>5. QED BY <2>2, <2>4
<1>6. e.what # "dropped" => e.who \in Others
  BY <1>3 DEF RoomEvents, Event
<1>7. \A s \in SUBSET Others : say("joined", s) \in Tellings /\ say("left", s) \in Tellings /\ say("ended", s) \in Tellings
  BY DEF Tellings
<1>8. ASSUME NEW r \in Others
      PROVE  r \in Told(c)' <=> e \in Comes(r) \/ (r \in Told(c) /\ e \notin Goes(r))
  <2>1. /\ r \in Told(c)' <=> Ends(told'[c], Adds(r), Drops(r), r, roster[c])
        /\ r \in Told(c) <=> Ends(told[c], Adds(r), Drops(r), r, roster[c])
    BY <1>1 DEF Told, Shown
  <2>2. (e \in Comes(r) <=> e.what = "connected" /\ e.who = r) /\ (e \in Goes(r) <=> e.what = "disconnected" /\ e.who = r)
    BY <1>3, EventTells
  <2>3. ASSUME NEW t \in Tellings
        PROVE  Ends(Append(told[c], t), Adds(r), Drops(r), r, roster[c]) <=>
                 (t.what # "left" /\ r \in t.who)
                 \/ (Ends(told[c], Adds(r), Drops(r), r, roster[c]) /\ ~(t.what = "left" /\ r \in t.who))
    <3>1. Ends(Append(told[c], t), Adds(r), Drops(r), r, roster[c]) <=>
          t \in Adds(r) \/ (Ends(told[c], Adds(r), Drops(r), r, roster[c]) /\ t \notin Drops(r))
      BY <1>3, ToldOnce
    <3>2. QED BY <3>1, TellingTells
  <2> HIDE DEF e
  <2>4. CASE e.what = "connected" /\ told'[c] = Append(told[c], say("joined", {e.who}))
    <3> DEFINE t == say("joined", {e.who})
    <3>1. t \in Tellings /\ t.what = "joined" /\ t.who = {e.who}
      BY <1>6, <1>7, <2>4
    <3> HIDE DEF t
    <3>2. told'[c] = Append(told[c], t)
      BY <2>4 DEF t
    <3>3. QED BY <2>1, <2>2, <2>3, <2>4, <3>1, <3>2
  <2>5. CASE e.what = "disconnected" /\ told'[c] = Append(told[c], say("left", {e.who}))
    <3> DEFINE t == say("left", {e.who})
    <3>1. t \in Tellings /\ t.what = "left" /\ t.who = {e.who}
      BY <1>6, <1>7, <2>5
    <3> HIDE DEF t
    <3>2. told'[c] = Append(told[c], t)
      BY <2>5 DEF t
    <3>3. QED BY <2>1, <2>2, <2>3, <2>5, <3>1, <3>2
  <2>6. CASE e.what = "dropped" /\ told'[c] = Append(told[c], say("ended", {}))
    <3> DEFINE t == say("ended", {})
    <3>1. t \in Tellings /\ t.what = "ended" /\ t.who = {}
      BY <1>7
    <3> HIDE DEF t
    <3>2. told'[c] = Append(told[c], t)
      BY <2>6 DEF t
    <3>3. QED BY <2>1, <2>2, <2>3, <2>6, <3>1, <3>2
  <2>7. CASE e.what \in {"subscribed", "unsubscribed"} /\ told'[c] = told[c]
    BY <2>1, <2>2, <2>7
  <2>8. QED BY <1>5, <2>4, <2>5, <2>6, <2>7 DEF e
<1>9. ASSUME NEW r \in Others
      PROVE  r \in mixer'[c] <=> e \in Queues(r) \/ (r \in mixer[c] /\ e \notin Unqueues(r))
  <2>1. /\ e \in Queues(r) <=> e.what = "subscribed" /\ e.kind = "mic" /\ e.who = r
        /\ e \in Unqueues(r) <=> e.what \in {"unsubscribed", "disconnected"} /\ e.who = r
    BY <1>3, EventTells
  <2> HIDE DEF e
  <2>2. QED BY <1>4, <2>1
<1>10. ASSUME NEW r \in Others
       PROVE  /\ Ends(heard'[c], Comes(r), Goes(r), r, Told(c)') <=> r \in Present'
              /\ r \notin muffled' =>
                  (Ends(heard'[c], Queues(r), Unqueues(r), r, mixer'[c]) <=> r \in Present')
  <2>1. /\ Ends(heard[c], Comes(r), Goes(r), r, Told(c)) <=> r \in Present
        /\ r \notin muffled => (Ends(heard[c], Queues(r), Unqueues(r), r, mixer[c]) <=> r \in Present)
    BY <1>2 DEF Knows
  <2>2. Comes(r) \cap Goes(r) = {} /\ Queues(r) \cap Unqueues(r) = {}
    BY <1>3, EventTells
  <2>3. \A on, off, B, C : on \cap off = {} /\ (r \in C <=> Head(heard[c]) \in on \/ (r \in B /\ Head(heard[c]) \notin off)) =>
          (Ends(heard[c], on, off, r, B) <=> Ends(Tail(heard[c]), on, off, r, C))
    BY <1>3, EndsTail
  <2>4. Ends(heard[c], Comes(r), Goes(r), r, Told(c)) <=> Ends(Tail(heard[c]), Comes(r), Goes(r), r, Told(c)')
    BY <1>8, <2>2, <2>3
  <2>5. Ends(heard[c], Queues(r), Unqueues(r), r, mixer[c]) <=> Ends(Tail(heard[c]), Queues(r), Unqueues(r), r, mixer'[c])
    BY <1>9, <2>2, <2>3
  <2>6. Present' = Present
    BY <1>1 DEF Present
  <2>7. QED BY <1>1, <2>1, <2>4, <2>5, <2>6
<1>11. QED BY <1>10 DEF Knows

\* What the window reads it lists, until the call has ended.
LEMMA KnowsOnDraining ==
  ASSUME CallTypes, NEW c \in CallIds, Shape(c), Knows(c), Drain(c)
  PROVE  Knows(c)'
<1> DEFINE e == Head(told[c])
<1>1. /\ told[c] # <<>> /\ room' = room /\ seat' = seat /\ heard' = heard /\ muffled' = muffled
      /\ told[c] \in Seq(Tellings) /\ told \in [CallIds -> Seq(Tellings)]
  BY DEF Drain, CallTypes, outsideWorld
<1>2. CASE e.what = "ended"
  <2>1. window'[c] = "closed"
    BY <1>2 DEF Drain, Closed, Became, CallTypes, CallsTypeOK
  <2>2. QED BY <2>1 DEF Knows
<1>3. CASE e.what # "ended"
  <2>1. /\ window' = window /\ mixer' = mixer /\ task' = task
        /\ roster'[c] = IF e.what = "left" THEN roster[c] \ e.who ELSE roster[c] \cup e.who
    BY <1>3 DEF Drain, Became, CallTypes, CallsTypeOK
  <2>2. told'[c] = Tail(told[c])
    BY <1>1, <1>3 DEF Drain, Became
  <2>3. ASSUME NEW r \in Others PROVE r \in Shown(c)' <=> r \in Shown(c)
    <3>1. e \in Tellings
      BY <1>1
    <3>2. r \in roster'[c] <=> e \in Adds(r) \/ (r \in roster[c] /\ e \notin Drops(r))
      BY <2>1, <3>1, TellingTells
    <3>3. \A on, off, B, C : on \cap off = {} /\ (r \in C <=> Head(told[c]) \in on \/ (r \in B /\ Head(told[c]) \notin off)) =>
          (Ends(told[c], on, off, r, B) <=> Ends(Tail(told[c]), on, off, r, C))
      BY <1>1, EndsTail
    <3>4. Adds(r) \cap Drops(r) = {}
      BY <3>1, TellingTells
    <3>5. Ends(told[c], Adds(r), Drops(r), r, roster[c]) <=> Ends(Tail(told[c]), Adds(r), Drops(r), r, roster'[c])
      BY <3>2, <3>3, <3>4
    <3>6. QED BY <2>2, <3>5 DEF Shown
  <2>4. Present' = Present
    BY <1>1 DEF Present
  <2>5. ASSUME NEW r \in Others PROVE r \in Told(c) <=> r \in Told(c)'
    BY <2>1, <2>3, <2>4 DEF Told
  <2>6. ASSUME NEW r \in Others
        PROVE  Ends(heard[c], Comes(r), Goes(r), r, Told(c)) <=> Ends(heard[c], Comes(r), Goes(r), r, Told(c)')
    BY <2>5, EndsBase
  <2>7. SUFFICES ASSUME seat = c, window[c] = "open", NEW r \in Others
               PROVE  /\ Ends(heard'[c], Comes(r), Goes(r), r, Told(c)') <=> r \in Present'
                      /\ r \notin muffled' =>
                          (Ends(heard'[c], Queues(r), Unqueues(r), r, mixer'[c]) <=> r \in Present')
    BY <1>1, <2>1 DEF Knows
  <2>8. /\ Ends(heard[c], Comes(r), Goes(r), r, Told(c)) <=> r \in Present
        /\ r \notin muffled => (Ends(heard[c], Queues(r), Unqueues(r), r, mixer[c]) <=> r \in Present)
    BY <2>7 DEF Knows
  <2>9. QED BY <1>1, <2>1, <2>4, <2>6, <2>8
<1>4. QED BY <1>2, <1>3

\* Every step keeps what the call in the room knows.
LEMMA KnowsKept ==
  ASSUME CallTypes, \A c \in CallIds : Shape(c) /\ Knows(c), CallsNext
  PROVE  \A d \in CallIds : Knows(d)'
<1> USE DEF Became
<1>1. SUFFICES ASSUME NEW d \in CallIds PROVE Knows(d)'
  OBVIOUS
<1>2. Shape(d) /\ Knows(d) /\ d # 0
  BY DEF CallIds
<1>3. /\ task \in [CallIds -> {"idle", "minting", "connecting", "publishing", "waiting",
                           "handling", "leaving", "over"}]
      /\ window \in [CallIds -> {"none", "open", "closed"}]
      /\ heard \in [CallIds -> Seq(RoomEvents)] /\ told \in [CallIds -> Seq(Tellings)]
      /\ roster \in [CallIds -> SUBSET Others] /\ mixer \in [CallIds -> SUBSET Others]
  BY DEF CallTypes, CallsTypeOK
<1>4. CASE Dropped
  BY <1>2, <1>4 DEF Dropped, Knows
<1>5. ASSUME NEW p \in Others, Join(p) \/ Depart(p) \/ CameraOn(p) \/ CameraOff(p) PROVE Knows(d)'
  BY <1>2, <1>5, KnowsOfOthers
<1>6. seat = d => task[d] \in {"publishing", "waiting", "handling", "leaving"}
  BY <1>2 DEF Shape, InRoom
<1>7. ASSUME NEW c \in CallIds, StartCall(c) \/ StartRefused(c) \/ Started(c) \/ TakeEvent(c) PROVE Knows(d)'
  <2>1. seat = d /\ d = c => TakeEvent(c)
    BY <1>6, <1>7 DEF StartCall, StartRefused, Started
  <2>2. seat' = d /\ window'[d] = "open" =>
           /\ seat = d /\ window[d] = "open" /\ room' = room /\ muffled' = muffled /\ heard'[d] = heard[d]
           /\ told'[d] = told[d] /\ roster'[d] = roster[d] /\ mixer'[d] = mixer[d]
           /\ task'[d] = "publishing" <=> task[d] = "publishing"
    BY <1>3, <1>7, <2>1 DEF StartCall, StartRefused, Started, TakeEvent, outsideWorld, screen
  <2>3. QED BY <1>2, <2>2, KnowsStill
<1>8. ASSUME NEW c \in CallIds, ConnectFails(c) \/ PublishFails(c) \/ Leave(c) PROVE Knows(d)'
  <2>1. seat' = d => seat = d /\ d # c
    <3>1. seat' = d => seat = d
      BY <1>2, <1>8 DEF ConnectFails, PublishFails, Leave
    <3>2. CASE ConnectFails(c)
      BY <1>6, <3>1, <3>2 DEF ConnectFails
    <3>3. CASE PublishFails(c) \/ Leave(c)
      BY <1>2, <3>1, <3>3 DEF PublishFails, Leave
    <3>4. QED BY <1>8, <3>2, <3>3
  <2>2. d # c => heard'[d] = heard[d] /\ task'[d] = task[d]
    BY <1>3, <1>8 DEF ConnectFails, PublishFails, Leave
  <2>3. d # c => told'[d] = told[d]
    BY <1>3, <1>8 DEF ConnectFails, PublishFails, Leave, Tell
  <2>4. room' = room /\ muffled' = muffled /\ roster' = roster /\ mixer' = mixer /\ window' = window
    BY <1>8 DEF ConnectFails, PublishFails, Leave
  <2>5. QED BY <1>2, <2>1, <2>2, <2>3, <2>4, KnowsStill
<1>9. ASSUME NEW c \in CallIds, Connects(c) PROVE Knows(d)'
  <2>1. CASE d = c
    BY <1>2, <1>9, <2>1, KnowsOnConnecting
  <2>2. CASE d # c
    BY <1>9, <2>2 DEF Connects, Knows
  <2>3. QED BY <2>1, <2>2
<1>10. ASSUME NEW c \in CallIds, Publishes(c) PROVE Knows(d)'
  <2>1. CASE d = c
    BY <1>2, <1>10, <2>1, KnowsOnPublishing
  <2>2. CASE d # c
    <3>1. /\ seat' = seat /\ window' = window /\ room' = room /\ muffled' = muffled /\ heard'[d] = heard[d]
           /\ told'[d] = told[d] /\ roster'[d] = roster[d] /\ mixer'[d] = mixer[d]
           /\ task'[d] = task[d]
      BY <1>3, <1>10, <2>2 DEF Publishes, outsideWorld, Tell
    <3>2. QED BY <1>2, <3>1, KnowsStill
  <2>3. QED BY <2>1, <2>2
<1>11. ASSUME NEW c \in CallIds, Handle(c) PROVE Knows(d)'
  <2>1. CASE d = c
    BY <1>2, <1>11, <2>1, KnowsOnHandling
  <2>2. CASE d # c
    <3>1. /\ seat' = seat /\ window' = window /\ room' = room /\ muffled' = muffled /\ heard'[d] = heard[d]
          /\ roster'[d] = roster[d] /\ task'[d] = task[d]
      BY <1>3, <1>11, <2>2 DEF Handle, outsideWorld
    <3>2. told'[d] = told[d]
      BY <1>3, <1>11, <2>2 DEF Handle, Tell
    <3>3. mixer'[d] = mixer[d]
      BY <1>3, <1>11, <2>2 DEF Handle
    <3>4. QED BY <1>2, <3>1, <3>2, <3>3, KnowsStill
  <2>3. QED BY <2>1, <2>2
<1>12. ASSUME NEW c \in CallIds, CloseWindow(c) PROVE Knows(d)'
  <2>1. CASE d = c
    <3>1. window'[d] = "closed"
      BY <1>3, <1>12, <2>1 DEF CloseWindow, Closed
    <3>2. QED BY <3>1 DEF Knows
  <2>2. CASE d # c
    <3>1. /\ seat' = seat /\ window'[d] = window[d] /\ room' = room /\ muffled' = muffled /\ heard'[d] = heard[d]
           /\ told'[d] = told[d] /\ roster'[d] = roster[d] /\ mixer'[d] = mixer[d]
           /\ task'[d] = task[d]
      BY <1>3, <1>12, <2>2 DEF CloseWindow, Closed, HangUp, outsideWorld
    <3>2. QED BY <1>2, <3>1, KnowsStill
  <2>3. QED BY <2>1, <2>2
<1>13. ASSUME NEW c \in CallIds, Drain(c) PROVE Knows(d)'
  <2>1. CASE d = c
    BY <1>2, <1>13, <2>1, KnowsOnDraining
  <2>2. CASE d # c
    <3>1. /\ seat' = seat /\ window'[d] = window[d] /\ room' = room /\ muffled' = muffled /\ heard'[d] = heard[d]
           /\ told'[d] = told[d] /\ roster'[d] = roster[d] /\ mixer'[d] = mixer[d]
           /\ task'[d] = task[d]
      BY <1>3, <1>13, <2>2 DEF Drain, Closed, HangUp, outsideWorld
    <3>2. QED BY <1>2, <3>1, KnowsStill
  <2>3. QED BY <2>1, <2>2
<1>14. QED BY <1>4, <1>5, <1>7, <1>8, <1>9, <1>10, <1>11, <1>12, <1>13 DEF CallsNext, Runs

\* Once a call has caught up with the room, its window lists who is in it and each
\* of them is heard, however many others come and go and whatever is lost meanwhile;
\* except a participant that stopped a camera (voice.rs handle_room_event).
THEOREM CallersAreListed == Spec => []CallAgrees
<1>1. Init => CallInv
  <2>1. SUFFICES ASSUME Init PROVE CallInv
    OBVIOUS
  <2>2. CallsInit
    BY <2>1 DEF Init
  <2>3. CallsTypeOK
    BY <2>2, CallsAssumption DEF CallsInit, CallsTypeOK, Kinds
  <2>4. CallTypes
    <3>1. heard \in [CallIds -> Seq(RoomEvents)] /\ told \in [CallIds -> Seq(Tellings)]
      BY <2>2 DEF CallsInit
    <3>2. QED BY <2>3, <3>1 DEF CallTypes
  <2>5. ASSUME NEW c \in CallIds PROVE Shape(c) /\ Knows(c)
    BY <2>2 DEF CallsInit, Shape, Knows, CallIds
  <2>6. QED BY <2>4, <2>5 DEF CallInv
<1>2. CallInv /\ [Next]_voiceVars => CallInv'
  <2>1. SUFFICES ASSUME CallInv, [Next]_voiceVars PROVE CallInv'
    OBVIOUS
  <2>2. CASE CallsNext
    <3>1. CallTypes /\ \A c \in CallIds : Shape(c) /\ Knows(c)
      BY <2>1 DEF CallInv
    <3>2. CallTypes'
      BY <2>2, <3>1, CallTypesKept
    <3>3. \A c \in CallIds : Shape(c)'
      BY <2>2, <3>1, <3>2, ShapeKept
    <3>4. \A c \in CallIds : Knows(c)'
      BY <2>2, <3>1, KnowsKept
    <3>5. QED BY <3>2, <3>3, <3>4 DEF CallInv, CallIds
  <2>3. CASE UNCHANGED callVars
    <3>1. CallTypes' /\ Present' = Present /\ InRoom' = InRoom
      BY <2>1, <2>3 DEF CallInv, CallTypes, CallsTypeOK, callVars, outsideWorld, engine, screen, Present, InRoom, CallIds
    <3>2. ASSUME NEW c \in CallIds PROVE Shape(c)' /\ Knows(c)'
      <4>1. Shape(c) /\ Knows(c)
        BY <2>1 DEF CallInv
      <4>2. Shape(c)'
        BY <2>3, <3>1, <4>1 DEF Shape, callVars, outsideWorld, engine, screen
      <4>3. Knows(c)'
        BY <2>3, <4>1, KnowsStill DEF callVars, outsideWorld, engine, screen
      <4>4. QED BY <4>2, <4>3
    <3>3. QED BY <3>1, <3>2 DEF CallInv, CallIds
  <2>4. QED BY <2>1, <2>2, <2>3 DEF Next, voiceVars
<1>3. CallInv => CallAgrees
  <2>1. SUFFICES ASSUME CallInv PROVE CallAgrees
    OBVIOUS
  <2>2. ASSUME NEW c \in CallIds, Caught(c)
        PROVE  roster[c] = Present /\ mixer[c] \ muffled = Present \ muffled
    <3>1. /\ heard[c] = <<>> /\ told[c] = <<>> /\ task[c] # "publishing"
          /\ roster[c] \subseteq Others /\ mixer[c] \subseteq Others /\ Present \subseteq Others
      BY <2>1, <2>2 DEF Caught, CallInv, CallTypes, CallsTypeOK, Present
    <3>2. \A p \in Others :
            /\ Ends(heard[c], Comes(p), Goes(p), p, Told(c)) <=> p \in Present
            /\ p \notin muffled => (Ends(heard[c], Queues(p), Unqueues(p), p, mixer[c]) <=> p \in Present)
      BY <2>1, <2>2 DEF Caught, CallInv, Knows
    <3>3. \A p \in Others : (p \in Told(c) <=> p \in Present) /\ (p \notin muffled => (p \in mixer[c] <=> p \in Present))
      BY <3>1, <3>2, EndsEmpty
    <3>4. Told(c) = roster[c]
      BY <3>1, EndsEmpty DEF Told, Shown
    <3>5. QED BY <3>1, <3>3, <3>4
  <2>3. QED BY <2>1, <2>2 DEF CallAgrees, CallInv, CallTypes
<1>4. QED BY <1>1, <1>2, <1>3, PTL DEF Spec
================================================================================
