----------------------------- MODULE BuffersProofs -----------------------------
(***************************************************************************)
(* Proofs about Buffers: what is held is what is open, and what a buffer    *)
(* says of itself is what the server says, whatever is on its way.          *)
(***************************************************************************)
EXTENDS Buffers, FiniteSetTheorems, SequenceTheorems, WellFoundedInduction, TLAPS

--------------------------------------------------------------------------------
(* Coming and going *)

\* Whether p is in after the first n frames of q, if it was in B before: what puts it
\* in is on, what takes it out is off.
EndsAt(q, n, on, off, p, B) ==
  \/ \E i \in 1..n : q[i] \in on /\ \A j \in 1..n : j > i => q[j] \notin off
  \/ p \in B /\ \A i \in 1..n : q[i] \notin off
Ends(q, on, off, p, B) == EndsAt(q, Len(q), on, off, p, B)

\* Where nothing happens, nobody comes or goes.
LEMMA EndsNone ==
  ASSUME NEW q, NEW on, NEW off, NEW p, NEW B PROVE EndsAt(q, 0, on, off, p, B) <=> p \in B
<1>1. \A i \in 1..0 : FALSE
  OBVIOUS
<1>2. QED BY <1>1 DEF EndsAt

\* Only the first n count, and only p's own place before.
LEMMA EndsSame ==
  ASSUME NEW n \in Nat, NEW q, NEW r, \A i \in 1..n : q[i] = r[i],
         NEW on, NEW off, NEW p, NEW B, NEW C, p \in B <=> p \in C
  PROVE  EndsAt(q, n, on, off, p, B) <=> EndsAt(r, n, on, off, p, C)
BY DEF EndsAt

\* What happens last decides.
LEMMA EndsNext ==
  ASSUME NEW n \in Nat, NEW q, NEW on, NEW off, NEW p, NEW B
  PROVE  EndsAt(q, n + 1, on, off, p, B)
           <=> q[n + 1] \in on \/ (EndsAt(q, n, on, off, p, B) /\ q[n + 1] \notin off)
<1>1. \A i \in 1..(n + 1) : i = n + 1 \/ i \in 1..n
  OBVIOUS
<1>2. \A i \in 1..n : i \in 1..(n + 1) /\ n + 1 > i
  OBVIOUS
<1>3. n + 1 \in 1..(n + 1) /\ \A j \in 1..(n + 1) : ~(j > n + 1)
  OBVIOUS
<1>4. ASSUME q[n + 1] \in on PROVE EndsAt(q, n + 1, on, off, p, B)
  BY <1>3, <1>4 DEF EndsAt
<1>5. ASSUME EndsAt(q, n, on, off, p, B), q[n + 1] \notin off
      PROVE  EndsAt(q, n + 1, on, off, p, B)
  <2>1. ASSUME NEW i \in 1..n, q[i] \in on, \A j \in 1..n : j > i => q[j] \notin off
        PROVE  EndsAt(q, n + 1, on, off, p, B)
    <3>1. \A j \in 1..(n + 1) : j > i => q[j] \notin off
      BY <1>1, <1>5, <2>1
    <3>2. QED BY <1>2, <2>1, <3>1 DEF EndsAt
  <2>2. ASSUME p \in B, \A i \in 1..n : q[i] \notin off
        PROVE  EndsAt(q, n + 1, on, off, p, B)
    <3>1. \A j \in 1..(n + 1) : q[j] \notin off
      BY <1>1, <1>5, <2>2
    <3>2. QED BY <2>2, <3>1 DEF EndsAt
  <2>3. QED BY <1>5, <2>1, <2>2 DEF EndsAt
<1>6. ASSUME EndsAt(q, n + 1, on, off, p, B), q[n + 1] \notin on
      PROVE  EndsAt(q, n, on, off, p, B) /\ q[n + 1] \notin off
  <2>1. ASSUME NEW i \in 1..(n + 1), q[i] \in on, \A j \in 1..(n + 1) : j > i => q[j] \notin off
        PROVE  EndsAt(q, n, on, off, p, B) /\ q[n + 1] \notin off
    <3>1. i \in 1..n
      BY <1>1, <1>6, <2>1
    <3>2. q[n + 1] \notin off
      BY <1>2, <1>3, <2>1, <3>1
    <3>3. \A j \in 1..n : j > i => q[j] \notin off
      BY <1>2, <2>1
    <3>4. QED BY <2>1, <3>1, <3>2, <3>3 DEF EndsAt
  <2>2. ASSUME p \in B, \A j \in 1..(n + 1) : q[j] \notin off
        PROVE  EndsAt(q, n, on, off, p, B) /\ q[n + 1] \notin off
    BY <1>2, <1>3, <2>2 DEF EndsAt
  <2>3. QED BY <1>6, <2>1, <2>2 DEF EndsAt
<1>7. QED BY <1>4, <1>5, <1>6

\* Frames that neither put p in nor take it out change nothing.
LEMMA EndsIdle ==
  ASSUME NEW n \in Nat, NEW m \in Nat, n <= m, NEW q, NEW on, NEW off, NEW p, NEW B,
         \A i \in 1..m : i > n => q[i] \notin on \cup off
  PROVE  EndsAt(q, m, on, off, p, B) <=> EndsAt(q, n, on, off, p, B)
<1>1. \A i \in 1..n : i \in 1..m
  OBVIOUS
<1>2. \A i \in 1..m : i \in 1..n \/ i > n
  OBVIOUS
<1>3. ASSUME EndsAt(q, m, on, off, p, B) PROVE EndsAt(q, n, on, off, p, B)
  <2>1. ASSUME NEW i \in 1..m, q[i] \in on, \A j \in 1..m : j > i => q[j] \notin off
        PROVE  EndsAt(q, n, on, off, p, B)
    <3>1. i \in 1..n
      BY <1>2, <2>1
    <3>2. QED BY <1>1, <2>1, <3>1 DEF EndsAt
  <2>2. ASSUME p \in B, \A i \in 1..m : q[i] \notin off PROVE EndsAt(q, n, on, off, p, B)
    BY <1>1, <2>2 DEF EndsAt
  <2>3. QED BY <1>3, <2>1, <2>2 DEF EndsAt
<1>4. ASSUME EndsAt(q, n, on, off, p, B) PROVE EndsAt(q, m, on, off, p, B)
  <2>1. ASSUME NEW i \in 1..n, q[i] \in on, \A j \in 1..n : j > i => q[j] \notin off
        PROVE  EndsAt(q, m, on, off, p, B)
    <3>1. i \in 1..m /\ \A j \in 1..m : j > i => q[j] \notin off
      BY <1>1, <1>2, <2>1
    <3>2. QED BY <2>1, <3>1 DEF EndsAt
  <2>2. ASSUME p \in B, \A i \in 1..n : q[i] \notin off PROVE EndsAt(q, m, on, off, p, B)
    <3>1. \A j \in 1..m : q[j] \notin off
      BY <1>2, <2>2
    <3>2. QED BY <2>2, <3>1 DEF EndsAt
  <2>3. QED BY <1>4, <2>1, <2>2 DEF EndsAt
<1>5. QED BY <1>3, <1>4

\* What happens first counts as if it had been so before.
LEMMA EndsTail ==
  ASSUME NEW S, NEW q \in Seq(S), q # <<>>, NEW n \in Nat, n < Len(q),
         NEW on, NEW off, NEW p, NEW B, NEW C,
         p \in C <=> Head(q) \in on \/ (p \in B /\ Head(q) \notin off)
  PROVE  EndsAt(q, n + 1, on, off, p, B) <=> EndsAt(Tail(q), n, on, off, p, C)
<1> DEFINE t == Tail(q)
<1>1. /\ Len(q) \in Nat /\ q[1] = Head(q)
      /\ \A i \in 1..n : t[i] = q[i + 1] /\ i + 1 \in 1..(n + 1)
  OBVIOUS
<1> HIDE DEF t
<1>2. \A i \in 1..(n + 1) : i = 1 \/ (i - 1 \in 1..n /\ q[i] = t[i - 1] /\ i > 1)
  BY <1>1
<1>3. ASSUME EndsAt(q, n + 1, on, off, p, B) PROVE EndsAt(t, n, on, off, p, C)
  <2>1. ASSUME NEW i \in 1..(n + 1), q[i] \in on, \A j \in 1..(n + 1) : j > i => q[j] \notin off
        PROVE  EndsAt(t, n, on, off, p, C)
    <3>1. CASE i = 1
      <4>1. \A j \in 1..n : t[j] \notin off
        BY <1>1, <2>1, <3>1
      <4>2. p \in C
        BY <1>1, <2>1, <3>1
      <4>3. QED BY <4>1, <4>2 DEF EndsAt
    <3>2. CASE i # 1
      <4>1. i - 1 \in 1..n /\ t[i - 1] \in on
        BY <1>2, <2>1, <3>2
      <4>2. \A j \in 1..n : j > i - 1 => t[j] \notin off
        BY <1>1, <2>1
      <4>3. QED BY <4>1, <4>2 DEF EndsAt
    <3>3. QED BY <3>1, <3>2
  <2>2. ASSUME p \in B, \A i \in 1..(n + 1) : q[i] \notin off
        PROVE  EndsAt(t, n, on, off, p, C)
    <3>1. 1 \in 1..(n + 1)
      OBVIOUS
    <3>2. p \in C /\ \A j \in 1..n : t[j] \notin off
      BY <1>1, <2>2, <3>1
    <3>3. QED BY <3>2 DEF EndsAt
  <2>3. QED BY <1>3, <2>1, <2>2 DEF EndsAt
<1>4. ASSUME EndsAt(t, n, on, off, p, C) PROVE EndsAt(q, n + 1, on, off, p, B)
  <2>1. ASSUME NEW i \in 1..n, t[i] \in on, \A j \in 1..n : j > i => t[j] \notin off
        PROVE  EndsAt(q, n + 1, on, off, p, B)
    <3>1. i + 1 \in 1..(n + 1) /\ q[i + 1] \in on
      BY <1>1, <2>1
    <3>2. ASSUME NEW j \in 1..(n + 1), j > i + 1 PROVE q[j] \notin off
      <4>1. j - 1 \in 1..n /\ q[j] = t[j - 1] /\ j - 1 > i
        BY <1>2, <2>1, <3>2
      <4>2. QED BY <2>1, <4>1
    <3>3. QED BY <3>1, <3>2 DEF EndsAt
  <2>2. ASSUME p \in C, \A j \in 1..n : t[j] \notin off
        PROVE  EndsAt(q, n + 1, on, off, p, B)
    <3>1. CASE Head(q) \in on
      <4>1. 1 \in 1..(n + 1) /\ q[1] \in on /\ \A j \in 1..(n + 1) : j > 1 => q[j] \notin off
        BY <1>1, <1>2, <2>2, <3>1
      <4>2. QED BY <4>1 DEF EndsAt
    <3>2. CASE Head(q) \notin on
      <4>1. p \in B /\ \A j \in 1..(n + 1) : q[j] \notin off
        BY <1>1, <1>2, <2>2, <3>2
      <4>2. QED BY <4>1 DEF EndsAt
    <3>3. QED BY <3>1, <3>2
  <2>3. QED BY <1>4, <2>1, <2>2 DEF EndsAt
<1>5. QED BY <1>3, <1>4 DEF t

\* The form for the whole of q
LEMMA EndsAllTail ==
  ASSUME NEW S, NEW q \in Seq(S), q # <<>>, NEW on, NEW off, NEW p, NEW B, NEW C,
         p \in C <=> Head(q) \in on \/ (p \in B /\ Head(q) \notin off)
  PROVE  Ends(q, on, off, p, B) <=> Ends(Tail(q), on, off, p, C)
<1>1. Len(Tail(q)) \in Nat /\ Len(Tail(q)) < Len(q) /\ Len(q) = Len(Tail(q)) + 1
  OBVIOUS
<1>2. EndsAt(q, Len(Tail(q)) + 1, on, off, p, B) <=> EndsAt(Tail(q), Len(Tail(q)), on, off, p, C)
  BY <1>1, EndsTail
<1>3. QED BY <1>1, <1>2 DEF Ends

\* Appending: the new frame decides, or it says nothing.
LEMMA EndsAppend ==
  ASSUME NEW S, NEW q \in Seq(S), NEW e \in S, NEW on, NEW off, NEW p, NEW B, NEW C, p \in B <=> p \in C
  PROVE  Ends(Append(q, e), on, off, p, B) <=> e \in on \/ (Ends(q, on, off, p, C) /\ e \notin off)
<1> DEFINE r == Append(q, e)
           n == Len(q)
<1>1. n \in Nat /\ Len(r) = n + 1 /\ r[n + 1] = e /\ \A i \in 1..n : r[i] = q[i]
  OBVIOUS
<1> HIDE DEF r, n
<1>2. EndsAt(r, n + 1, on, off, p, B) <=> e \in on \/ (EndsAt(r, n, on, off, p, B) /\ e \notin off)
  BY Zenon, <1>1, EndsNext
<1>3. EndsAt(r, n, on, off, p, B) <=> EndsAt(q, n, on, off, p, C)
  BY <1>1, EndsSame
<1>4. QED BY Zenon, <1>1, <1>2, <1>3 DEF Ends, r, n

--------------------------------------------------------------------------------
(* Numbers and sets *)

\* The greatest and the least of numbers up to a bound are among them.
LEMMA Greatest ==
  ASSUME NEW n \in Nat, NEW S \in SUBSET (1..n), S # {}
  PROVE  Max(S) \in S /\ \A x \in S : x <= Max(S)
<1> DEFINE T == {n - x : x \in S}
<1>1. \A x \in S : x \in Nat /\ x <= n /\ n - x \in Nat /\ n - x \in T
  OBVIOUS
<1>2. T \subseteq Nat /\ T # {}
  <2>1. ASSUME NEW y \in T PROVE y \in Nat
    BY <1>1
  <2>2. PICK x \in S : n - x \in T
    BY <1>1
  <2>3. QED BY <2>1, <2>2
<1>3. PICK d \in T : \A y \in T : ~(<<y, d>> \in OpToRel(<, Nat))
  BY <1>2, WFMin, NatLessThanWellFounded
<1>4. \A y \in T : ~(y < d)
  BY <1>2, <1>3 DEF OpToRel
<1>5. PICK m \in S : d = n - m
  BY <1>3
<1>6. ASSUME NEW x \in S PROVE m >= x
  <2>1. ~(n - x < n - m) /\ x \in Nat /\ m \in Nat
    BY <1>1, <1>4, <1>5
  <2>2. QED BY <2>1
<1>7. Max(S) \in S /\ \A x \in S : Max(S) >= x
  BY Zenon, <1>6 DEF Max
<1>8. ASSUME NEW x \in S PROVE x <= Max(S)
  <2>1. Max(S) >= x /\ x \in Nat /\ Max(S) \in Nat
    BY <1>1, <1>7
  <2>2. QED BY <2>1
<1>9. QED BY <1>7, <1>8

\* The newest of some rows
LEMMA NewestIs ==
  ASSUME NEW n \in Nat, NEW S \in SUBSET (1..n)
  PROVE  Newest(S) \in 0..n /\ S \subseteq 1..Newest(S)
<1>1. CASE S = {}
  BY <1>1 DEF Newest, NoId
<1>2. CASE S # {}
  <2>1. Newest(S) = Max(S)
    BY <1>2 DEF Newest
  <2>2. Max(S) \in S /\ \A x \in S : x <= Max(S)
    BY Zenon, <1>2, Greatest
  <2>3. Max(S) \in 1..n
    BY <2>2
  <2>4. \A x \in S : x \in 1..Max(S)
    BY <2>2, <2>3
  <2>5. QED BY <2>1, <2>3, <2>4
<1>3. QED BY <1>1, <1>2

\* The higher of two ids is one of them, and neither is above it.
LEMMA HigherIs ==
  ASSUME NEW a \in Nat, NEW b \in Nat
  PROVE  /\ Higher(a, b) \in Nat /\ a <= Higher(a, b) /\ b <= Higher(a, b)
         /\ Higher(a, b) \in {a, b}
BY DEF Higher

\* A finite set in some order, each member once
LEMMA OrderIs ==
  ASSUME NEW S, IsFiniteSet(S)
  PROVE  /\ SetToSeq(S) \in Seq(S)
         /\ \A x \in S : \E i \in 1..Len(SetToSeq(S)) : SetToSeq(S)[i] = x
         /\ DOMAIN SetToSeq(S) = 1..Len(SetToSeq(S))
<1> DEFINE n == Cardinality(S)
           s == SetToSeq(S)
<1>1. n \in Nat
  BY FS_CardinalityType
<1>2. s \in [1..n -> S] /\ IsInjective(s)
  <2>1. PICK f \in Bijection(1..n, S) : TRUE
    BY FS_CardinalityType DEF ExistsBijection
  <2>2. f \in [1..n -> S] /\ IsInjective(f)
    BY <2>1 DEF Bijection, Injection, IsInjective
  <2>3. QED BY Zenon, <2>2 DEF SetToSeq
<1>3. s \in Surjection(1..n, S)
  <2>1. IsFiniteSet(1..n) /\ Cardinality(1..n) = n
    BY <1>1, FS_Interval
  <2>2. s \in Injection(1..n, S)
    BY <1>2 DEF Injection, IsInjective
  <2>3. QED BY Zenon, <2>1, <2>2, FS_Injection
<1>4. \A x \in S : \E i \in 1..n : s[i] = x
  BY <1>3 DEF Surjection
<1> HIDE DEF n, s
<1>5. s \in Seq(S) /\ Len(s) = n /\ DOMAIN s = 1..n
  BY <1>1, <1>2
<1>6. QED BY <1>4, <1>5 DEF n, s

--------------------------------------------------------------------------------
(* Frames *)

Rosters == UNION {[D -> SUBSET Nicks] : D \in SUBSET Channels}
Snapshots == [kind : {"snapshot"}, cursor : Nat, channels : Rosters]
IrcRows == [kind : {"irc"}, id : Nat, key : Keys, type : {"message", "join", "part"}, nick : Nicks \cup {NoId}]
Signals == [kind : {"ephemeral"}, key : Channels, type : {"channel-joined", "channel-parted", "names"},
            nicks : SUBSET Nicks]
Backlogs == [kind : {"backlog"}, key : Keys, mode : {"shell", "append", "replace"}, rows : SUBSET Nat,
             joined : BOOLEAN, unread : Nat, cleared : Nat]
Histories == [kind : {"history"}, key : NetKeys, rows : SUBSET Nat]
ReadStates == [kind : {"read-state"}, key : NetKeys, unread : Nat]
Openings == [kind : {"buffer-opened"}, key : NetKeys]
Closings == [kind : {"buffer-closed"}, key : NetKeys]
Renamings == {f \in [kind : {"buffer-renamed"}, from : Queries, to : Queries] : f.from # f.to}
Clearings == [kind : {"buffer-cleared"}, key : NetKeys, before : Nat]
Marks == [kind : {"backlog-complete", "lost"}]
Frames == Snapshots \cup IrcRows \cup Signals \cup Backlogs \cup Histories \cup ReadStates \cup Openings
          \cup Closings \cup Renamings \cup Clearings \cup Marks

\* The kind of a frame tells what else it has.
LEMMA KindTells ==
  ASSUME NEW f \in Frames
  PROVE  /\ f.kind = "snapshot" => f \in Snapshots
         /\ f.kind = "irc" => f \in IrcRows
         /\ f.kind = "ephemeral" => f \in Signals
         /\ f.kind = "backlog" => f \in Backlogs
         /\ f.kind = "history" => f \in Histories
         /\ f.kind = "read-state" => f \in ReadStates
         /\ f.kind = "buffer-opened" => f \in Openings
         /\ f.kind = "buffer-closed" => f \in Closings
         /\ f.kind = "buffer-renamed" => f \in Renamings
         /\ f.kind = "buffer-cleared" => f \in Clearings
         /\ f.kind \in {"backlog-complete", "lost"} => f \in Marks
<1>1. /\ \A g \in Snapshots : g.kind = "snapshot"
      /\ \A g \in IrcRows : g.kind = "irc"
      /\ \A g \in Signals : g.kind = "ephemeral"
      /\ \A g \in Backlogs : g.kind = "backlog"
      /\ \A g \in Histories : g.kind = "history"
      /\ \A g \in ReadStates : g.kind = "read-state"
  BY DEF Snapshots, IrcRows, Signals, Backlogs, Histories, ReadStates
<1>2. /\ \A g \in Openings : g.kind = "buffer-opened"
      /\ \A g \in Closings : g.kind = "buffer-closed"
      /\ \A g \in Renamings : g.kind = "buffer-renamed"
      /\ \A g \in Clearings : g.kind = "buffer-cleared"
      /\ \A g \in Marks : g.kind \in {"backlog-complete", "lost"}
  BY DEF Openings, Closings, Renamings, Clearings, Marks
<1>3. QED BY <1>1, <1>2 DEF Frames

\* What the server sends are frames.
LEMMA FramesAre ==
  /\ \A id \in Nat, k \in Keys, t \in {"message", "join", "part"}, n \in Nicks \cup {NoId} :
       Irc(id, k, t, n) \in Frames
  /\ \A c \in Channels, t \in {"channel-joined", "channel-parted", "names"}, s \in SUBSET Nicks :
       Ephemeral(c, t, s) \in Frames
  /\ \A k \in NetKeys, u \in Nat : ReadState(k, u) \in Frames
  /\ \A k \in NetKeys : Opened(k) \in Frames /\ Closed(k) \in Frames
  /\ \A k, l \in Queries : k # l => Renamed(k, l) \in Frames
  /\ \A k \in NetKeys, id \in Nat : Cleared(k, id) \in Frames
  /\ \A k \in NetKeys, s \in SUBSET Nat : History(k, s) \in Frames
  /\ Complete \in Frames /\ SocketLost \in Frames
<1>1. \A id \in Nat, k \in Keys, t \in {"message", "join", "part"}, n \in Nicks \cup {NoId} :
        Irc(id, k, t, n) \in IrcRows
  BY DEF Irc, IrcRows
<1>2. \A c \in Channels, t \in {"channel-joined", "channel-parted", "names"}, s \in SUBSET Nicks :
        Ephemeral(c, t, s) \in Signals
  BY DEF Ephemeral, Signals
<1>3. /\ \A k \in NetKeys, u \in Nat : ReadState(k, u) \in ReadStates
      /\ \A k \in NetKeys : Opened(k) \in Openings /\ Closed(k) \in Closings
  BY DEF ReadState, ReadStates, Opened, Openings, Closed, Closings
<1>4. \A k, l \in Queries : k # l => Renamed(k, l) \in Renamings
  BY DEF Renamed, Renamings
<1>5. \A k \in NetKeys, id \in Nat : Cleared(k, id) \in Clearings
  BY DEF Cleared, Clearings
<1>6. \A k \in NetKeys, s \in SUBSET Nat : History(k, s) \in Histories
  BY DEF History, Histories
<1>7. Complete \in Marks /\ SocketLost \in Marks
  BY DEF Complete, SocketLost, Marks
<1>8. QED BY <1>1, <1>2, <1>3, <1>4, <1>5, <1>6, <1>7 DEF Frames

--------------------------------------------------------------------------------
(* Types *)

\* Ids that there are, for a row of k
Limit(k) == IF k = System THEN systemHead ELSE Len(log)

\* A buffer that k may have: its rows are up to its newest, which there is.
Fits(k, buf) ==
  /\ buf \in Buffer /\ buf.rows \subseteq 1..buf.newest /\ buf.newest <= Limit(k)
  /\ buf.joined => k \in Channels

\* What frames say of ids, members and channels is possible.
Sound(f) ==
  /\ f.kind = "irc" => f.id \in 1..Limit(f.key) /\ (f.type # "message" => f.nick \in Nicks)
  /\ f.kind \in {"backlog", "history"} => f.rows \subseteq 1..Limit(f.key)
  /\ f.kind = "backlog" /\ f.joined => f.key \in Channels

StoreTypes ==
  /\ Held \subseteq Keys /\ buffers \in [Held -> Buffer]
  /\ \A k \in Held : Fits(k, buffers[k])
  /\ cursor \in Nat /\ backlogComplete \in BOOLEAN /\ snapshotChannels \in Rosters

LogRows == [key : NetKeys, type : {"message", "join", "part"}, nick : Nicks]
ServerTypes ==
  /\ log \in Seq(LogRows) /\ systemHead \in Nat
  /\ open \subseteq NetKeys /\ joined \subseteq Channels \cap open
  /\ members \in [Channels -> SUBSET Nicks]
  /\ unread \in [Keys -> Nat] /\ cleared \in [Keys -> Nat]
  /\ \A k \in NetKeys : cleared[k] <= Len(log) + 1

LinkTypes ==
  /\ inbox \in Seq(Frames) /\ \A i \in 1..Len(inbox) : Sound(inbox[i])
  /\ up \in BOOLEAN /\ asked \subseteq NetKeys
  /\ ~up => asked = {} /\ inbox \in {<<>>, <<SocketLost>>}
  /\ missed \subseteq NetKeys /\ revived \subseteq Keys /\ skipped \subseteq Nat
  /\ deleting \in {"no", "asked", "done"}
  /\ deleting # "no" => open = {} /\ joined = {} /\ asked = {}

Types == StoreTypes /\ ServerTypes /\ LinkTypes

\* What a buffer is, or would be if it were made now (touch_buffer)
Seen(k) == Touch(buffers, k)[k]

\* The keys of the network are those of neither the system buffer nor both kinds.
LEMMA KeysAre ==
  /\ Keys = NetKeys \cup {System} /\ System \notin NetKeys /\ NetKeys = Channels \cup Queries
  /\ Channels \cap Queries = {} /\ IsFiniteSet(NetKeys)
  /\ \A S : S \subseteq NetKeys => IsFiniteSet(S) /\ IsFiniteSet(S \cup {System}) /\ IsFiniteSet(S \ {System})
<1>1. IsFiniteSet(NetKeys)
  BY BuffersAssumption DEF NetKeys
<1>2. ASSUME NEW S, S \subseteq NetKeys
      PROVE  IsFiniteSet(S) /\ IsFiniteSet(S \cup {System}) /\ IsFiniteSet(S \ {System})
  <2>1. IsFiniteSet(S)
    BY Zenon, <1>1, <1>2, FS_Subset
  <2>2. IsFiniteSet(S \cup {System}) /\ IsFiniteSet(S \ {System})
    BY Zenon, <2>1, FS_AddElement, FS_RemoveElement
  <2>3. QED BY <2>1, <2>2
<1>3. QED BY <1>1, <1>2, BuffersAssumption DEF Keys, NetKeys

\* Touching and changing a buffer
LEMMA SeenIs ==
  ASSUME StoreTypes, systemHead \in Nat, log \in Seq(LogRows), NEW k \in Keys
  PROVE  /\ k \in Held => Seen(k) = buffers[k]
         /\ k \notin Held =>
              /\ Seen(k).rows = {} /\ Seen(k).newest = 0 /\ Seen(k).unread = 0 /\ Seen(k).cleared = 0
              /\ Seen(k).joined = (k \in DOMAIN snapshotChannels) /\ ~Seen(k).hydrated
              /\ Seen(k).members = IF k \in DOMAIN snapshotChannels THEN snapshotChannels[k] ELSE {}
         /\ Fits(k, Seen(k)) /\ Seen(k) \in Buffer
         /\ Touch(buffers, k) = Put(buffers, k, Seen(k))
         /\ \A b : [Touch(buffers, k) EXCEPT ![k] = b] = Put(buffers, k, b)
<1>1. Limit(k) \in Nat /\ snapshotChannels \in Rosters
  BY DEF Limit, StoreTypes
<1>2. DOMAIN snapshotChannels \subseteq Channels /\ \A c \in DOMAIN snapshotChannels : snapshotChannels[c] \subseteq Nicks
  BY <1>1 DEF Rosters
<1>3. CASE k \in Held
  <2>1. Touch(buffers, k) = buffers /\ Seen(k) = buffers[k]
    BY <1>3 DEF Touch, Seen, Held
  <2>2. Fits(k, buffers[k]) /\ buffers[k] \in Buffer /\ buffers \in [Held -> Buffer]
    BY <1>3 DEF StoreTypes
  <2>3. Put(buffers, k, buffers[k]) = buffers
    BY <1>3, <2>2 DEF Put, Held
  <2>4. \A b : [buffers EXCEPT ![k] = b] = Put(buffers, k, b)
    BY <1>3, <2>2 DEF Put, Held
  <2>5. QED BY <1>3, <2>1, <2>2, <2>3, <2>4
<1>4. CASE k \notin Held
  <2> DEFINE known == k \in DOMAIN snapshotChannels
             new == [rows |-> {}, newest |-> NoId, joined |-> known, hydrated |-> FALSE,
                     members |-> IF known THEN snapshotChannels[k] ELSE {},
                     unread |-> 0, cleared |-> NoId]
  <2>1. Touch(buffers, k) = Put(buffers, k, new)
    BY <1>4 DEF Touch, Held
  <2>2. /\ new \in Buffer /\ new.rows = {} /\ new.newest = 0 /\ new.unread = 0 /\ new.cleared = 0
        /\ new.joined = known /\ ~new.hydrated
        /\ new.members = IF known THEN snapshotChannels[k] ELSE {}
    BY <1>2 DEF Buffer, NoId
  <2> HIDE DEF new
  <2>3. Fits(k, new)
    <3>1. new.rows \subseteq 1..new.newest /\ new.newest <= Limit(k)
      BY <1>1, <2>2
    <3>2. new.joined => k \in Channels
      BY <1>2, <2>2
    <3>3. QED BY <2>2, <3>1, <3>2 DEF Fits
  <2>4. Touch(buffers, k) = Put(buffers, k, new) /\ Put(buffers, k, new)[k] = new
    BY <2>1 DEF Put
  <2>5. Seen(k) = new
    BY <2>4 DEF Seen
  <2>6. \A b : [Put(buffers, k, new) EXCEPT ![k] = b] = Put(buffers, k, b)
    BY DEF Put, Held
  <2>7. QED BY <1>4, <2>2, <2>3, <2>4, <2>5, <2>6
<1>5. QED BY <1>3, <1>4

--------------------------------------------------------------------------------
(* What applying a frame does *)

CopyTypes == StoreTypes /\ systemHead \in Nat /\ log \in Seq(LogRows)

\* A buffer is put in, the others are left alone.
LEMMA PutIs ==
  ASSUME CopyTypes, NEW k \in Keys, NEW b \in Buffer, Fits(k, b),
         buffers' = Put(buffers, k, b), cursor' \in Nat,
         UNCHANGED <<backlogComplete, snapshotChannels, log, systemHead>>
  PROVE  /\ StoreTypes' /\ Held' = Held \cup {k} /\ Seen(k)' = b
         /\ \A l \in Keys : l # k => Seen(l)' = Seen(l)
         /\ \A l \in Held' : l # k => l \in Held /\ buffers'[l] = buffers[l]
         /\ buffers'[k] = b
<1>1. /\ Held \subseteq Keys /\ buffers \in [Held -> Buffer] /\ backlogComplete \in BOOLEAN
      /\ snapshotChannels \in Rosters /\ \A l \in Held : Fits(l, buffers[l])
  BY DEF CopyTypes, StoreTypes
<1>2. DOMAIN buffers' = Held \cup {k}
  BY DEF Put, Held
<1>3. /\ Held' = Held \cup {k} /\ buffers'[k] = b
      /\ \A l \in Held : l # k => buffers'[l] = buffers[l]
  BY <1>2 DEF Put, Held
<1>4. buffers' \in [Held' -> Buffer]
  <2>1. \A l \in Held' : buffers'[l] \in Buffer
    BY <1>1, <1>3
  <2>2. buffers' = [l \in Held' |-> buffers'[l]]
    BY <1>3 DEF Put, Held
  <2>3. QED BY <2>1, <2>2
<1>5. ASSUME NEW l, NEW c, Fits(l, c) PROVE Fits(l, c)'
  BY <1>5 DEF Fits, Limit
<1>6. \A l \in Held' : Fits(l, buffers[l])'
  BY <1>1, <1>3, <1>5
<1>7. StoreTypes'
  BY <1>1, <1>3, <1>4, <1>6 DEF StoreTypes
<1>8. Seen(k)' = b
  BY <1>3 DEF Seen, Touch, Held
<1>9. ASSUME NEW l \in Keys, l # k PROVE Seen(l)' = Seen(l)
  <2>1. CASE l \in Held
    BY <1>3, <1>9, <2>1 DEF Seen, Touch, Held
  <2>2. CASE l \notin Held
    BY <1>3, <1>9, <2>2 DEF Seen, Touch, Held, Put
  <2>3. QED BY <2>1, <2>2
<1>10. QED BY <1>3, <1>7, <1>8, <1>9

\* Nothing changes but the cursor.
LEMMA StayIs ==
  ASSUME CopyTypes, buffers' = buffers, cursor' \in Nat, backlogComplete' \in BOOLEAN,
         UNCHANGED <<snapshotChannels, log, systemHead>>
  PROVE  /\ StoreTypes' /\ Held' = Held
         /\ \A l \in Keys : Seen(l)' = Seen(l)
<1>1. Held' = Held /\ \A l \in Keys : Seen(l)' = Seen(l)
  BY DEF Held, Seen, Touch
<1>2. \A l, b : Fits(l, b) => Fits(l, b)'
  BY DEF Fits, Limit
<1>3. QED BY <1>1, <1>2 DEF CopyTypes, StoreTypes

\* A row: it is added, and if it is new its effects are had.
LEMMA RowDoes ==
  ASSUME CopyTypes, NEW f \in IrcRows, Sound(f), ApplyRow(f)
  PROVE  \E b \in Buffer :
           /\ buffers' = Put(buffers, f.key, b) /\ Fits(f.key, b)
           /\ b.joined = Seen(f.key).joined /\ b.unread = Seen(f.key).unread
           /\ b.members = IF f.id > Seen(f.key).newest /\ f.type = "join" THEN Seen(f.key).members \cup {f.nick}
                          ELSE IF f.id > Seen(f.key).newest /\ f.type = "part" THEN Seen(f.key).members \ {f.nick}
                          ELSE Seen(f.key).members
           /\ b.newest = Higher(Seen(f.key).newest, f.id)
           /\ cursor' \in Nat /\ UNCHANGED <<backlogComplete, snapshotChannels>>
<1> DEFINE k == f.key
           buf == Seen(k)
           done == IF Fresh(buf, f.id) THEN SideEffects(buf, f) ELSE buf
           b == [done EXCEPT !.rows = @ \cup {f.id}, !.newest = Higher(@, f.id)]
<1>1. k \in Keys /\ f.id \in Nat /\ f.type \in {"message", "join", "part"} /\ f.kind = "irc"
  BY DEF IrcRows
<1>2. f.id \in 1..Limit(k) /\ (f.type # "message" => f.nick \in Nicks) /\ Limit(k) \in Nat
  BY <1>1 DEF Sound, Limit, CopyTypes
<1>3. /\ Fits(k, buf) /\ buf \in Buffer /\ Touch(buffers, k) = Put(buffers, k, buf)
      /\ \A c : [Touch(buffers, k) EXCEPT ![k] = c] = Put(buffers, k, c)
  BY Zenon, <1>1, SeenIs DEF CopyTypes
<1>4. Touch(buffers, k)[k] = buf
  BY DEF Seen
<1>5. buf.newest \in Nat /\ buf.rows \subseteq 1..buf.newest /\ buf.newest <= Limit(k)
      /\ (buf.joined => k \in Channels) /\ buf.members \subseteq Nicks
  BY <1>3 DEF Fits, Buffer
<1>6. /\ done \in Buffer /\ done.rows = buf.rows /\ done.newest = buf.newest
      /\ done.joined = buf.joined /\ done.unread = buf.unread
      /\ done.members = IF f.id > buf.newest /\ f.type = "join" THEN buf.members \cup {f.nick}
                        ELSE IF f.id > buf.newest /\ f.type = "part" THEN buf.members \ {f.nick}
                        ELSE buf.members
  <2>1. CASE ~Fresh(buf, f.id)
    BY <1>3, <2>1 DEF Fresh
  <2>2. CASE Fresh(buf, f.id)
    <3>1. f.id > buf.newest /\ done = SideEffects(buf, f)
      BY <2>2 DEF Fresh
    <3>2. CASE f.type = "join"
      <4>1. done = [buf EXCEPT !.members = buf.members \cup {f.nick}]
        BY <3>1, <3>2 DEF SideEffects
      <4>2. buf.members \cup {f.nick} \in SUBSET Nicks
        BY <1>2, <1>5, <3>2
      <4>3. QED BY <1>3, <3>1, <3>2, <4>1, <4>2 DEF Buffer
    <3>3. CASE f.type = "part"
      <4>1. done = [buf EXCEPT !.members = buf.members \ {f.nick}]
        BY <3>1, <3>3 DEF SideEffects
      <4>2. buf.members \ {f.nick} \in SUBSET Nicks
        BY <1>5
      <4>3. QED BY <1>3, <3>1, <3>3, <4>1, <4>2 DEF Buffer
    <3>4. CASE f.type = "message"
      <4>1. done = buf
        BY <3>1, <3>4 DEF SideEffects
      <4>2. QED BY <1>3, <3>1, <3>4, <4>1
    <3>5. QED BY <1>1, <3>2, <3>3, <3>4
  <2>3. QED BY <2>1, <2>2
<1> HIDE DEF done
<1>7. /\ b.rows = buf.rows \cup {f.id} /\ b.newest = Higher(buf.newest, f.id)
      /\ b.joined = buf.joined /\ b.unread = buf.unread /\ b.members = done.members
      /\ b \in Buffer
  <2>1. buf.rows \cup {f.id} \in SUBSET Nat
    BY <1>1, <1>5
  <2>2. Higher(buf.newest, f.id) \in Nat
    BY Zenon, <1>1, <1>5, HigherIs
  <2>3. QED BY <1>6, <2>1, <2>2 DEF Buffer
<1>8. Fits(k, b)
  <2>1. Higher(buf.newest, f.id) \in Nat /\ buf.newest <= Higher(buf.newest, f.id)
        /\ f.id <= Higher(buf.newest, f.id) /\ Higher(buf.newest, f.id) \in {buf.newest, f.id}
    BY Zenon, <1>1, <1>5, HigherIs
  <2> HIDE DEF b
  <2>2. b.rows \subseteq 1..b.newest /\ b.newest <= Limit(k)
    BY <1>2, <1>5, <1>7, <2>1
  <2>3. QED BY <1>5, <1>7, <2>2 DEF Fits
<1>9. cursor' \in Nat /\ UNCHANGED <<backlogComplete, snapshotChannels>>
  <2>1. cursor \in Nat /\ Higher(cursor, f.id) \in Nat
    BY <1>1, HigherIs DEF CopyTypes, StoreTypes
  <2>2. QED BY <2>1 DEF ApplyRow
<1>10. CASE ~Fresh(buf, f.id) /\ f.id \in buf.rows
  <2>1. buffers' = Touch(buffers, k)
    BY <1>10 DEF ApplyRow, Seen
  <2>2. buf.newest = Higher(buf.newest, f.id)
    BY <1>1, <1>5, <1>10 DEF Fresh, Higher
  <2>3. done = buf
    BY <1>10 DEF done
  <2>4. QED BY <1>3, <1>6, <1>9, <2>1, <2>2, <2>3
<1>11. CASE ~(~Fresh(buf, f.id) /\ f.id \in buf.rows)
  <2>1. buffers' = [Touch(buffers, k) EXCEPT ![k] = b]
    BY <1>11, <1>4 DEF ApplyRow, done
  <2>2. buffers' = Put(buffers, k, b)
    BY <1>3, <2>1
  <2>3. QED BY <1>6, <1>7, <1>8, <1>9, <2>2
<1>12. QED BY <1>10, <1>11

\* An event that is not a row: it changes the buffer that is there, or makes one if
\* the channel is joined by it.
LEMMA SignalDoes ==
  ASSUME CopyTypes, NEW f \in Signals, ApplySignal(f)
  PROVE  /\ cursor' \in Nat /\ UNCHANGED <<backlogComplete, snapshotChannels>>
         /\ f.key \notin Held /\ f.type # "channel-joined" => buffers' = buffers
         /\ f.key \in Held \/ f.type = "channel-joined" =>
              \E b \in Buffer :
                /\ buffers' = Put(buffers, f.key, b) /\ Fits(f.key, b)
                /\ b.joined = IF f.type = "channel-joined" THEN TRUE
                              ELSE IF f.type = "channel-parted" THEN FALSE ELSE Seen(f.key).joined
                /\ b.unread = Seen(f.key).unread /\ b.newest = Seen(f.key).newest
                /\ b.members = IF f.type = "names" THEN f.nicks
                               ELSE IF f.type = "channel-parted" THEN {} ELSE Seen(f.key).members
<1> DEFINE k == f.key
           buf == Seen(k)
           b == Signal(buf, f)
<1>1. /\ k \in Channels /\ k \in Keys /\ f.nicks \subseteq Nicks /\ f.kind = "ephemeral"
      /\ f.type \in {"channel-joined", "channel-parted", "names"}
  BY KeysAre DEF Signals
<1>2. cursor' \in Nat /\ UNCHANGED <<backlogComplete, snapshotChannels>>
  BY DEF ApplySignal, CopyTypes, StoreTypes
<1>3. f.key \notin Held /\ f.type # "channel-joined" => buffers' = buffers
  BY <1>1 DEF ApplySignal, MayMaterialize, Held
<1>4. ASSUME f.key \in Held \/ f.type = "channel-joined"
      PROVE  buffers' = Put(buffers, k, b)
  <2>1. buffers' = [Touch(buffers, k) EXCEPT ![k] = Signal(@, f)]
    BY <1>1, <1>4 DEF ApplySignal, MayMaterialize, Held
  <2>2. buffers' = [Touch(buffers, k) EXCEPT ![k] = b]
    BY <2>1 DEF Seen
  <2>3. [Touch(buffers, k) EXCEPT ![k] = b] = Put(buffers, k, b)
    BY <1>1, SeenIs DEF CopyTypes
  <2>4. QED BY <2>2, <2>3
<1>5. Fits(k, buf) /\ buf \in Buffer
  BY <1>1, SeenIs DEF CopyTypes
<1>6. CASE f.type = "channel-joined"
  <2>1. b = [buf EXCEPT !.joined = TRUE]
    BY <1>6 DEF Signal
  <2>2. /\ b \in Buffer /\ b.joined = TRUE /\ b.members = buf.members /\ b.unread = buf.unread
        /\ b.newest = buf.newest /\ b.rows = buf.rows
    BY <1>5, <2>1 DEF Buffer
  <2>3. Fits(k, b)
    BY <1>1, <1>5, <2>2 DEF Fits
  <2>4. QED BY <1>2, <1>4, <1>6, <2>2, <2>3
<1>7. CASE f.type = "channel-parted"
  <2>1. b = [buf EXCEPT !.joined = FALSE, !.members = {}]
    BY <1>7 DEF Signal
  <2>2. /\ b \in Buffer /\ b.joined = FALSE /\ b.members = {} /\ b.unread = buf.unread
        /\ b.newest = buf.newest /\ b.rows = buf.rows
    BY <1>5, <2>1 DEF Buffer
  <2>3. Fits(k, b)
    BY <1>5, <2>2 DEF Fits
  <2>4. QED BY <1>2, <1>3, <1>4, <1>7, <2>2, <2>3
<1>8. CASE f.type = "names"
  <2>1. b = [buf EXCEPT !.members = f.nicks]
    BY <1>8 DEF Signal
  <2>2. /\ b \in Buffer /\ b.joined = buf.joined /\ b.members = f.nicks /\ b.unread = buf.unread
        /\ b.newest = buf.newest /\ b.rows = buf.rows
    BY <1>1, <1>5, <2>1 DEF Buffer
  <2>3. Fits(k, b)
    BY <1>5, <2>2 DEF Fits
  <2>4. QED BY <1>2, <1>3, <1>4, <1>8, <2>2, <2>3
<1>9. QED BY <1>1, <1>6, <1>7, <1>8

\* A slice, of a burst or of the history: its rows are added or put in the place of
\* those that are there, and a burst's says whether the buffer is joined and unread.
LEMMA SliceDoes ==
  ASSUME CopyTypes, NEW f \in Backlogs \cup Histories, Sound(f), ApplySlice(f)
  PROVE  \E b \in Buffer :
           /\ buffers' = Put(buffers, f.key, b) /\ Fits(f.key, b)
           /\ b.joined = IF f.kind = "backlog" THEN f.joined ELSE Seen(f.key).joined
           /\ b.unread = IF f.kind = "backlog" THEN f.unread ELSE Seen(f.key).unread
           /\ b.members = Seen(f.key).members
           /\ b.newest = 0 \/ b.newest \in b.rows
           /\ b.rows \subseteq Seen(f.key).rows \cup f.rows
           /\ cursor' \in Nat /\ UNCHANGED <<backlogComplete, snapshotChannels>>
<1> DEFINE k == f.key
           buf == Seen(k)
           told == [buf EXCEPT !.joined = f.joined, !.unread = f.unread, !.cleared = f.cleared]
           rows == CASE f.mode = "shell"   -> told.rows
                     [] f.mode = "append"  -> Splice(told.rows, f.rows)
                     [] f.mode = "replace" -> Replace(told, f.rows)
           slice == Replace(buf, f.rows)
           b == [told EXCEPT !.rows = rows, !.newest = Newest(rows), !.hydrated = @ \/ f.mode # "shell"]
           h == [buf EXCEPT !.rows = slice, !.newest = Newest(slice), !.hydrated = TRUE]
<1>1. k \in Keys /\ f.rows \subseteq Nat
  BY KeysAre DEF Backlogs, Histories
<1>2. f.kind \in {"backlog", "history"} /\ f.rows \subseteq 1..Limit(k) /\ Limit(k) \in Nat
  BY DEF Sound, Limit, Backlogs, Histories, CopyTypes
<1>3. /\ Fits(k, buf) /\ buf \in Buffer
      /\ \A c : [Touch(buffers, k) EXCEPT ![k] = c] = Put(buffers, k, c)
  BY Zenon, <1>1, SeenIs DEF CopyTypes
<1>4. Touch(buffers, k)[k] = buf
  BY DEF Seen
<1>5. buf.newest \in Nat /\ buf.rows \subseteq 1..Limit(k) /\ (buf.joined => k \in Channels)
  BY <1>2, <1>3 DEF Fits, Buffer
<1>6. cursor' \in Nat /\ UNCHANGED <<backlogComplete, snapshotChannels>>
  <2>1. Newest(f.rows) \in 0..Limit(k)
    BY <1>2, NewestIs
  <2>2. cursor \in Nat /\ Higher(cursor, Newest(f.rows)) \in Nat
    BY <1>2, <2>1, HigherIs DEF CopyTypes, StoreTypes
  <2>3. QED BY <2>2 DEF ApplySlice, SliceCursor
<1>7. ASSUME NEW c, c.rows = buf.rows
      PROVE  Replace(c, f.rows) \subseteq buf.rows \cup f.rows
  BY <1>7 DEF Replace, Splice
<1>8. ASSUME NEW r, r \subseteq buf.rows \cup f.rows
      PROVE  /\ r \in SUBSET Nat /\ Newest(r) \in Nat /\ r \subseteq 1..Newest(r) /\ Newest(r) <= Limit(k)
             /\ Newest(r) = 0 \/ Newest(r) \in r
  <2>1. r \subseteq 1..Limit(k)
    BY <1>2, <1>5, <1>8
  <2>2. Newest(r) \in 0..Limit(k) /\ r \subseteq 1..Newest(r)
    BY <1>2, <2>1, NewestIs
  <2>3. Newest(r) = 0 \/ Newest(r) \in r
    <3>1. CASE r = {}
      BY <3>1 DEF Newest, NoId
    <3>2. CASE r # {}
      BY <1>2, <2>1, <3>2, Greatest DEF Newest
    <3>3. QED BY <3>1, <3>2
  <2>4. QED BY <1>2, <2>1, <2>2, <2>3
<1>9. CASE f.kind = "backlog"
  <2>1. f \in Backlogs
    BY <1>9 DEF Histories
  <2>2. /\ f.joined \in BOOLEAN /\ f.unread \in Nat /\ f.cleared \in Nat
        /\ f.mode \in {"shell", "append", "replace"} /\ (f.joined => k \in Channels)
    BY <1>9, <2>1 DEF Backlogs, Sound
  <2>3. buffers' = [Touch(buffers, k) EXCEPT ![k] = b]
    BY <1>4, <1>9 DEF ApplySlice, MergeBacklog
  <2>4. /\ told \in Buffer /\ told.rows = buf.rows /\ told.members = buf.members
        /\ told.joined = f.joined /\ told.unread = f.unread
    BY <1>3, <2>2 DEF Buffer
  <2> HIDE DEF told
  <2>5. rows \subseteq buf.rows \cup f.rows
    <3>1. CASE f.mode = "shell"
      BY <2>4, <3>1
    <3>2. CASE f.mode = "append"
      BY <2>4, <3>2 DEF Splice
    <3>3. CASE f.mode = "replace"
      BY <1>7, <2>4, <3>3
    <3>4. QED BY <2>2, <3>1, <3>2, <3>3
  <2> HIDE DEF rows
  <2>6. /\ rows \in SUBSET Nat /\ Newest(rows) \in Nat /\ rows \subseteq 1..Newest(rows) /\ Newest(rows) <= Limit(k)
        /\ Newest(rows) = 0 \/ Newest(rows) \in rows
    BY <1>8, <2>5
  <2>7. /\ b \in Buffer /\ b.rows = rows /\ b.newest = Newest(rows) /\ b.members = buf.members
        /\ b.joined = f.joined /\ b.unread = f.unread
    BY <2>4, <2>6 DEF Buffer
  <2> HIDE DEF b
  <2>8. Fits(k, b)
    BY <2>2, <2>6, <2>7 DEF Fits
  <2>9. QED BY <1>3, <1>6, <1>9, <2>3, <2>5, <2>6, <2>7, <2>8
<1>10. CASE f.kind = "history"
  <2>1. buffers' = [Touch(buffers, k) EXCEPT ![k] = h]
    BY <1>4, <1>10 DEF ApplySlice, MergeHistory
  <2>2. slice \subseteq buf.rows \cup f.rows
    BY <1>7
  <2> HIDE DEF slice
  <2>3. /\ slice \in SUBSET Nat /\ Newest(slice) \in Nat /\ slice \subseteq 1..Newest(slice) /\ Newest(slice) <= Limit(k)
        /\ Newest(slice) = 0 \/ Newest(slice) \in slice
    BY <1>8, <2>2
  <2>4. /\ h \in Buffer /\ h.rows = slice /\ h.newest = Newest(slice) /\ h.members = buf.members
        /\ h.joined = buf.joined /\ h.unread = buf.unread
    BY <1>3, <2>3 DEF Buffer
  <2> HIDE DEF h
  <2>5. Fits(k, h)
    BY <1>5, <2>3, <2>4 DEF Fits
  <2>6. QED BY <1>3, <1>6, <1>10, <2>1, <2>2, <2>3, <2>4, <2>5
<1>11. QED BY <1>2, <1>9, <1>10

\* A snapshot: the channels in it are joined by those members, held or not.
LEMMA SnapshotDoes ==
  ASSUME CopyTypes, NEW f \in Snapshots, ApplySnapshot(f), UNCHANGED <<log, systemHead>>
  PROVE  /\ StoreTypes' /\ Held' = Held
         /\ \A k \in Keys : /\ Seen(k)'.unread = Seen(k).unread /\ Seen(k)'.newest = Seen(k).newest
                            /\ k \notin DOMAIN f.channels => Seen(k)' = Seen(k)
                            /\ k \in DOMAIN f.channels => Seen(k)'.members = f.channels[k]
         /\ \A k \in Held : k \notin DOMAIN f.channels => buffers'[k] = buffers[k]
<1>1. f.channels \in Rosters /\ f.cursor \in Nat
  BY DEF Snapshots
<1>2. DOMAIN f.channels \subseteq Channels /\ \A c \in DOMAIN f.channels : f.channels[c] \subseteq Nicks
  BY <1>1 DEF Rosters
<1>3. /\ Held \subseteq Keys /\ buffers \in [Held -> Buffer] /\ backlogComplete \in BOOLEAN /\ cursor \in Nat
      /\ snapshotChannels \in Rosters /\ \A l \in Held : Fits(l, buffers[l]) /\ buffers[l] \in Buffer
  BY DEF CopyTypes, StoreTypes
<1>4. DOMAIN snapshotChannels \subseteq Channels /\ \A c \in DOMAIN snapshotChannels : snapshotChannels[c] \subseteq Nicks
  BY <1>3 DEF Rosters
<1>5. /\ Held' = Held
      /\ \A k \in Held : k \notin DOMAIN f.channels => buffers'[k] = buffers[k]
      /\ \A k \in Held : k \in DOMAIN f.channels =>
           buffers'[k] = [buffers[k] EXCEPT !.joined = TRUE, !.members = f.channels[k]]
  BY DEF ApplySnapshot, Held
<1>6. /\ DOMAIN snapshotChannels' = DOMAIN f.channels \cup DOMAIN snapshotChannels
      /\ \A c \in DOMAIN f.channels : snapshotChannels'[c] = f.channels[c]
      /\ \A c \in DOMAIN snapshotChannels : c \notin DOMAIN f.channels => snapshotChannels'[c] = snapshotChannels[c]
  BY DEF ApplySnapshot
<1>7. ASSUME NEW k \in Held, k \in DOMAIN f.channels
      PROVE  /\ buffers'[k] \in Buffer /\ Fits(k, buffers[k])'
             /\ buffers'[k].unread = buffers[k].unread /\ buffers'[k].newest = buffers[k].newest
             /\ buffers'[k].members = f.channels[k]
  <2>1. f.channels[k] \subseteq Nicks /\ k \in Channels
    BY <1>2, <1>7
  <2>2. /\ buffers'[k] \in Buffer /\ buffers'[k].unread = buffers[k].unread /\ buffers'[k].newest = buffers[k].newest
        /\ buffers'[k].members = f.channels[k] /\ buffers'[k].rows = buffers[k].rows
    <3> DEFINE buf == buffers[k]
               m == f.channels[k]
    <3>1. buf \in Buffer /\ m \in SUBSET Nicks /\ buffers'[k] = [buf EXCEPT !.joined = TRUE, !.members = m]
      BY <1>3, <1>5, <1>7, <2>1
    <3> HIDE DEF buf, m
    <3>2. /\ buffers'[k] \in Buffer /\ buffers'[k].unread = buf.unread /\ buffers'[k].newest = buf.newest
          /\ buffers'[k].members = m /\ buffers'[k].rows = buf.rows
      BY <3>1 DEF Buffer
    <3>3. QED BY <3>2 DEF buf, m
  <2>3. Fits(k, buffers[k])'
    BY <1>3, <2>1, <2>2 DEF Fits, Limit
  <2>4. QED BY <2>2, <2>3
<1>8. ASSUME NEW k \in Held, k \notin DOMAIN f.channels PROVE buffers'[k] \in Buffer /\ Fits(k, buffers[k])'
  BY <1>3, <1>5, <1>8 DEF Fits, Limit
<1>9. StoreTypes'
  <2>1. buffers' \in [Held' -> Buffer]
    <3>1. \A k \in Held : buffers'[k] \in Buffer
      BY <1>7, <1>8
    <3>2. buffers' = [k \in Held' |-> buffers'[k]]
      BY <1>5 DEF ApplySnapshot, Held
    <3>3. QED BY <1>5, <3>1, <3>2
  <2>2. cursor' \in Nat /\ backlogComplete' \in BOOLEAN
    BY <1>1, <1>3, HigherIs DEF ApplySnapshot
  <2>3. snapshotChannels' \in Rosters
    <3> DEFINE D == DOMAIN f.channels \cup DOMAIN snapshotChannels
    <3>1. D \in SUBSET Channels
      BY <1>2, <1>4
    <3>2. \A c \in D : snapshotChannels'[c] \in SUBSET Nicks
      BY <1>2, <1>4, <1>6
    <3>3. snapshotChannels' = [c \in D |-> snapshotChannels'[c]]
      BY <1>6 DEF ApplySnapshot
    <3>4. snapshotChannels' \in [D -> SUBSET Nicks]
      BY <3>2, <3>3
    <3>5. QED BY <3>1, <3>4 DEF Rosters
  <2>4. \A k \in Held' : Fits(k, buffers[k])'
    BY <1>5, <1>7, <1>8
  <2>5. QED BY <1>3, <1>5, <2>1, <2>2, <2>3, <2>4 DEF StoreTypes
<1>10. ASSUME NEW k \in Keys
       PROVE  /\ Seen(k)'.unread = Seen(k).unread /\ Seen(k)'.newest = Seen(k).newest
              /\ k \notin DOMAIN f.channels => Seen(k)' = Seen(k)
              /\ k \in DOMAIN f.channels => Seen(k)'.members = f.channels[k]
  <2>1. CASE k \in Held
    <3>1. Seen(k) = buffers[k] /\ Seen(k)' = buffers'[k]
      BY <1>5, <2>1 DEF Seen, Touch, Held
    <3>2. QED BY <1>5, <1>7, <2>1, <3>1
  <2>2. CASE k \notin Held
    <3>1. /\ Seen(k).unread = 0 /\ Seen(k).newest = 0
      BY <2>2, SeenIs DEF CopyTypes
    <3>2. CopyTypes' /\ k \notin Held'
      BY <1>5, <1>9, <2>2 DEF CopyTypes
    <3>3. /\ Seen(k)'.unread = 0 /\ Seen(k)'.newest = 0
          /\ k \in DOMAIN snapshotChannels' => Seen(k)'.members = snapshotChannels'[k]
      BY <1>5, <2>2 DEF Seen, Touch, Held, Put, NoId
    <3>4. ASSUME k \notin DOMAIN f.channels PROVE Seen(k)' = Seen(k)
      <4>1. k \in DOMAIN snapshotChannels' <=> k \in DOMAIN snapshotChannels
        BY <1>6, <3>4
      <4>2. CASE k \in DOMAIN snapshotChannels
        <5>1. snapshotChannels'[k] = snapshotChannels[k]
          BY <1>6, <3>4, <4>2
        <5>2. QED BY <1>5, <2>2, <4>1, <4>2, <5>1 DEF Seen, Touch, Held, Put
      <4>3. CASE k \notin DOMAIN snapshotChannels
        <5> DEFINE blank == [rows |-> {}, newest |-> NoId, joined |-> FALSE, hydrated |-> FALSE,
                             members |-> {}, unread |-> 0, cleared |-> NoId]
        <5>1. (k \in DOMAIN snapshotChannels) = FALSE /\ (k \in DOMAIN snapshotChannels') = FALSE
          BY <4>1, <4>3
        <5>2. Touch(buffers, k) = Put(buffers, k, blank)
          BY Zenon, <2>2, <4>3, <5>1 DEF Touch, Held
        <5>3. Touch(buffers, k)' = Put(buffers', k, blank)
          BY Zenon, <1>5, <2>2, <4>1, <4>3, <5>1 DEF Touch, Held
        <5>4. Seen(k) = blank /\ Seen(k)' = blank
          BY <5>2, <5>3 DEF Seen, Put
        <5>5. QED BY <5>4
      <4>4. QED BY <4>2, <4>3
    <3>5. QED BY <1>6, <3>1, <3>3, <3>4
  <2>3. QED BY <2>1, <2>2
<1>11. QED BY <1>5, <1>9, <1>10

\* Closing drops a buffer.
LEMMA ClosedDoes ==
  ASSUME CopyTypes, NEW f \in Closings, ApplyBufferFrame(f), UNCHANGED <<log, systemHead>>
  PROVE  /\ StoreTypes' /\ Held' = Held \ {f.key} /\ UNCHANGED <<cursor, backlogComplete, snapshotChannels>>
         /\ \A k \in Keys : k # f.key => Seen(k)' = Seen(k)
         /\ \A k \in Held' : buffers'[k] = buffers[k]
<1>1. /\ Held \subseteq Keys /\ buffers \in [Held -> Buffer] /\ \A l \in Held : Fits(l, buffers[l])
  BY DEF CopyTypes, StoreTypes
<1>2. buffers' = [l \in Held \ {f.key} |-> buffers[l]] /\ UNCHANGED <<cursor, backlogComplete, snapshotChannels>>
  BY DEF ApplyBufferFrame, Closings, Restrict, Held
<1>3. Held' = Held \ {f.key} /\ \A k \in Held' : buffers'[k] = buffers[k]
  BY <1>2 DEF Held
<1>4. \A l \in Held' : Fits(l, buffers[l])'
  BY <1>1, <1>2, <1>3 DEF Fits, Limit
<1>5. buffers' \in [Held' -> Buffer]
  BY <1>1, <1>2, <1>3
<1>6. StoreTypes'
  BY <1>1, <1>2, <1>3, <1>4, <1>5 DEF StoreTypes, CopyTypes
<1>7. ASSUME NEW k \in Keys, k # f.key PROVE Seen(k)' = Seen(k)
  <2>1. CASE k \in Held
    BY <1>3, <1>7, <2>1 DEF Seen, Touch, Held
  <2>2. CASE k \notin Held
    BY <1>2, <1>3, <1>7, <2>2 DEF Seen, Touch, Held, Put
  <2>3. QED BY <2>1, <2>2
<1>8. QED BY <1>2, <1>3, <1>6, <1>7

\* Opening makes a buffer if there is none.
LEMMA OpenedDoes ==
  ASSUME CopyTypes, NEW f \in Openings, ApplyBufferFrame(f)
  PROVE  /\ buffers' = Put(buffers, f.key, Seen(f.key)) /\ Fits(f.key, Seen(f.key)) /\ Seen(f.key) \in Buffer
         /\ cursor' \in Nat /\ UNCHANGED <<backlogComplete, snapshotChannels>>
<1>1. f.key \in Keys
  BY KeysAre DEF Openings
<1>2. buffers' = Touch(buffers, f.key) /\ UNCHANGED <<cursor, backlogComplete, snapshotChannels>>
  BY DEF ApplyBufferFrame, Openings
<1>3. QED BY <1>1, <1>2, SeenIs DEF CopyTypes, StoreTypes

\* Clearing takes rows from the buffer that is there, a read state sets its count.
LEMMA ClearedDoes ==
  ASSUME CopyTypes, NEW f \in Clearings \cup ReadStates, ApplyBufferFrame(f)
  PROVE  /\ cursor' \in Nat /\ UNCHANGED <<backlogComplete, snapshotChannels>>
         /\ f.key \notin Held => buffers' = buffers
         /\ f.key \in Held =>
              \E b \in Buffer :
                /\ buffers' = Put(buffers, f.key, b) /\ Fits(f.key, b)
                /\ b.joined = Seen(f.key).joined /\ b.members = Seen(f.key).members
                /\ b.newest = Seen(f.key).newest
                /\ b.unread = IF f.kind = "read-state" THEN f.unread ELSE Seen(f.key).unread
<1> DEFINE k == f.key
           buf == buffers[k]
<1>1. k \in Keys /\ f.kind \in {"buffer-cleared", "read-state"}
  BY KeysAre DEF Clearings, ReadStates
<1>2. cursor' \in Nat /\ UNCHANGED <<backlogComplete, snapshotChannels>>
  BY DEF ApplyBufferFrame, CopyTypes, StoreTypes
<1>3. f.key \notin Held => buffers' = buffers
  BY <1>1 DEF ApplyBufferFrame, Held
<1>4. ASSUME k \in Held
      PROVE  /\ Fits(k, buf) /\ buf \in Buffer /\ Seen(k) = buf /\ buffers \in [Held -> Buffer]
             /\ \A c : [buffers EXCEPT ![k] = c] = Put(buffers, k, c)
  <2>1. Fits(k, buf) /\ buf \in Buffer /\ Seen(k) = buf /\ buffers \in [Held -> Buffer]
    BY <1>4 DEF CopyTypes, StoreTypes, Seen, Touch, Held
  <2>2. Touch(buffers, k) = buffers
    BY <1>4 DEF Touch, Held
  <2>3. \A c : [Touch(buffers, k) EXCEPT ![k] = c] = Put(buffers, k, c)
    BY <1>1, SeenIs DEF CopyTypes
  <2>4. QED BY <2>1, <2>2, <2>3
<1>5. CASE k \in Held /\ f.kind = "read-state"
  <2> DEFINE b == [buf EXCEPT !.unread = f.unread]
  <2>1. f.unread \in Nat
    BY <1>5 DEF ReadStates, Clearings
  <2>2. buffers' = [buffers EXCEPT ![k].unread = f.unread]
    BY <1>5 DEF ApplyBufferFrame, Held
  <2>3. buffers' = [buffers EXCEPT ![k] = b]
    BY <2>2
  <2>4. /\ b \in Buffer /\ b.rows = buf.rows /\ b.newest = buf.newest /\ b.members = buf.members
        /\ b.joined = buf.joined /\ b.unread = f.unread
    BY <1>4, <1>5, <2>1 DEF Buffer
  <2> HIDE DEF b
  <2>5. Fits(k, b)
    BY <1>4, <1>5, <2>4 DEF Fits
  <2>6. QED BY <1>2, <1>4, <1>5, <2>3, <2>4, <2>5
<1>6. CASE k \in Held /\ f.kind = "buffer-cleared"
  <2> DEFINE r == {id \in buf.rows : id >= f.before}
             b == [buf EXCEPT !.cleared = f.before, !.rows = r]
  <2>1. f.before \in Nat
    BY <1>6 DEF ReadStates, Clearings
  <2>2. buffers' = [buffers EXCEPT ![k].cleared = f.before, ![k].rows = {id \in @ : id >= f.before}]
    BY <1>6 DEF ApplyBufferFrame, Held
  <2>3. buffers' = [buffers EXCEPT ![k] = b]
    BY <1>4, <1>6, <2>2
  <2>4. r \subseteq buf.rows /\ r \in SUBSET Nat
    BY <1>4, <1>6 DEF Buffer
  <2> HIDE DEF r
  <2>5. /\ b \in Buffer /\ b.rows = r /\ b.newest = buf.newest /\ b.members = buf.members
        /\ b.joined = buf.joined /\ b.unread = buf.unread
    BY <1>4, <1>6, <2>1, <2>4 DEF Buffer
  <2> HIDE DEF b
  <2>6. Fits(k, b)
    BY <1>4, <1>6, <2>4, <2>5 DEF Fits
  <2>7. QED BY <1>2, <1>4, <1>6, <2>3, <2>5, <2>6
<1>7. QED BY <1>1, <1>2, <1>3, <1>5, <1>6

\* Renaming moves a buffer, into the one that has its name if there is one.
LEMMA RenamedDoes ==
  ASSUME CopyTypes, NEW f \in Renamings, ApplyBufferFrame(f), UNCHANGED <<log, systemHead>>
  PROVE  /\ StoreTypes'
         /\ f.from \notin Held => Held' = Held /\ \A k \in Keys : Seen(k)' = Seen(k)
         /\ f.from \in Held =>
              /\ Held' = (Held \ {f.from}) \cup {f.to}
              /\ \A k \in Keys : k \notin {f.from, f.to} => Seen(k)' = Seen(k)
              /\ \A k \in Held' : k # f.to => buffers'[k] = buffers[k]
              /\ Seen(f.from)'.unread = 0 /\ Seen(f.to)' = buffers'[f.to]
              /\ \/ buffers'[f.to].newest = 0
                 \/ \E k \in Held : buffers'[f.to].newest <= buffers[k].newest /\ k \in {f.from, f.to}
         /\ UNCHANGED <<cursor, backlogComplete, snapshotChannels>>
<1> DEFINE from == f.from
           to == f.to
           buf == buffers[from]
           rows == buf.rows \cup buffers[to].rows
           both == [buf EXCEPT !.rows = rows, !.newest = Newest(rows), !.members = @ \cup buffers[to].members]
           b == IF to \in Held THEN both ELSE buf
           rest == [k \in Held \ {from} |-> buffers[k]]
<1>1. /\ from \in Queries /\ to \in Queries /\ from # to /\ f.kind = "buffer-renamed"
      /\ from \in Keys /\ to \in Keys /\ from \notin Channels /\ to \notin Channels /\ Limit(from) = Limit(to)
  BY KeysAre DEF Renamings, Limit
<1>2. /\ Held \subseteq Keys /\ buffers \in [Held -> Buffer] /\ cursor \in Nat /\ backlogComplete \in BOOLEAN
      /\ snapshotChannels \in Rosters /\ \A l \in Held : Fits(l, buffers[l]) /\ buffers[l] \in Buffer
      /\ Limit(to) \in Nat
  BY DEF CopyTypes, StoreTypes, Limit
<1>3. UNCHANGED <<cursor, backlogComplete, snapshotChannels>>
  BY DEF ApplyBufferFrame
<1>4. buffers' = IF from \in Held THEN RenameBuffer(buffers, from, to) ELSE buffers
  BY <1>1 DEF ApplyBufferFrame, Held
<1>5. ASSUME NEW l, NEW c, Fits(l, c) PROVE Fits(l, c)'
  BY <1>5 DEF Fits, Limit
<1>6. CASE from \notin Held
  <2>1. buffers' = buffers
    BY <1>4, <1>6
  <2>2. StoreTypes' /\ Held' = Held /\ \A l \in Keys : Seen(l)' = Seen(l)
    BY <1>2, <1>3, <2>1, StayIs
  <2>3. QED BY <1>3, <1>6, <2>2
<1>7. CASE from \in Held
  <2>1. buffers' = Put(rest, to, b)
    BY <1>4, <1>7 DEF RenameBuffer, Restrict, Held
  <2>2. /\ b \in Buffer /\ Fits(to, b)
        /\ \/ b.newest = 0
           \/ \E k \in Held : b.newest <= buffers[k].newest /\ k \in {from, to}
    <3>1. CASE to \notin Held
      <4>1. Fits(from, buf) /\ buf \in Buffer /\ b = buf
        BY <1>2, <1>7, <3>1
      <4>2. Fits(to, buf) /\ buf.newest <= buf.newest
        BY <1>1, <4>1 DEF Fits, Buffer
      <4>3. QED BY <1>7, <4>1, <4>2
    <3>2. CASE to \in Held
      <4> DEFINE oth == buffers[to]
      <4>1. Fits(from, buf) /\ buf \in Buffer /\ Fits(to, oth) /\ oth \in Buffer /\ b = both
        BY <1>2, <1>7, <3>2
      <4>2. /\ buf.newest \in Nat /\ oth.newest \in Nat /\ buf.newest <= Limit(to) /\ oth.newest <= Limit(to)
            /\ buf.rows \subseteq 1..buf.newest /\ oth.rows \subseteq 1..oth.newest /\ ~buf.joined
            /\ buf.members \subseteq Nicks /\ oth.members \subseteq Nicks
        BY <1>1, <4>1 DEF Fits, Buffer
      <4> DEFINE n == Higher(buf.newest, oth.newest)
      <4>3. n \in Nat /\ buf.newest <= n /\ oth.newest <= n /\ n \in {buf.newest, oth.newest} /\ n <= Limit(to)
        BY <4>2, HigherIs
      <4> HIDE DEF n
      <4>4. rows \in SUBSET (1..n)
        BY <4>2, <4>3
      <4>5. Newest(rows) \in 0..n /\ rows \subseteq 1..Newest(rows)
        BY <4>3, <4>4, NewestIs
      <4>6. rows \in SUBSET Nat
        BY <4>3, <4>4
      <4> HIDE DEF rows
      <4>7. Newest(rows) \in Nat /\ Newest(rows) <= n /\ Newest(rows) <= Limit(to)
        BY <1>2, <4>3, <4>5
      <4>8. buf.members \cup oth.members \in SUBSET Nicks
        BY <4>2
      <4>9. both \in Buffer /\ both.rows = rows /\ both.newest = Newest(rows) /\ both.joined = buf.joined
        BY <4>1, <4>6, <4>7, <4>8 DEF Buffer
      <4> HIDE DEF both
      <4>10. Fits(to, b)
        BY <4>1, <4>2, <4>5, <4>7, <4>9 DEF Fits
      <4>11. QED BY <1>7, <3>2, <4>1, <4>3, <4>7, <4>9, <4>10
    <3>3. QED BY <3>1, <3>2
  <2> HIDE DEF b
  <2>3. /\ Held' = (Held \ {from}) \cup {to} /\ buffers'[to] = b
        /\ \A k \in Held' : k # to => buffers'[k] = buffers[k]
    BY <2>1 DEF Put, Held
  <2>4. buffers' \in [Held' -> Buffer]
    <3>1. \A k \in Held' : buffers'[k] \in Buffer
      BY <1>2, <2>2, <2>3
    <3>2. buffers' = [k \in Held' |-> buffers'[k]]
      BY <2>1, <2>3 DEF Put, Held
    <3>3. QED BY <3>1, <3>2
  <2>5. ASSUME NEW k \in Held' PROVE Fits(k, buffers[k])'
    <3>1. CASE k = to
      BY <1>5, <2>2, <2>3, <3>1
    <3>2. CASE k # to
      BY <1>2, <1>5, <2>3, <3>2
    <3>3. QED BY <3>1, <3>2
  <2>6. StoreTypes'
    BY <1>1, <1>2, <1>3, <2>3, <2>4, <2>5 DEF StoreTypes
  <2>7. ASSUME NEW k \in Keys, k \notin {from, to} PROVE Seen(k)' = Seen(k)
    <3>1. CASE k \in Held
      BY <2>3, <2>7, <3>1 DEF Seen, Touch, Held
    <3>2. CASE k \notin Held
      BY <1>3, <2>3, <2>7, <3>2 DEF Seen, Touch, Held, Put
    <3>3. QED BY <3>1, <3>2
  <2>8. Seen(from)'.unread = 0
    BY <1>1, <2>3 DEF Seen, Touch, Held, Put
  <2>9. Seen(to)' = buffers'[to]
    BY <2>3 DEF Seen, Touch, Held
  <2>10. QED BY <1>3, <1>7, <2>2, <2>3, <2>6, <2>7, <2>8, <2>9
<1>8. QED BY <1>6, <1>7

\* The frame at the head is one of these, and applied as such.
LEMMA HeadIs ==
  ASSUME Types, ApplyFrame
  PROVE  LET f == Head(inbox) IN
         /\ inbox # <<>> /\ inbox \in Seq(Frames) /\ f \in Frames /\ f = inbox[1] /\ Sound(f) /\ CopyTypes
         /\ inbox' = Tail(inbox)
         /\ UNCHANGED <<log, systemHead, open, joined, members, unread, cleared, up, asked, deleting,
                        missed, revived, merged, skipped, moves>>
         /\ \/ f \in Snapshots /\ ApplySnapshot(f)
            \/ f \in IrcRows /\ ApplyRow(f)
            \/ f \in Signals /\ ApplySignal(f)
            \/ f \in Backlogs \cup Histories /\ ApplySlice(f)
            \/ f \in Marks /\ ApplyMark(f)
            \/ f \in Openings /\ ApplyBufferFrame(f)
            \/ f \in Closings /\ ApplyBufferFrame(f)
            \/ f \in Renamings /\ ApplyBufferFrame(f)
            \/ f \in Clearings \cup ReadStates /\ ApplyBufferFrame(f)
<1> DEFINE f == Head(inbox)
<1>1. inbox # <<>> /\ inbox \in Seq(Frames) /\ \A i \in 1..Len(inbox) : Sound(inbox[i])
  BY DEF ApplyFrame, Types, LinkTypes
<1>2. f \in Frames /\ f = inbox[1] /\ 1 \in 1..Len(inbox)
  BY <1>1
<1>3. Sound(f) /\ CopyTypes
  BY <1>1, <1>2 DEF Types, ServerTypes, CopyTypes
<1>4. /\ inbox' = Tail(inbox)
      /\ UNCHANGED <<log, systemHead, open, joined, members, unread, cleared, up, asked, deleting,
                     missed, revived, merged, skipped, moves>>
  BY DEF ApplyFrame, server
<1>5. \/ f.kind = "snapshot" /\ ApplySnapshot(f)
      \/ f.kind = "irc" /\ ApplyRow(f)
      \/ f.kind = "ephemeral" /\ ApplySignal(f)
      \/ f.kind \in {"backlog", "history"} /\ ApplySlice(f)
      \/ f.kind \in {"backlog-complete", "lost"} /\ ApplyMark(f)
      \/ f.kind \in {"buffer-opened", "buffer-closed", "buffer-renamed", "buffer-cleared", "read-state"}
           /\ ApplyBufferFrame(f)
  BY Zenon DEF ApplyFrame
<1> HIDE DEF f
<1>6. \/ f \in Snapshots /\ ApplySnapshot(f)
      \/ f \in IrcRows /\ ApplyRow(f)
      \/ f \in Signals /\ ApplySignal(f)
      \/ f \in Backlogs \cup Histories /\ ApplySlice(f)
      \/ f \in Marks /\ ApplyMark(f)
      \/ f \in Openings /\ ApplyBufferFrame(f)
      \/ f \in Closings /\ ApplyBufferFrame(f)
      \/ f \in Renamings /\ ApplyBufferFrame(f)
      \/ f \in Clearings \cup ReadStates /\ ApplyBufferFrame(f)
  BY Zenon, <1>2, <1>5, KindTells
<1>7. QED BY <1>1, <1>2, <1>3, <1>4, <1>6 DEF f

\* Applying keeps the store's types.
LEMMA ApplyKeepsStore ==
  ASSUME Types, ApplyFrame PROVE StoreTypes'
<1> DEFINE f == Head(inbox)
<1>1. Sound(f) /\ CopyTypes /\ UNCHANGED <<log, systemHead>>
  BY HeadIs
<1> HIDE DEF f
<1>2. ASSUME NEW k \in Keys, NEW b \in Buffer, Fits(k, b), buffers' = Put(buffers, k, b), cursor' \in Nat,
             UNCHANGED <<backlogComplete, snapshotChannels>>
      PROVE  StoreTypes'
  BY <1>1, <1>2, PutIs
<1>3. ASSUME buffers' = buffers, cursor' \in Nat, backlogComplete' \in BOOLEAN, UNCHANGED snapshotChannels
      PROVE  StoreTypes'
  BY <1>1, <1>3, StayIs
<1>4. CASE f \in Snapshots /\ ApplySnapshot(f)
  BY <1>1, <1>4, SnapshotDoes
<1>5. CASE f \in IrcRows /\ ApplyRow(f)
  <2>1. f.key \in Keys
    BY <1>5 DEF IrcRows
  <2>2. QED BY <1>1, <1>2, <1>5, <2>1, RowDoes
<1>6. CASE f \in Signals /\ ApplySignal(f)
  <2>1. f.key \in Keys
    BY <1>6, KeysAre DEF Signals
  <2>2. backlogComplete \in BOOLEAN
    BY <1>1 DEF CopyTypes, StoreTypes
  <2>3. QED BY <1>1, <1>2, <1>3, <1>6, <2>1, <2>2, SignalDoes
<1>7. CASE f \in Backlogs \cup Histories /\ ApplySlice(f)
  <2>1. f.key \in Keys
    BY <1>7, KeysAre DEF Backlogs, Histories
  <2>2. QED BY <1>1, <1>2, <1>7, <2>1, SliceDoes
<1>8. CASE f \in Marks /\ ApplyMark(f)
  BY <1>1, <1>3, <1>8 DEF ApplyMark, CopyTypes, StoreTypes
<1>9. CASE f \in Openings /\ ApplyBufferFrame(f)
  <2>1. f.key \in Keys
    BY <1>9, KeysAre DEF Openings
  <2>2. QED BY <1>1, <1>2, <1>9, <2>1, OpenedDoes
<1>10. CASE f \in Closings /\ ApplyBufferFrame(f)
  BY <1>1, <1>10, ClosedDoes
<1>11. CASE f \in Renamings /\ ApplyBufferFrame(f)
  BY <1>1, <1>11, RenamedDoes
<1>12. CASE f \in Clearings \cup ReadStates /\ ApplyBufferFrame(f)
  <2>1. f.key \in Keys
    BY <1>12, KeysAre DEF Clearings, ReadStates
  <2>2. backlogComplete \in BOOLEAN
    BY <1>1 DEF CopyTypes, StoreTypes
  <2>3. QED BY <1>1, <1>2, <1>3, <1>12, <2>1, <2>2, ClearedDoes
<1>13. QED BY Zenon, <1>4, <1>5, <1>6, <1>7, <1>8, <1>9, <1>10, <1>11, <1>12, HeadIs DEF f

\* Applying keeps all types.
LEMMA ApplyKeepsTypes ==
  ASSUME Types, ApplyFrame PROVE Types'
<1>1. StoreTypes'
  BY ApplyKeepsStore
<1>2. /\ inbox' = Tail(inbox) /\ inbox # <<>> /\ inbox \in Seq(Frames)
      /\ UNCHANGED <<log, systemHead, open, joined, members, unread, cleared, up, asked, deleting,
                     missed, revived, merged, skipped, moves>>
  BY HeadIs
<1>3. /\ Tail(inbox) \in Seq(Frames) /\ Len(Tail(inbox)) = Len(inbox) - 1 /\ Len(inbox) \in Nat
      /\ \A i \in 1..Len(Tail(inbox)) : Tail(inbox)[i] = inbox[i + 1] /\ i + 1 \in 1..Len(inbox)
  BY <1>2
<1>4. ASSUME NEW i \in 1..Len(inbox') PROVE Sound(inbox[i])'
  <2>1. i + 1 \in 1..Len(inbox) /\ inbox'[i] = inbox[i + 1]
    BY <1>2, <1>3
  <2>2. Sound(inbox[i + 1])
    BY <2>1 DEF Types, LinkTypes
  <2>3. QED BY <1>2, <2>1, <2>2 DEF Sound, Limit
<1>5. ~up => inbox' \in {<<>>, <<SocketLost>>}
  <2>1. Tail(<<SocketLost>>) = <<>>
    OBVIOUS
  <2>2. QED BY <1>2, <2>1 DEF Types, LinkTypes
<1>6. LinkTypes'
  BY <1>2, <1>3, <1>4, <1>5 DEF Types, LinkTypes
<1>7. ServerTypes'
  BY <1>2 DEF Types, ServerTypes
<1>8. QED BY <1>1, <1>6, <1>7 DEF Types

--------------------------------------------------------------------------------
(* What the server and the user do, and what they put on its way *)

\* Ids are only ever added.
Grows == \A k \in Keys : Limit(k) \in Nat /\ Limit(k)' \in Nat /\ Limit(k) <= Limit(k)'

\* A longer log, or none of it lost, is that.
LEMMA LogGrows ==
  ASSUME Types, log' \in Seq(LogRows), systemHead' \in Nat, Len(log) <= Len(log'), systemHead <= systemHead'
  PROVE  Grows
BY DEF Types, ServerTypes, Grows, Limit

\* What fitted still fits, and what was possible still is.
LEMMA StillFits ==
  ASSUME Grows, NEW k \in Keys, NEW b, Fits(k, b) PROVE Fits(k, b)'
<1>1. b.newest \in Nat /\ b.newest <= Limit(k) /\ Limit(k) \in Nat /\ Limit(k)' \in Nat /\ Limit(k) <= Limit(k)'
  BY DEF Fits, Grows, Buffer
<1>2. b.newest <= Limit(k)'
  BY <1>1
<1>3. QED BY <1>2 DEF Fits

\* So do frames.
LEMMA StillSound ==
  ASSUME Grows, NEW f \in Frames, Sound(f) PROVE Sound(f)'
<1>1. \A k \in Keys : \A i \in 1..Limit(k) : i \in 1..Limit(k)'
  BY DEF Grows
<1>2. f.kind \in {"irc", "backlog", "history"} => f.key \in Keys
  BY KindTells, KeysAre DEF IrcRows, Backlogs, Histories
<1>3. QED BY <1>1, <1>2 DEF Sound

\* With the store left alone, all in it fits on.
LEMMA StoreStays ==
  ASSUME StoreTypes, Grows, UNCHANGED client
  PROVE  /\ StoreTypes' /\ Held' = Held /\ \A k \in Keys : Seen(k)' = Seen(k)
         /\ \A k \in Held : buffers'[k] = buffers[k]
<1>1. UNCHANGED <<buffers, cursor, backlogComplete, snapshotChannels>>
  BY DEF client
<1>2. Held' = Held /\ (\A k \in Keys : Seen(k)' = Seen(k)) /\ \A k \in Held : buffers'[k] = buffers[k]
  BY <1>1 DEF Held, Seen, Touch
<1>3. \A k \in Held : Fits(k, buffers[k])'
  BY <1>1, <1>2, StillFits DEF StoreTypes
<1>4. QED BY <1>1, <1>2, <1>3 DEF StoreTypes

\* Frames that are sent arrive after those that are on their way.
LEMMA SentIs ==
  ASSUME Types, NEW s \in Seq(Frames), Send(s), Grows, \A i \in 1..Len(s) : Sound(s[i])', up' = up
  PROVE  /\ inbox' \in Seq(Frames) /\ \A i \in 1..Len(inbox') : Sound(inbox[i])'
         /\ ~up' => inbox' \in {<<>>, <<SocketLost>>}
<1>1. inbox \in Seq(Frames) /\ (\A i \in 1..Len(inbox) : Sound(inbox[i])) /\ (~up => inbox \in {<<>>, <<SocketLost>>})
  BY DEF Types, LinkTypes
<1>2. \A f \in Frames : Sound(f) => Sound(f)'
  BY StillSound
<1>3. ASSUME NEW i \in 1..Len(inbox), inbox'[i] = inbox[i] PROVE Sound(inbox[i])'
  <2>1. PICK f \in Frames : f = inbox[i]
    BY <1>1
  <2>2. Sound(f)'
    BY <1>1, <1>2, <2>1
  <2>3. QED BY <1>3, <2>1, <2>2 DEF Sound
<1>4. CASE up
  <2>1. inbox' = inbox \o s
    BY <1>4 DEF Send
  <2>2. /\ inbox \o s \in Seq(Frames) /\ Len(inbox \o s) = Len(inbox) + Len(s)
        /\ \A i \in 1..Len(inbox) + Len(s) :
             (inbox \o s)[i] = IF i <= Len(inbox) THEN inbox[i] ELSE s[i - Len(inbox)]
    BY <1>1, ConcatProperties
  <2>3. ASSUME NEW i \in 1..Len(inbox') PROVE Sound(inbox[i])'
    <3>1. Len(inbox) \in Nat /\ Len(s) \in Nat /\ i \in 1..Len(inbox) + Len(s)
      BY <1>1, <2>1, <2>2, <2>3
    <3>2. CASE i <= Len(inbox)
      <4>1. i \in 1..Len(inbox) /\ inbox'[i] = inbox[i]
        BY <2>1, <2>2, <3>1, <3>2
      <4>2. QED BY <1>3, <4>1
    <3>3. CASE ~(i <= Len(inbox))
      <4>1. i - Len(inbox) \in 1..Len(s)
        BY <3>1, <3>3
      <4>2. inbox'[i] = s[i - Len(inbox)]
        BY <2>1, <2>2, <3>1, <3>3
      <4>3. QED BY <4>1, <4>2 DEF Sound
    <3>4. QED BY <3>2, <3>3
  <2>4. QED BY <1>4, <2>1, <2>2, <2>3
<1>5. CASE ~up
  <2>1. inbox' = inbox
    BY <1>5 DEF Send
  <2>2. \A i \in 1..Len(inbox') : Sound(inbox[i])'
    BY <1>3, <2>1
  <2>3. QED BY <1>1, <2>1, <2>2
<1>6. QED BY <1>4, <1>5

\* One frame, or two
LEMMA SendOne ==
  ASSUME inbox \in Seq(Frames), NEW a \in Frames, NEW b \in Frames
  PROVE  /\ <<a>> \in Seq(Frames) /\ Len(<<a>>) = 1 /\ <<a>>[1] = a
         /\ <<a, b>> \in Seq(Frames) /\ Len(<<a, b>>) = 2 /\ <<a, b>>[1] = a /\ <<a, b>>[2] = b
         /\ Send(<<a>>) => inbox' = IF up THEN Append(inbox, a) ELSE inbox
         /\ Send(<<a, b>>) => inbox' = IF up THEN Append(Append(inbox, a), b) ELSE inbox
         /\ Append(inbox, a) \in Seq(Frames)
<1>1. inbox \o <<a>> = Append(inbox, a) /\ inbox \o <<a, b>> = Append(Append(inbox, a), b)
  OBVIOUS
<1>2. QED BY <1>1 DEF Send

\* The two at once: what is sent, and the types of the link
LEMMA SentOne ==
  ASSUME Types, NEW a \in Frames, Send(<<a>>), Grows, Sound(a)', up' = up
  PROVE  /\ inbox' = IF up THEN Append(inbox, a) ELSE inbox
         /\ inbox' \in Seq(Frames) /\ \A i \in 1..Len(inbox') : Sound(inbox[i])'
         /\ ~up' => inbox' \in {<<>>, <<SocketLost>>}
<1>1. inbox \in Seq(Frames)
  BY DEF Types, LinkTypes
<1>2. inbox' = (IF up THEN Append(inbox, a) ELSE inbox) /\ <<a>> \in Seq(Frames)
  BY <1>1, SendOne
<1>3. \A i \in 1..Len(<<a>>) : Sound(<<a>>[i])'
  BY DEF Sound
<1>4. QED BY <1>2, <1>3, SentIs

\* The same for two frames
LEMMA SentTwo ==
  ASSUME Types, NEW a \in Frames, NEW b \in Frames, Send(<<a, b>>), Grows, Sound(a)', Sound(b)', up' = up
  PROVE  /\ inbox' = IF up THEN Append(Append(inbox, a), b) ELSE inbox
         /\ inbox' \in Seq(Frames) /\ \A i \in 1..Len(inbox') : Sound(inbox[i])'
         /\ ~up' => inbox' \in {<<>>, <<SocketLost>>}
<1>1. inbox \in Seq(Frames)
  BY DEF Types, LinkTypes
<1>2. inbox' = (IF up THEN Append(Append(inbox, a), b) ELSE inbox) /\ <<a, b>> \in Seq(Frames)
  BY <1>1, SendOne
<1>3. ASSUME NEW i \in 1..Len(<<a, b>>) PROVE Sound(<<a, b>>[i])'
  <2>1. i \in {1, 2} /\ <<a, b>>[1] = a /\ <<a, b>>[2] = b
    BY <1>3
  <2>2. QED BY <2>1 DEF Sound
<1>4. QED BY <1>2, <1>3, SentIs

\* The link keeps its types while the connection and the requests stay.
LEMMA LinkStays ==
  ASSUME Types, deleting = "no", UNCHANGED <<up, asked, deleting, skipped>>,
         missed' \subseteq NetKeys, revived' \subseteq Keys,
         inbox' \in Seq(Frames), \A i \in 1..Len(inbox') : Sound(inbox[i])', ~up' => inbox' \in {<<>>, <<SocketLost>>}
  PROVE  LinkTypes'
BY DEF Types, LinkTypes

\* What goes out of a new row: its frame, and the count that a message raises
RowIsSent(key, type, nick) ==
  \E row, count \in Frames :
    /\ row = Irc(Len(log) + 1, key, type, nick) /\ count = ReadState(key, unread[key] + 1)
    /\ inbox' = IF ~up THEN inbox
                ELSE IF type = "message" THEN Append(Append(inbox, row), count) ELSE Append(inbox, row)

\* A row is added to the log, and told to who is connected; a message is counted too.
LEMMA RowSends ==
  ASSUME Types, NEW key \in NetKeys, NEW type \in {"message", "join", "part"}, NEW nick \in Nicks,
         AddRow(key, type, nick), members' \in [Channels -> SUBSET Nicks]
  PROVE  /\ Types' /\ Grows /\ deleting = "no" /\ UNCHANGED <<up, deleting, joined, cleared, missed, revived>>
         /\ Held' = Held /\ \A k \in Keys : Seen(k)' = Seen(k)
         /\ \A k \in Held : buffers'[k] = buffers[k]
         /\ open' = open \cup {key}
         /\ unread' = IF type = "message" THEN [unread EXCEPT ![key] = unread[key] + 1] ELSE unread
         /\ log' = Append(log, [key |-> key, type |-> type, nick |-> nick]) /\ Len(log') = Len(log) + 1
         /\ RowIsSent(key, type, nick)
<1>1. /\ deleting = "no" /\ UNCHANGED <<systemHead, joined, cleared, missed, revived, up, asked, deleting, skipped, client>>
      /\ open' = open \cup {key} /\ log' = Append(log, [key |-> key, type |-> type, nick |-> nick])
  BY DEF AddRow, Ready, Unchanged
<1>2. /\ log \in Seq(LogRows) /\ systemHead \in Nat /\ open \subseteq NetKeys /\ joined \subseteq Channels \cap open
      /\ unread \in [Keys -> Nat] /\ cleared \in [Keys -> Nat] /\ \A k \in NetKeys : cleared[k] <= Len(log) + 1
  BY DEF Types, ServerTypes
<1>3. key \in Keys /\ unread[key] + 1 \in Nat /\ key # System
  BY <1>2, KeysAre
<1>4. /\ log' \in Seq(LogRows) /\ Len(log') = Len(log) + 1 /\ Len(log) \in Nat
  <2>1. [key |-> key, type |-> type, nick |-> nick] \in LogRows
    BY DEF LogRows
  <2>2. QED BY <1>1, <1>2, <2>1
<1>5. Grows
  BY <1>1, <1>2, <1>4, LogGrows
<1>6. /\ StoreTypes' /\ Held' = Held /\ \A k \in Keys : Seen(k)' = Seen(k)
      /\ \A k \in Held : buffers'[k] = buffers[k]
  BY <1>1, <1>5, StoreStays DEF Types
<1>7. PICK row \in Frames : row = Irc(Len(log) + 1, key, type, nick)
  BY <1>3, <1>4, FramesAre
<1>8. PICK count \in Frames : count = ReadState(key, unread[key] + 1)
  BY <1>3, FramesAre
<1>9. Sound(row)' /\ Sound(count)'
  BY <1>3, <1>4, <1>7, <1>8 DEF Sound, Limit, Irc, ReadState
<1>10. /\ unread' = IF type = "message" THEN [unread EXCEPT ![key] = unread[key] + 1] ELSE unread
       /\ IF type = "message" THEN Send(<<row, count>>) ELSE Send(<<row>>)
  <2>1. [unread EXCEPT ![key] = @ + 1] = [unread EXCEPT ![key] = unread[key] + 1]
        /\ [unread EXCEPT ![key] = @ + 1][key] = unread[key] + 1
    BY <1>2, <1>3
  <2>2. CASE type = "message"
    BY <1>7, <1>8, <2>1, <2>2 DEF AddRow
  <2>3. CASE type # "message"
    BY <1>7, <2>3 DEF AddRow
  <2>4. QED BY <2>2, <2>3
<1>11. /\ inbox' \in Seq(Frames) /\ (\A i \in 1..Len(inbox') : Sound(inbox[i])')
       /\ (~up' => inbox' \in {<<>>, <<SocketLost>>})
       /\ inbox' = IF ~up THEN inbox
                   ELSE IF type = "message" THEN Append(Append(inbox, row), count) ELSE Append(inbox, row)
  <2>1. CASE type = "message"
    <3>1. Send(<<row, count>>)
      BY <1>10, <2>1
    <3>2. QED BY <1>1, <1>5, <1>9, <2>1, <3>1, SentTwo
  <2>2. CASE type # "message"
    <3>1. Send(<<row>>)
      BY <1>10, <2>2
    <3>2. QED BY <1>1, <1>5, <1>9, <2>2, <3>1, SentOne
  <2>3. QED BY <2>1, <2>2
<1>12. LinkTypes'
  <2>1. missed' \subseteq NetKeys /\ revived' \subseteq Keys
    BY <1>1 DEF Types, LinkTypes
  <2>2. QED BY <1>1, <1>11, <2>1, LinkStays
<1>13. ServerTypes'
  <2>1. unread' \in [Keys -> Nat]
    BY <1>2, <1>3, <1>10
  <2>2. \A k \in NetKeys : cleared'[k] <= Len(log') + 1
    BY <1>1, <1>2, <1>4, KeysAre
  <2>3. QED BY <1>1, <1>2, <1>4, <2>1, <2>2 DEF ServerTypes
<1>14. RowIsSent(key, type, nick)
  BY <1>7, <1>8, <1>11 DEF RowIsSent
<1>15. Types'
  BY <1>6, <1>12, <1>13 DEF Types
<1>16. QED BY Zenon, <1>1, <1>4, <1>5, <1>6, <1>10, <1>14, <1>15

\* What all else that the server does leaves alone
Steady ==
  /\ deleting = "no" /\ UNCHANGED <<up, deleting>>
  /\ Held' = Held /\ (\A k \in Keys : Seen(k)' = Seen(k)) /\ \A k \in Held : buffers'[k] = buffers[k]

\* What leaves the store and the link alone is that.
LEMMA SteadyIs ==
  ASSUME Types, Moving, Unchanged, Grows
  PROVE  /\ Steady /\ StoreTypes' /\ UNCHANGED <<asked, skipped>>
<1>1. deleting = "no" /\ UNCHANGED <<client, up, asked, deleting, skipped>>
  BY DEF Moving, Ready, Unchanged
<1>2. QED BY <1>1, StoreStays DEF Steady, Types

\* The user joins a channel: it is open from then on, with its members named.
LEMMA SelfJoinSends ==
  ASSUME Types, NEW c \in Channels, SelfJoin(c)
  PROVE  /\ Types' /\ Grows /\ Steady /\ c \notin joined /\ UNCHANGED <<log, unread, cleared, missed, revived>>
         /\ joined' = joined \cup {c} /\ open' = open \cup {c}
         /\ \E join, names \in Frames, nicks \in SUBSET Nicks :
              /\ join = Ephemeral(c, "channel-joined", {}) /\ names = Ephemeral(c, "names", nicks)
              /\ members' = [members EXCEPT ![c] = nicks]
              /\ inbox' = IF up THEN Append(Append(inbox, join), names) ELSE inbox
<1>1. /\ Moving /\ Unchanged /\ c \notin joined /\ UNCHANGED <<log, systemHead, unread, cleared, missed, revived>>
      /\ joined' = joined \cup {c} /\ open' = open \cup {c}
  BY DEF SelfJoin
<1>2. PICK nicks \in SUBSET Nicks :
        /\ members' = [members EXCEPT ![c] = nicks]
        /\ Send(<<Ephemeral(c, "channel-joined", {}), Ephemeral(c, "names", nicks)>>)
  BY DEF SelfJoin
<1>3. Grows
  BY <1>1, LogGrows DEF Types, ServerTypes
<1>4. Steady /\ StoreTypes' /\ UNCHANGED <<asked, skipped>>
  BY <1>1, <1>3, SteadyIs
<1>5. PICK join \in Frames : join = Ephemeral(c, "channel-joined", {})
  BY FramesAre
<1>6. PICK names \in Frames : names = Ephemeral(c, "names", nicks)
  BY FramesAre
<1>7. Sound(join)' /\ Sound(names)'
  BY <1>5, <1>6 DEF Sound, Ephemeral
<1>8. /\ inbox' = (IF up THEN Append(Append(inbox, join), names) ELSE inbox)
      /\ inbox' \in Seq(Frames) /\ (\A i \in 1..Len(inbox') : Sound(inbox[i])')
      /\ (~up' => inbox' \in {<<>>, <<SocketLost>>})
  <2>1. up' = up
    BY <1>4 DEF Steady
  <2>2. Send(<<join, names>>)
    BY <1>2, <1>5, <1>6
  <2>3. QED BY <1>3, <1>7, <2>1, <2>2, SentTwo
<1>9. LinkTypes'
  <2>1. missed' \subseteq NetKeys /\ revived' \subseteq Keys /\ deleting = "no" /\ UNCHANGED <<up, deleting, asked, skipped>>
    BY <1>1, <1>4 DEF Types, LinkTypes, Steady
  <2>2. QED BY <1>8, <2>1, LinkStays
<1>10. ServerTypes'
  <2>1. members' \in [Channels -> SUBSET Nicks]
    BY <1>2 DEF Types, ServerTypes
  <2>2. QED BY <1>1, <2>1, KeysAre DEF Types, ServerTypes
<1>11. QED BY <1>1, <1>2, <1>3, <1>4, <1>5, <1>6, <1>8, <1>9, <1>10 DEF Types

\* The user leaves one.
LEMMA SelfPartSends ==
  ASSUME Types, NEW c \in Channels, SelfPart(c)
  PROVE  /\ Types' /\ Grows /\ Steady /\ c \in joined /\ UNCHANGED <<log, open, unread, cleared, missed, revived>>
         /\ joined' = joined \ {c} /\ members' = [members EXCEPT ![c] = {}]
         /\ \E part \in Frames :
              /\ part = Ephemeral(c, "channel-parted", {})
              /\ inbox' = IF up THEN Append(inbox, part) ELSE inbox
<1>1. /\ Moving /\ Unchanged /\ c \in joined /\ UNCHANGED <<log, systemHead, open, unread, cleared, missed, revived>>
      /\ joined' = joined \ {c} /\ members' = [members EXCEPT ![c] = {}]
      /\ Send(<<Ephemeral(c, "channel-parted", {})>>)
  BY DEF SelfPart
<1>2. Grows
  BY <1>1, LogGrows DEF Types, ServerTypes
<1>3. Steady /\ StoreTypes' /\ UNCHANGED <<asked, skipped>>
  BY <1>1, <1>2, SteadyIs
<1>4. PICK part \in Frames : part = Ephemeral(c, "channel-parted", {})
  BY FramesAre
<1>5. Sound(part)'
  BY <1>4 DEF Sound, Ephemeral
<1>6. /\ inbox' = (IF up THEN Append(inbox, part) ELSE inbox)
      /\ inbox' \in Seq(Frames) /\ (\A i \in 1..Len(inbox') : Sound(inbox[i])')
      /\ (~up' => inbox' \in {<<>>, <<SocketLost>>})
  <2>1. up' = up
    BY <1>3 DEF Steady
  <2>2. Send(<<part>>)
    BY <1>1, <1>4
  <2>3. QED BY <1>2, <1>5, <2>1, <2>2, SentOne
<1>7. LinkTypes'
  <2>1. missed' \subseteq NetKeys /\ revived' \subseteq Keys /\ deleting = "no" /\ UNCHANGED <<up, deleting, asked, skipped>>
    BY <1>1, <1>3 DEF Types, LinkTypes, Steady
  <2>2. QED BY <1>6, <2>1, LinkStays
<1>8. ServerTypes'
  <2>1. members' \in [Channels -> SUBSET Nicks]
    BY <1>1 DEF Types, ServerTypes
  <2>2. QED BY <1>1, <2>1 DEF Types, ServerTypes
<1>9. QED BY <1>1, <1>2, <1>3, <1>4, <1>6, <1>7, <1>8 DEF Types

\* One frame and then another are two.
LEMMA OneThenOne ==
  ASSUME NEW a, NEW b PROVE <<a>> \o <<b>> = <<a, b>>
<1>1. <<a>> \in Seq({a, b}) /\ <<b>> \in Seq({a, b}) /\ <<a, b>> \in Seq({a, b})
  OBVIOUS
<1>2. \A i \in 1..2 : (<<a>> \o <<b>>)[i] = <<a, b>>[i]
  OBVIOUS
<1>3. <<a>> \o <<b>> \in Seq({a, b}) /\ Len(<<a>> \o <<b>>) = 2 /\ Len(<<a, b>>) = 2
  OBVIOUS
<1>4. QED BY <1>1, <1>2, <1>3, SeqEqual

\* A conversation is closed.
LEMMA CloseSends ==
  ASSUME Types, NEW key \in NetKeys, Close(key)
  PROVE  /\ Types' /\ Grows /\ Steady /\ key \in open /\ UNCHANGED <<log, cleared, revived>>
         /\ open' = open \ {key} /\ joined' = joined \ {key} /\ unread' = [unread EXCEPT ![key] = 0]
         /\ members' = IF key \in joined THEN [members EXCEPT ![key] = {}] ELSE members
         /\ missed' = IF up THEN missed ELSE missed \cup {key}
         /\ \E closed \in Frames :
              /\ closed = Closed(key)
              /\ key \notin joined => inbox' = IF up THEN Append(inbox, closed) ELSE inbox
              /\ key \in joined => \E part \in Frames :
                   /\ part = Ephemeral(key, "channel-parted", {})
                   /\ inbox' = IF up THEN Append(Append(inbox, closed), part) ELSE inbox
<1>1. /\ Moving /\ Unchanged /\ key \in open /\ UNCHANGED <<log, systemHead, cleared, revived>>
      /\ open' = open \ {key} /\ joined' = joined \ {key} /\ unread' = [unread EXCEPT ![key] = 0]
      /\ members' = (IF key \in joined THEN [members EXCEPT ![key] = {}] ELSE members)
      /\ missed' = (IF up THEN missed ELSE missed \cup {key})
      /\ Send(<<Closed(key)>> \o IF key \in joined THEN <<Ephemeral(key, "channel-parted", {})>> ELSE <<>>)
  BY DEF Close, MissedIfDown
<1>2. Grows
  BY <1>1, LogGrows DEF Types, ServerTypes
<1>3. Steady /\ StoreTypes' /\ UNCHANGED <<asked, skipped>> /\ up' = up
  BY <1>1, <1>2, SteadyIs DEF Steady
<1>4. PICK closed \in Frames : closed = Closed(key)
  BY FramesAre
<1>5. Sound(closed)'
  BY <1>4 DEF Sound, Closed
<1>6. /\ inbox' \in Seq(Frames) /\ (\A i \in 1..Len(inbox') : Sound(inbox[i])')
      /\ (~up' => inbox' \in {<<>>, <<SocketLost>>})
      /\ key \notin joined => inbox' = (IF up THEN Append(inbox, closed) ELSE inbox)
      /\ key \in joined => \E part \in Frames :
           /\ part = Ephemeral(key, "channel-parted", {})
           /\ inbox' = IF up THEN Append(Append(inbox, closed), part) ELSE inbox
  <2>1. CASE key \notin joined
    <3>1. <<closed>> \o <<>> = <<closed>>
      OBVIOUS
    <3>2. Send(<<closed>>)
      BY <1>1, <1>4, <2>1, <3>1
    <3>3. QED BY <1>2, <1>3, <1>5, <2>1, <3>2, SentOne
  <2>2. CASE key \in joined
    <3>1. key \in Channels
      BY <2>2 DEF Types, ServerTypes
    <3>2. PICK part \in Frames : part = Ephemeral(key, "channel-parted", {})
      BY <3>1, FramesAre
    <3>3. Sound(part)'
      BY <3>2 DEF Sound, Ephemeral
    <3>4. <<closed>> \o <<part>> = <<closed, part>>
      BY OneThenOne
    <3>5. Send(<<closed, part>>)
      BY <1>1, <1>4, <2>2, <3>2, <3>4
    <3>6. QED BY <1>2, <1>3, <1>5, <2>2, <3>2, <3>3, <3>5, SentTwo
  <2>3. QED BY <2>1, <2>2
<1>7. LinkTypes'
  <2>1. missed' \subseteq NetKeys /\ revived' \subseteq Keys /\ deleting = "no" /\ UNCHANGED <<up, deleting, asked, skipped>>
    BY <1>1, <1>3 DEF Types, LinkTypes, Steady
  <2>2. QED BY <1>6, <2>1, LinkStays
<1>8. ServerTypes'
  <2>1. members' \in [Channels -> SUBSET Nicks] /\ unread' \in [Keys -> Nat]
    BY <1>1 DEF Types, ServerTypes
  <2>2. QED BY <1>1, <2>1 DEF Types, ServerTypes
<1>9. QED BY <1>1, <1>2, <1>3, <1>4, <1>6, <1>7, <1>8 DEF Types

\* What the server says of a conversation in a burst or a shell
LEMMA BacklogIs ==
  ASSUME Types, NEW k \in Keys, NEW mode \in {"shell", "append", "replace"}, NEW rows, rows \subseteq 1..Limit(k)
  PROVE  /\ Backlog(k, mode, rows) \in Frames /\ Sound(Backlog(k, mode, rows))
         /\ Backlog(k, mode, rows).kind = "backlog" /\ Backlog(k, mode, rows).key = k
         /\ Backlog(k, mode, rows).joined = (k \in joined) /\ Backlog(k, mode, rows).unread = unread[k]
         /\ Backlog(k, mode, rows).rows = rows /\ Backlog(k, mode, rows).mode = mode
<1>1. unread[k] \in Nat /\ cleared[k] \in Nat /\ joined \subseteq Channels /\ rows \in SUBSET Nat
  BY DEF Types, ServerTypes, Limit
<1>2. /\ Backlog(k, mode, rows) \in Backlogs
      /\ Backlog(k, mode, rows).kind = "backlog" /\ Backlog(k, mode, rows).key = k
      /\ Backlog(k, mode, rows).joined = (k \in joined) /\ Backlog(k, mode, rows).unread = unread[k]
      /\ Backlog(k, mode, rows).rows = rows /\ Backlog(k, mode, rows).mode = mode
  BY <1>1 DEF Backlog, Backlogs
<1>3. Sound(Backlog(k, mode, rows))
  BY <1>1, <1>2 DEF Sound
<1>4. QED BY <1>2, <1>3 DEF Frames

\* A conversation is opened.
LEMMA OpenSends ==
  ASSUME Types, NEW key \in NetKeys, Open(key)
  PROVE  /\ Types' /\ Grows /\ Steady /\ key \notin open /\ UNCHANGED <<log, joined, members, unread, cleared, missed, revived>>
         /\ open' = open \cup {key}
         /\ \E shell, opened \in Frames :
              /\ opened = Opened(key) /\ shell.kind = "backlog" /\ shell.key = key /\ shell.mode = "shell" /\ shell.rows = {}
              /\ shell.joined = (key \in joined) /\ shell.unread = unread[key]
              /\ inbox' = IF up THEN Append(Append(inbox, shell), opened) ELSE inbox
<1>1. /\ Moving /\ Unchanged /\ key \notin open
      /\ UNCHANGED <<log, systemHead, joined, members, unread, cleared, missed, revived>>
      /\ open' = open \cup {key} /\ Send(<<Backlog(key, "shell", {}), Opened(key)>>)
  BY DEF Open
<1>2. Grows
  BY <1>1, LogGrows DEF Types, ServerTypes
<1>3. Steady /\ StoreTypes' /\ UNCHANGED <<asked, skipped>> /\ up' = up
  BY <1>1, <1>2, SteadyIs DEF Steady
<1>4. key \in Keys
  BY KeysAre
<1>5. PICK shell \in Frames : shell = Backlog(key, "shell", {}) /\ Sound(shell)
  BY <1>4, BacklogIs
<1>6. /\ shell.kind = "backlog" /\ shell.key = key /\ shell.mode = "shell" /\ shell.rows = {}
      /\ shell.joined = (key \in joined) /\ shell.unread = unread[key]
  BY <1>4, <1>5, BacklogIs
<1>7. PICK opened \in Frames : opened = Opened(key)
  BY FramesAre
<1>8. Sound(shell)' /\ Sound(opened)'
  <2>1. Sound(shell)'
    BY <1>2, <1>5, StillSound
  <2>2. Sound(opened)'
    BY <1>7 DEF Sound, Opened
  <2>3. QED BY <2>1, <2>2
<1>9. Send(<<shell, opened>>)
  BY <1>1, <1>5, <1>7
<1>10. /\ inbox' = (IF up THEN Append(Append(inbox, shell), opened) ELSE inbox)
       /\ inbox' \in Seq(Frames) /\ (\A i \in 1..Len(inbox') : Sound(inbox[i])')
       /\ (~up' => inbox' \in {<<>>, <<SocketLost>>})
  BY <1>2, <1>3, <1>8, <1>9, SentTwo
<1>11. LinkTypes'
  <2>1. missed' \subseteq NetKeys /\ revived' \subseteq Keys /\ deleting = "no" /\ UNCHANGED <<up, deleting, asked, skipped>>
    BY <1>1, <1>3 DEF Types, LinkTypes, Steady
  <2>2. QED BY <1>10, <2>1, LinkStays
<1>12. ServerTypes'
  BY <1>1 DEF Types, ServerTypes
<1>13. QED BY <1>1, <1>2, <1>3, <1>6, <1>7, <1>10, <1>11, <1>12 DEF Types

\* A user is renamed: the rows and what is unread go to the new name.
LEMMA RenameSends ==
  ASSUME Types, NEW from \in Queries, NEW to \in Queries, Rename(from, to)
  PROVE  /\ Types' /\ Grows /\ Steady /\ from # to /\ from \in open /\ UNCHANGED <<joined, members, cleared, revived>>
         /\ open' = (open \ {from}) \cup {to} /\ cleared[from] = 0 /\ cleared[to] = 0
         /\ DOMAIN log' = DOMAIN log /\ Len(log') = Len(log)
         /\ \A id \in DOMAIN log : log'[id].key = IF log[id].key = from THEN to ELSE log[id].key
         /\ unread'[to] = unread[to] + unread[from] /\ unread'[from] = 0
         /\ \A k \in Keys : k \notin {from, to} => unread'[k] = unread[k]
         /\ missed' = IF up /\ from \notin missed THEN missed ELSE missed \cup {from, to}
         /\ \E renamed, count \in Frames :
              /\ renamed = Renamed(from, to) /\ count = ReadState(to, unread[to] + unread[from])
              /\ inbox' = IF up THEN Append(Append(inbox, renamed), count) ELSE inbox
<1> DEFINE Moved(r) == IF r.key = from THEN [r EXCEPT !.key = to] ELSE r
<1>1. /\ Moving /\ Unchanged /\ from # to /\ from \in open
      /\ cleared[from] = 0 /\ cleared[to] = 0
      /\ UNCHANGED <<systemHead, joined, members, cleared, revived>>
      /\ log' = [id \in DOMAIN log |-> Moved(log[id])]
      /\ open' = (open \ {from}) \cup {to}
      /\ unread' = [unread EXCEPT ![to] = @ + unread[from], ![from] = 0]
      /\ missed' = (IF up /\ from \notin missed THEN missed ELSE missed \cup {from, to})
      /\ Send(<<Renamed(from, to), ReadState(to, unread'[to])>>)
  BY DEF Rename, NoId
<1>2. /\ log \in Seq(LogRows) /\ DOMAIN log = 1..Len(log) /\ Len(log) \in Nat /\ systemHead \in Nat
      /\ unread \in [Keys -> Nat]
  BY DEF Types, ServerTypes
<1>3. from \in NetKeys /\ to \in NetKeys /\ from \in Keys /\ to \in Keys /\ from \notin Channels /\ to \notin Channels
  BY KeysAre
<1>4. ASSUME NEW r \in LogRows
      PROVE  Moved(r) \in LogRows /\ Moved(r).key = IF r.key = from THEN to ELSE r.key
  BY <1>3, <1>4 DEF LogRows
<1> HIDE DEF Moved
<1>5. /\ log' \in Seq(LogRows) /\ Len(log') = Len(log) /\ DOMAIN log' = DOMAIN log
      /\ \A id \in DOMAIN log : log'[id].key = IF log[id].key = from THEN to ELSE log[id].key
  <2>1. \A id \in DOMAIN log : log[id] \in LogRows
    BY <1>2
  <2>2. log' \in [1..Len(log) -> LogRows]
    BY <1>1, <1>2, <1>4, <2>1
  <2>3. log' \in Seq(LogRows) /\ Len(log') = Len(log) /\ DOMAIN log' = DOMAIN log
    BY <1>2, <2>2
  <2>4. \A id \in DOMAIN log : log'[id] = Moved(log[id])
    BY <1>1
  <2>5. QED BY <1>4, <2>1, <2>3, <2>4
<1>6. Grows
  BY <1>1, <1>2, <1>5, LogGrows
<1>7. Steady /\ StoreTypes' /\ UNCHANGED <<asked, skipped>> /\ up' = up
  BY <1>1, <1>6, SteadyIs DEF Steady
<1>8. /\ unread' \in [Keys -> Nat] /\ unread'[to] = unread[to] + unread[from] /\ unread'[from] = 0
      /\ \A k \in Keys : k \notin {from, to} => unread'[k] = unread[k]
      /\ unread[to] + unread[from] \in Nat
  <2>1. unread[to] \in Nat /\ unread[from] \in Nat /\ from # to
    BY <1>1, <1>2, <1>3
  <2>2. PICK sum \in Nat : sum = unread[to] + unread[from]
    BY <2>1
  <2>3. unread' = [unread EXCEPT ![to] = sum, ![from] = 0]
    BY <1>1, <1>2, <1>3, <2>2
  <2>4. unread' \in [Keys -> Nat] /\ unread'[to] = sum /\ unread'[from] = 0
    BY <1>2, <1>3, <2>1, <2>3
  <2>5. \A k \in Keys : k \notin {from, to} => unread'[k] = unread[k]
    BY <1>2, <2>3
  <2>6. QED BY <2>2, <2>4, <2>5
<1>9. PICK renamed \in Frames : renamed = Renamed(from, to)
  BY <1>1, FramesAre
<1>10. PICK count \in Frames : count = ReadState(to, unread[to] + unread[from])
  BY <1>3, <1>8, FramesAre
<1>11. Sound(renamed)' /\ Sound(count)'
  BY <1>9, <1>10 DEF Sound, Renamed, ReadState
<1>12. Send(<<renamed, count>>)
  BY <1>1, <1>8, <1>9, <1>10
<1>13. /\ inbox' = (IF up THEN Append(Append(inbox, renamed), count) ELSE inbox)
       /\ inbox' \in Seq(Frames) /\ (\A i \in 1..Len(inbox') : Sound(inbox[i])')
       /\ (~up' => inbox' \in {<<>>, <<SocketLost>>})
  BY <1>6, <1>7, <1>11, <1>12, SentTwo
<1>14. LinkTypes'
  <2>1. missed' \subseteq NetKeys /\ revived' \subseteq Keys /\ deleting = "no" /\ UNCHANGED <<up, deleting, asked, skipped>>
    BY <1>1, <1>3, <1>7 DEF Types, LinkTypes, Steady
  <2>2. QED BY <1>13, <2>1, LinkStays
<1>15. ServerTypes'
  <2>1. open' \subseteq NetKeys /\ joined' \subseteq Channels \cap open'
    BY <1>1, <1>3 DEF Types, ServerTypes
  <2>2. \A k \in NetKeys : cleared'[k] <= Len(log') + 1
    BY <1>1, <1>5 DEF Types, ServerTypes
  <2>3. QED BY <1>1, <1>5, <1>8, <2>1, <2>2 DEF Types, ServerTypes
<1>16. QED BY <1>1, <1>5, <1>6, <1>7, <1>8, <1>9, <1>10, <1>13, <1>14, <1>15 DEF Types

\* The rows of a conversation are rows that there are.
LEMMA RowsAre ==
  ASSUME Types, NEW k \in Keys PROVE RowsOf(k) \subseteq 1..Limit(k)
<1>1. DOMAIN log = 1..Len(log)
  BY DEF Types, ServerTypes
<1>2. QED BY <1>1 DEF RowsOf, Limit

\* A conversation is cleared.
LEMMA ClearSends ==
  ASSUME Types, NEW key \in NetKeys, Clear(key)
  PROVE  /\ Types' /\ Grows /\ Steady /\ key \in open /\ UNCHANGED <<log, open, joined, members, revived>>
         /\ unread' = [unread EXCEPT ![key] = 0] /\ cleared' = [cleared EXCEPT ![key] = Len(log) + 1]
         /\ missed' = IF up THEN missed ELSE missed \cup {key}
         /\ \E clear, count \in Frames :
              /\ clear = Cleared(key, Len(log) + 1) /\ count = ReadState(key, 0)
              /\ inbox' = IF up THEN Append(Append(inbox, clear), count) ELSE inbox
<1>1. /\ Moving /\ Unchanged /\ key \in open /\ UNCHANGED <<log, systemHead, open, joined, members, revived>>
      /\ unread' = [unread EXCEPT ![key] = 0] /\ cleared' = [cleared EXCEPT ![key] = Len(log) + 1]
      /\ missed' = (IF up THEN missed ELSE missed \cup {key})
      /\ Send(<<Cleared(key, Len(log) + 1), ReadState(key, 0)>>)
  BY DEF Clear, MissedIfDown
<1>2. Grows /\ Len(log) + 1 \in Nat
  BY <1>1, LogGrows DEF Types, ServerTypes
<1>3. Steady /\ StoreTypes' /\ UNCHANGED <<asked, skipped>> /\ up' = up
  BY <1>1, <1>2, SteadyIs DEF Steady
<1>4. PICK clear \in Frames : clear = Cleared(key, Len(log) + 1)
  BY <1>2, FramesAre
<1>5. PICK count \in Frames : count = ReadState(key, 0)
  BY FramesAre
<1>6. Sound(clear)' /\ Sound(count)'
  BY <1>4, <1>5 DEF Sound, Cleared, ReadState
<1>7. Send(<<clear, count>>)
  BY <1>1, <1>4, <1>5
<1>8. /\ inbox' = (IF up THEN Append(Append(inbox, clear), count) ELSE inbox)
      /\ inbox' \in Seq(Frames) /\ (\A i \in 1..Len(inbox') : Sound(inbox[i])')
      /\ (~up' => inbox' \in {<<>>, <<SocketLost>>})
  BY <1>2, <1>3, <1>6, <1>7, SentTwo
<1>9. LinkTypes'
  <2>1. missed' \subseteq NetKeys /\ revived' \subseteq Keys /\ deleting = "no" /\ UNCHANGED <<up, deleting, asked, skipped>>
    BY <1>1, <1>3 DEF Types, LinkTypes, Steady
  <2>2. QED BY <1>8, <2>1, LinkStays
<1>10. ServerTypes'
  <2>1. unread' \in [Keys -> Nat] /\ cleared' \in [Keys -> Nat]
    BY <1>1, <1>2 DEF Types, ServerTypes
  <2>2. \A k \in NetKeys : cleared'[k] <= Len(log') + 1
    BY <1>1, <1>2, KeysAre DEF Types, ServerTypes
  <2>3. QED BY <1>1, <2>1, <2>2 DEF Types, ServerTypes
<1>11. QED BY <1>1, <1>2, <1>3, <1>4, <1>5, <1>8, <1>9, <1>10 DEF Types

\* All is marked read, which every conversation with rows is told.
LEMMA MarkSends ==
  ASSUME Types, MarkAllRead
  PROVE  /\ Types' /\ Grows /\ Steady /\ UNCHANGED <<log, open, joined, members, cleared, missed, revived>>
         /\ \A k \in Keys : unread'[k] = 0
         /\ \E s \in Seq(Frames) :
              /\ inbox' = IF up THEN inbox \o s ELSE inbox
              /\ \A i \in 1..Len(s) : \E k \in NetKeys : s[i] = ReadState(k, 0)
              /\ \A k \in NetKeys : RowsOf(k) # {} => \E i \in 1..Len(s) : s[i] = ReadState(k, 0)
<1> DEFINE S == {key \in NetKeys : RowsOf(key) # {}}
           order == SetToSeq(S)
           s == [i \in DOMAIN order |-> ReadState(order[i], 0)]
<1>1. /\ Moving /\ Unchanged /\ UNCHANGED <<log, systemHead, open, joined, members, cleared, missed, revived>>
      /\ unread' = [key \in Keys |-> 0] /\ Send(s)
  BY Zenon DEF MarkAllRead
<1>2. Grows
  BY <1>1, LogGrows DEF Types, ServerTypes
<1>3. Steady /\ StoreTypes' /\ UNCHANGED <<asked, skipped>> /\ up' = up
  BY <1>1, <1>2, SteadyIs DEF Steady
<1>4. IsFiniteSet(S)
  BY KeysAre
<1>5. /\ order \in Seq(S) /\ DOMAIN order = 1..Len(order)
      /\ \A k \in S : \E i \in 1..Len(order) : order[i] = k
  BY Zenon, <1>4, OrderIs
<1> HIDE DEF order
<1>6. \A i \in 1..Len(order) : order[i] \in S /\ ReadState(order[i], 0) \in Frames
  BY <1>5, FramesAre
<1>7. /\ s \in Seq(Frames) /\ Len(s) = Len(order)
      /\ \A i \in 1..Len(s) : order[i] \in NetKeys /\ s[i] = ReadState(order[i], 0)
  <2>1. Len(order) \in Nat
    BY <1>5
  <2>2. s \in [1..Len(order) -> Frames]
    BY <1>5, <1>6
  <2>3. QED BY <1>5, <1>6, <2>1, <2>2
<1>8. PICK t \in Seq(Frames) : t = s
  BY <1>7
<1>9. \A i \in 1..Len(t) : \E k \in NetKeys : t[i] = ReadState(k, 0)
  BY <1>7, <1>8
<1>10. \A k \in NetKeys : RowsOf(k) # {} => \E i \in 1..Len(t) : t[i] = ReadState(k, 0)
  BY <1>5, <1>7, <1>8
<1>11. ASSUME NEW i \in 1..Len(t) PROVE Sound(t[i])'
  <2>1. PICK k \in NetKeys : t[i] = ReadState(k, 0)
    BY <1>9
  <2>2. QED BY <2>1 DEF Sound, ReadState
<1>12. /\ inbox' \in Seq(Frames) /\ (\A i \in 1..Len(inbox') : Sound(inbox[i])')
       /\ (~up' => inbox' \in {<<>>, <<SocketLost>>}) /\ inbox' = (IF up THEN inbox \o t ELSE inbox)
  BY <1>1, <1>2, <1>3, <1>8, <1>11, SentIs DEF Send
<1>13. LinkTypes'
  <2>1. missed' \subseteq NetKeys /\ revived' \subseteq Keys /\ deleting = "no" /\ UNCHANGED <<up, deleting, asked, skipped>>
    BY <1>1, <1>3 DEF Types, LinkTypes, Steady
  <2>2. QED BY <1>12, <2>1, LinkStays
<1>14. ServerTypes'
  <2>1. unread' \in [Keys -> Nat]
    BY <1>1
  <2>2. QED BY <1>1, <2>1 DEF Types, ServerTypes
<1>15. QED BY <1>1, <1>2, <1>3, <1>9, <1>10, <1>12, <1>13, <1>14 DEF Types

\* A row of the system buffer
LEMMA SystemSends ==
  ASSUME Types, SystemRow
  PROVE  /\ Types' /\ Grows /\ Steady /\ UNCHANGED <<log, open, joined, members, unread, cleared, missed, revived>>
         /\ \E row \in Frames :
              /\ row = Irc(systemHead + 1, System, "message", NoId)
              /\ inbox' = IF up THEN Append(inbox, row) ELSE inbox
<1>1. /\ Moving /\ Unchanged /\ UNCHANGED <<log, open, joined, members, unread, cleared, missed, revived>>
      /\ systemHead' = systemHead + 1 /\ Send(<<Irc(systemHead + 1, System, "message", NoId)>>)
  BY DEF SystemRow
<1>2. Grows /\ systemHead + 1 \in Nat
  BY <1>1, LogGrows DEF Types, ServerTypes
<1>3. Steady /\ StoreTypes' /\ UNCHANGED <<asked, skipped>> /\ up' = up
  BY <1>1, <1>2, SteadyIs DEF Steady
<1>4. PICK row \in Frames : row = Irc(systemHead + 1, System, "message", NoId)
  BY <1>2, KeysAre, FramesAre
<1>5. Sound(row)'
  BY <1>1, <1>2, <1>4 DEF Sound, Irc, Limit, Types, ServerTypes
<1>6. Send(<<row>>)
  BY <1>1, <1>4
<1>7. /\ inbox' = (IF up THEN Append(inbox, row) ELSE inbox)
      /\ inbox' \in Seq(Frames) /\ (\A i \in 1..Len(inbox') : Sound(inbox[i])')
      /\ (~up' => inbox' \in {<<>>, <<SocketLost>>})
  BY <1>2, <1>3, <1>5, <1>6, SentOne
<1>8. LinkTypes'
  <2>1. missed' \subseteq NetKeys /\ revived' \subseteq Keys /\ deleting = "no" /\ UNCHANGED <<up, deleting, asked, skipped>>
    BY <1>1, <1>3 DEF Types, LinkTypes, Steady
  <2>2. QED BY <1>7, <2>1, LinkStays
<1>9. ServerTypes'
  BY <1>1, <1>2 DEF Types, ServerTypes
<1>10. QED BY <1>1, <1>2, <1>3, <1>4, <1>7, <1>8, <1>9 DEF Types

\* What a burst's slice says of k
Tells(f, k) ==
  /\ f \in Frames /\ f.kind = "backlog" /\ f.key = k
  /\ f.joined = (k \in joined) /\ f.unread = unread[k]

\* What a frame is that has no part in the conversations
Mark(f) == f \in Frames /\ f.kind \in {"lost", "backlog-complete"}

\* A burst: a snapshot of the joined channels, then the slices of all that is open.
LEMMA ConnectSends ==
  ASSUME Types, Connect
  PROVE  /\ Types' /\ ~up /\ up' /\ UNCHANGED <<client, server, deleting, missed, revived>>
         /\ \E snap \in Frames, at \in 1..Len(inbox') :
              /\ inbox'[at] = snap /\ snap.kind = "snapshot"
              /\ DOMAIN snap.channels = joined /\ \A c \in joined : snap.channels[c] = members[c]
              /\ \A i \in 1..Len(inbox') : \/ i = at
                                           \/ Mark(inbox'[i])
                                           \/ i > at /\ \E k \in open \cup {System} : Tells(inbox'[i], k)
              /\ \A k \in open \cup {System} : \E i \in 1..Len(inbox') : i > at /\ Tells(inbox'[i], k)
<1>1. /\ ~up /\ up' = TRUE
      /\ UNCHANGED <<client, server, asked, deleting, missed, revived, skipped>>
  BY DEF Connect
<1>2. inbox \in {<<>>, <<SocketLost>>} /\ inbox \in Seq(Frames) /\ \A i \in 1..Len(inbox) : Sound(inbox[i])
  BY <1>1 DEF Types, LinkTypes
<1>3. PICK last \in open \cup {System} :
        LET order == Append(SetToSeq((open \cup {System}) \ {last}), last)
        IN  inbox' = inbox \o <<Snapshot(cursor)>>
                       \o [i \in DOMAIN order |-> BacklogSince(cursor, order[i])]
                       \o <<Complete>>
  BY DEF Connect
<1> DEFINE S == (open \cup {System}) \ {last}
           order == Append(SetToSeq(S), last)
           s == [i \in DOMAIN order |-> BacklogSince(cursor, order[i])]
           snap == Snapshot(cursor)
<1>4. /\ open \subseteq NetKeys /\ joined \subseteq Channels /\ members \in [Channels -> SUBSET Nicks]
      /\ log \in Seq(LogRows) /\ cursor \in Nat /\ Len(log) \in Nat
  BY DEF Types, ServerTypes, StoreTypes
<1>5. IsFiniteSet(S)
  <2>1. IsFiniteSet(open \cup {System})
    BY <1>4, KeysAre
  <2>2. QED BY Zenon, <2>1, FS_RemoveElement
<1>6. /\ order \in Seq(open \cup {System}) /\ DOMAIN order = 1..Len(order) /\ Len(order) \in Nat
      /\ \A k \in open \cup {System} : \E i \in 1..Len(order) : order[i] = k
  <2> DEFINE o == SetToSeq(S)
  <2>1. o \in Seq(S) /\ \A x \in S : \E i \in 1..Len(o) : o[i] = x
    BY Zenon, <1>5, OrderIs
  <2> HIDE DEF o
  <2>2. o \in Seq(open \cup {System})
    BY <2>1
  <2>3. /\ Append(o, last) \in Seq(open \cup {System}) /\ Len(Append(o, last)) = Len(o) + 1 /\ Len(o) \in Nat
        /\ Append(o, last)[Len(o) + 1] = last /\ \A i \in 1..Len(o) : Append(o, last)[i] = o[i]
        /\ DOMAIN Append(o, last) = 1..(Len(o) + 1)
    BY <2>2
  <2>4. ASSUME NEW k \in open \cup {System} PROVE \E i \in 1..(Len(o) + 1) : Append(o, last)[i] = k
    <3>1. CASE k = last
      BY <2>3, <3>1
    <3>2. CASE k # last
      <4>1. PICK i \in 1..Len(o) : o[i] = k
        BY <2>1, <2>4, <3>2
      <4>2. i \in 1..(Len(o) + 1)
        BY <2>3
      <4>3. QED BY <2>3, <4>1, <4>2
    <3>3. QED BY <3>1, <3>2
  <2>5. order = Append(o, last)
    BY Zenon DEF o
  <2> HIDE DEF order
  <2>6. /\ order \in Seq(open \cup {System}) /\ Len(order) = Len(o) + 1 /\ Len(order) \in Nat
        /\ DOMAIN order = 1..Len(order)
    BY <2>3, <2>5
  <2>7. \A k \in open \cup {System} : \E i \in 1..Len(order) : order[i] = k
    BY Zenon, <2>4, <2>5, <2>6
  <2>8. QED BY <2>6, <2>7
<1> HIDE DEF order
<1>7. ASSUME NEW k \in open \cup {System} PROVE Tells(BacklogSince(cursor, k), k) /\ Sound(BacklogSince(cursor, k))
  <2>1. k \in Keys /\ RowsOf(k) \subseteq 1..Limit(k) /\ {id \in RowsOf(k) : id > cursor} \subseteq 1..Limit(k)
    BY <1>4, KeysAre, RowsAre
  <2>2. {} \subseteq 1..Limit(k)
    OBVIOUS
  <2>3. CASE k = System
    <3>1. BacklogSince(cursor, k) = Backlog(k, "replace", RowsOf(k))
      BY <2>3 DEF BacklogSince
    <3>2. QED BY <2>1, <3>1, BacklogIs DEF Tells
  <2>4. CASE k # System /\ cursor = 0
    <3>1. BacklogSince(cursor, k) = Backlog(k, "shell", {})
      BY <2>4 DEF BacklogSince
    <3>2. QED BY <2>1, <2>2, <3>1, BacklogIs DEF Tells
  <2>5. CASE k # System /\ cursor # 0
    <3>1. BacklogSince(cursor, k) = Backlog(k, "append", {id \in RowsOf(k) : id > cursor})
      BY <2>5 DEF BacklogSince
    <3>2. QED BY <2>1, <3>1, BacklogIs DEF Tells
  <2>6. QED BY <2>3, <2>4, <2>5
<1>8. /\ s \in Seq(Frames) /\ Len(s) = Len(order) /\ \A i \in 1..Len(s) : s[i] = BacklogSince(cursor, order[i])
  <2>1. \A i \in 1..Len(order) : order[i] \in open \cup {System}
    BY <1>6
  <2>2. \A i \in 1..Len(order) : BacklogSince(cursor, order[i]) \in Frames
    BY <1>7, <2>1 DEF Tells
  <2>3. s \in [1..Len(order) -> Frames]
    BY <1>6, <2>2
  <2>4. QED BY <1>6, <2>3
<1>9. /\ \A i \in 1..Len(s) : Sound(s[i]) /\ \E k \in open \cup {System} : Tells(s[i], k)
      /\ \A k \in open \cup {System} : \E i \in 1..Len(s) : Tells(s[i], k)
  <2> HIDE DEF s
  <2>1. ASSUME NEW i \in 1..Len(s) PROVE Sound(s[i]) /\ \E k \in open \cup {System} : Tells(s[i], k)
    <3>1. order[i] \in open \cup {System} /\ s[i] = BacklogSince(cursor, order[i])
      BY <1>6, <1>8, <2>1
    <3>2. QED BY <1>7, <3>1
  <2>2. ASSUME NEW k \in open \cup {System} PROVE \E i \in 1..Len(s) : Tells(s[i], k)
    <3>1. PICK i \in 1..Len(s) : order[i] = k
      BY <1>6, <1>8
    <3>2. s[i] = BacklogSince(cursor, k)
      BY <1>8, <3>1
    <3>3. QED BY <1>7, <3>2
  <2>3. QED BY <2>1, <2>2
<1>10. /\ snap \in Frames /\ snap.kind = "snapshot" /\ Sound(snap)
       /\ DOMAIN snap.channels = joined /\ \A c \in joined : snap.channels[c] = members[c]
  <2>1. [c \in joined |-> members[c]] \in Rosters
    <3>1. [c \in joined |-> members[c]] \in [joined -> SUBSET Nicks]
      BY <1>4
    <3>2. QED BY <1>4, <3>1 DEF Rosters
  <2>2. (IF cursor = 0 THEN Len(log) ELSE 0) \in Nat
    BY <1>4
  <2>3. snap \in Snapshots /\ snap.kind = "snapshot" /\ snap.channels = [c \in joined |-> members[c]]
    BY <2>1, <2>2 DEF Snapshot, Snapshots
  <2>4. QED BY <2>3 DEF Frames, Sound
<1>11. Mark(Complete) /\ Sound(Complete) /\ Complete \in Frames /\ Mark(SocketLost)
  BY FramesAre DEF Mark, Sound, Complete, SocketLost
<1>12. PICK q \in Seq(Frames), f \in Frames, n \in {0, 1} :
         /\ q = s /\ f = snap /\ n = Len(inbox)
         /\ inbox' = inbox \o <<f>> \o q \o <<Complete>>
  <2>1. Len(inbox) \in {0, 1}
    BY <1>2
  <2>2. inbox' = inbox \o <<snap>> \o s \o <<Complete>>
    BY <1>3 DEF order
  <2>3. QED BY <1>8, <1>10, <2>1, <2>2
<1>13. /\ inbox' \in Seq(Frames) /\ Len(inbox') = n + 2 + Len(q) /\ Len(q) \in Nat
       /\ \A i \in 1..n : inbox'[i] = inbox[i]
       /\ inbox'[n + 1] = f /\ inbox'[n + 2 + Len(q)] = Complete
       /\ \A i \in 1..Len(q) : inbox'[n + 1 + i] = q[i]
  <2> DEFINE a == Append(inbox, f)
             b == a \o q
             c == Append(b, Complete)
  <2>1. a \in Seq(Frames) /\ Len(a) = n + 1 /\ a[n + 1] = f /\ \A i \in 1..n : a[i] = inbox[i]
    BY <1>2, <1>12
  <2>2. a = inbox \o <<f>>
    BY <1>2
  <2> HIDE DEF a
  <2>3. /\ b \in Seq(Frames) /\ Len(b) = Len(a) + Len(q)
        /\ \A i \in 1..Len(a) + Len(q) : b[i] = IF i <= Len(a) THEN a[i] ELSE q[i - Len(a)]
    BY <2>1, ConcatProperties
  <2> HIDE DEF b
  <2>4. /\ c \in Seq(Frames) /\ Len(c) = Len(b) + 1 /\ c[Len(b) + 1] = Complete
        /\ \A i \in 1..Len(b) : c[i] = b[i]
    BY <1>11, <2>3
  <2>5. c = b \o <<Complete>>
    BY <1>11, <2>3
  <2> HIDE DEF c
  <2>6. inbox' = c
    BY <1>12, <2>2, <2>5 DEF b
  <2>7. Len(q) \in Nat
    BY <1>12
  <2>8. \A i \in 1..Len(q) : n + 1 + i \in 1..Len(b) /\ n + 1 + i \in 1..Len(a) + Len(q) /\ ~(n + 1 + i <= Len(a))
                              /\ (n + 1 + i) - Len(a) = i
    BY <2>1, <2>3, <2>7
  <2>9. \A i \in 1..Len(q) : c[n + 1 + i] = q[i]
    BY <2>3, <2>4, <2>8
  <2>10. \A i \in 1..(n + 1) : i \in 1..Len(b) /\ i \in 1..Len(a) + Len(q) /\ i <= Len(a)
    BY <2>1, <2>3, <2>7
  <2>11. \A i \in 1..(n + 1) : c[i] = a[i]
    BY <2>3, <2>4, <2>10
  <2>12. n + 1 \in 1..(n + 1) /\ \A i \in 1..n : i \in 1..(n + 1)
    BY <1>12
  <2>13. Len(c) = n + 2 + Len(q) /\ Len(b) + 1 = n + 2 + Len(q)
    BY <1>12, <2>1, <2>3, <2>4, <2>7
  <2>14. QED BY <2>1, <2>4, <2>6, <2>7, <2>9, <2>11, <2>12, <2>13
<1> HIDE DEF s, snap
<1>14. ASSUME NEW i \in 1..Len(inbox')
       PROVE  \/ i \in 1..n /\ Mark(inbox'[i]) /\ inbox'[i] = SocketLost
              \/ i = n + 1 \/ (i = n + 2 + Len(q) /\ Mark(inbox'[i]))
              \/ i - n - 1 \in 1..Len(q) /\ inbox'[i] = q[i - n - 1] /\ i > n + 1
  <2>1. i \in 1..n \/ i = n + 1 \/ i = n + 2 + Len(q) \/ (i - n - 1 \in 1..Len(q) /\ i > n + 1)
    <3>1. PICK l \in Nat : l = Len(q) /\ i \in 1..(n + 2 + l)
      BY <1>13
    <3>2. n \in Nat /\ l \in Nat /\ i \in Nat /\ 1 <= i /\ i <= n + 2 + l
      BY <3>1
    <3>3. i <= n \/ i = n + 1 \/ i = n + 2 + l \/ (n + 1 < i /\ i < n + 2 + l)
      BY <3>2
    <3>4. n + 1 < i /\ i < n + 2 + l => i - n - 1 \in 1..l /\ i > n + 1
      BY <3>2
    <3>5. i <= n => i \in 1..n
      BY <3>2
    <3>6. i \in 1..n \/ i = n + 1 \/ i = n + 2 + l \/ (i - n - 1 \in 1..l /\ i > n + 1)
      BY Zenon, <3>3, <3>4, <3>5
    <3>7. QED BY Zenon, <3>1, <3>6
  <2>2. i \in 1..n => inbox[i] = SocketLost
    <3>1. CASE inbox = <<>>
      BY <1>12, <3>1
    <3>2. CASE inbox = <<SocketLost>>
      BY <1>12, <3>2
    <3>3. QED BY <1>2, <3>1, <3>2
  <2>3. i - n - 1 \in 1..Len(q) => inbox'[i] = q[i - n - 1]
    <3>1. SUFFICES ASSUME i - n - 1 \in 1..Len(q) PROVE inbox'[i] = q[i - n - 1]
      OBVIOUS
    <3>2. n + 1 + (i - n - 1) = i
      BY <1>12
    <3>3. QED BY <1>13, <3>1, <3>2
  <2>4. QED BY <1>11, <1>13, <2>1, <2>2, <2>3
<1>15. ASSUME NEW i \in 1..Len(inbox') PROVE Sound(inbox[i])'
  <2>1. \A g : Sound(g) => Sound(g)'
    BY <1>1 DEF Sound, Limit, server
  <2>2. Sound(inbox'[i])
    <3>1. Sound(SocketLost)
      BY DEF Sound, SocketLost
    <3>2. CASE inbox'[i] = SocketLost
      BY <3>1, <3>2
    <3>3. CASE i = n + 1 \/ i = n + 2 + Len(q)
      BY <1>10, <1>11, <1>12, <1>13, <3>3
    <3>4. CASE i - n - 1 \in 1..Len(q) /\ inbox'[i] = q[i - n - 1]
      BY <1>9, <1>12, <3>4
    <3>5. QED BY <1>14, <3>2, <3>3, <3>4
  <2>3. PICK g : g = inbox'[i]
    OBVIOUS
  <2>4. QED BY <2>1, <2>2, <2>3
<1>16. Types'
  <2>1. StoreTypes' /\ ServerTypes'
    BY <1>1 DEF client, server, Types, StoreTypes, ServerTypes, Held, Fits, Limit
  <2>2. LinkTypes'
    BY <1>1, <1>13, <1>15 DEF Types, LinkTypes, server
  <2>3. QED BY <2>1, <2>2 DEF Types
<1>17. n + 1 \in 1..Len(inbox') /\ \A i \in 1..Len(q) : n + 1 + i \in 1..Len(inbox') /\ n + 1 + i > n + 1
  BY <1>12, <1>13
<1>18. \A k \in open \cup {System} : \E i \in 1..Len(inbox') : i > n + 1 /\ Tells(inbox'[i], k)
  BY <1>9, <1>12, <1>13, <1>17
<1>19. \A i \in 1..Len(inbox') : \/ i = n + 1 \/ Mark(inbox'[i])
                                 \/ i > n + 1 /\ \E k \in open \cup {System} : Tells(inbox'[i], k)
  <2>1. ASSUME NEW i \in 1..Len(inbox'), i - n - 1 \in 1..Len(q), inbox'[i] = q[i - n - 1]
        PROVE  \E k \in open \cup {System} : Tells(inbox'[i], k)
    <3>1. PICK j \in 1..Len(q) : j = i - n - 1 /\ inbox'[i] = q[j]
      BY <2>1
    <3>2. QED BY <1>9, <1>12, <3>1
  <2>2. QED BY Zenon, <1>14, <2>1
<1>20. /\ inbox'[n + 1] = f /\ f.kind = "snapshot" /\ DOMAIN f.channels = joined
       /\ \A c \in joined : f.channels[c] = members[c]
  BY <1>10, <1>12, <1>13
<1>21. /\ Types' /\ ~up /\ up' /\ UNCHANGED <<client, server, deleting, missed, revived>>
  BY <1>1, <1>16
<1>22. QED BY Zenon, <1>17, <1>18, <1>19, <1>20, <1>21

\* The connection is lost: what it carried is missed or skipped.
LEMMA LoseDoes ==
  ASSUME Types, Lose
  PROVE  /\ Types' /\ ~up' /\ UNCHANGED <<client, server, deleting, revived>>
         /\ inbox' = <<SocketLost>> /\ missed' = missed \cup NewsKeys(inbox)
<1>1. /\ up' = FALSE /\ asked' = {} /\ inbox' = <<SocketLost>> /\ missed' = missed \cup NewsKeys(inbox)
      /\ skipped' = skipped \cup {id \in RowIds(inbox) : id <= cursor}
      /\ UNCHANGED <<client, server, deleting, revived>>
  BY DEF Lose
<1>2. inbox \in Seq(Frames) /\ Range(inbox) = {inbox[i] : i \in 1..Len(inbox)}
  BY DEF Types, LinkTypes, Range
<1>3. Range(inbox) \subseteq Frames
  BY <1>2
<1>4. RowIds(inbox) \subseteq Nat
  <2>1. ASSUME NEW f \in Frames, f.kind = "irc" PROVE f.id \in Nat
    BY <2>1, KindTells DEF IrcRows
  <2>2. ASSUME NEW f \in Frames, f.kind = "backlog" PROVE f.rows \subseteq Nat
    BY <2>2, KindTells DEF Backlogs
  <2>3. \A f \in Frames : (CASE f.kind = "irc" /\ f.key # System -> {f.id}
                             [] f.kind = "backlog" /\ f.key # System -> f.rows
                             [] OTHER -> {}) \subseteq Nat
    BY <2>1, <2>2
  <2>4. QED BY <1>3, <2>3 DEF RowIds
<1>5. NewsKeys(inbox) \subseteq NetKeys
  <2>1. ASSUME NEW f \in Frames, f.kind \in {"buffer-closed", "buffer-cleared"} PROVE f.key \in NetKeys
    BY <2>1, KindTells DEF Closings, Clearings
  <2>2. ASSUME NEW f \in Frames, f.kind = "buffer-renamed" PROVE {f.from, f.to} \subseteq NetKeys
    BY <2>2, KindTells, KeysAre DEF Renamings
  <2>3. \A f \in Frames : (CASE f.kind \in {"buffer-closed", "buffer-cleared"} -> {f.key}
                             [] f.kind = "buffer-renamed" -> {f.from, f.to}
                             [] OTHER -> {}) \subseteq NetKeys
    BY <2>1, <2>2
  <2>4. QED BY <1>3, <2>3 DEF NewsKeys
<1>6. inbox' \in Seq(Frames) /\ Len(inbox') = 1 /\ inbox'[1] = SocketLost
  BY <1>1, FramesAre
<1>7. \A i \in 1..Len(inbox') : Sound(inbox[i])'
  <2>1. \A i \in 1..Len(inbox') : inbox'[i] = SocketLost
    BY <1>6
  <2>2. QED BY <2>1 DEF Sound, SocketLost
<1>8. LinkTypes'
  <2>1. missed' \subseteq NetKeys /\ skipped' \subseteq Nat /\ revived' \subseteq Keys
    BY <1>1, <1>4, <1>5 DEF Types, LinkTypes
  <2>2. deleting' \in {"no", "asked", "done"} /\ (deleting' # "no" => open' = {} /\ joined' = {} /\ asked' = {})
    BY <1>1 DEF Types, LinkTypes, server
  <2>3. QED BY <1>1, <1>6, <1>7, <2>1, <2>2 DEF LinkTypes
<1>9. StoreTypes' /\ ServerTypes'
  BY <1>1 DEF client, server, Types, StoreTypes, ServerTypes, Held, Fits, Limit
<1>10. QED BY <1>1, <1>8, <1>9 DEF Types

\* The user's window asks for rows.
LEMMA HydrateDoes ==
  ASSUME Types, NEW key \in NetKeys, Hydrate(key)
  PROVE  /\ Types' /\ UNCHANGED <<client, server, up, inbox, deleting, missed, revived>>
<1>1. /\ up /\ deleting = "no" /\ asked' = asked \cup {key}
      /\ UNCHANGED <<client, server, up, inbox, deleting, missed, revived, skipped>>
  BY DEF Hydrate
<1>2. StoreTypes' /\ ServerTypes'
  BY <1>1 DEF client, server, Types, StoreTypes, ServerTypes, Held, Fits, Limit
<1>3. LinkTypes'
  BY <1>1 DEF server, Types, LinkTypes, Sound, Limit
<1>4. QED BY <1>1, <1>2, <1>3 DEF Types

\* A request is answered, after the conversation was closed perhaps.
LEMMA AnswerSends ==
  ASSUME Types, NEW key \in NetKeys, Answer(key)
  PROVE  /\ Types' /\ up /\ deleting = "no" /\ UNCHANGED <<client, server, up, deleting, missed>>
         /\ revived' = IF key \in open THEN revived ELSE revived \cup {key}
         /\ \E h \in Frames : /\ h.kind = "history" /\ h.key = key /\ h.rows \subseteq 1..Len(log)
                              /\ inbox' = Append(inbox, h)
<1>1. /\ key \in asked /\ asked' = asked \ {key} /\ Send(<<History(key, RowsOf(key))>>)
      /\ revived' = (IF key \in open THEN revived ELSE revived \cup {key})
      /\ UNCHANGED <<client, server, up, deleting, missed, skipped>>
  BY DEF Answer
<1>2. up /\ deleting = "no"
  BY <1>1 DEF Types, LinkTypes
<1>3. key \in Keys /\ key # System /\ RowsOf(key) \subseteq 1..Len(log) /\ RowsOf(key) \subseteq Nat
  <2>1. key \in Keys /\ key # System
    BY KeysAre
  <2>2. QED BY <2>1, RowsAre DEF Limit, Types, ServerTypes
<1>4. PICK h \in Frames : h = History(key, RowsOf(key))
  BY <1>3, FramesAre
<1>5. h.kind = "history" /\ h.key = key /\ h.rows = RowsOf(key)
  BY <1>4 DEF History
<1>6. Grows
  BY <1>1, LogGrows DEF Types, ServerTypes, server
<1>7. Sound(h)'
  BY <1>1, <1>3, <1>5 DEF Sound, Limit, server
<1>8. Send(<<h>>)
  BY <1>1, <1>4
<1>9. /\ inbox' = Append(inbox, h) /\ inbox' \in Seq(Frames) /\ (\A i \in 1..Len(inbox') : Sound(inbox[i])')
      /\ (~up' => inbox' \in {<<>>, <<SocketLost>>})
  BY <1>1, <1>2, <1>6, <1>7, <1>8, SentOne
<1>10. StoreTypes' /\ ServerTypes'
  BY <1>1 DEF client, server, Types, StoreTypes, ServerTypes, Held, Fits, Limit
<1>11. LinkTypes'
  <2>1. revived' \subseteq Keys /\ asked' \subseteq NetKeys
    BY <1>1, <1>3 DEF Types, LinkTypes
  <2>2. QED BY <1>1, <1>2, <1>9, <2>1 DEF Types, LinkTypes, server
<1>12. QED BY <1>1, <1>2, <1>3, <1>5, <1>9, <1>10, <1>11 DEF Types

\* The network is deleted on the server.
LEMMA DeleteDoes ==
  ASSUME Types, DeleteNetwork
  PROVE  /\ Types' /\ deleting' = "asked" /\ open' = {} /\ joined' = {}
         /\ UNCHANGED <<client, log, members, unread, cleared, up, inbox, missed, revived>>
<1>1. /\ deleting' = "asked" /\ open' = {} /\ joined' = {} /\ asked' = {}
      /\ UNCHANGED <<client, log, systemHead, members, unread, cleared, up, inbox, missed, revived, skipped>>
  BY DEF DeleteNetwork
<1>2. StoreTypes' /\ ServerTypes'
  BY <1>1 DEF client, Types, StoreTypes, ServerTypes, Held, Fits, Limit
<1>3. LinkTypes'
  BY <1>1 DEF Types, LinkTypes, Sound, Limit
<1>4. QED BY <1>1, <1>2, <1>3 DEF Types

\* The store removes it: what is on its way may bring conversations back.
LEMMA RemoveDoes ==
  ASSUME Types, RemoveNetwork
  PROVE  /\ Types' /\ deleting' = "done" /\ Held' = Held \ NetKeys
         /\ \A k \in Held' : buffers'[k] = buffers[k]
         /\ snapshotChannels' = [c \in {} |-> snapshotChannels[c]]
         /\ revived \subseteq revived'
         /\ \A i \in 1..Len(inbox) :
              /\ inbox[i].kind \in {"irc", "ephemeral", "backlog", "history", "buffer-opened"} => inbox[i].key \in revived'
              /\ inbox[i].kind = "buffer-renamed" => inbox[i].to \in revived'
         /\ UNCHANGED <<server, link, missed>>
<1> DEFINE Back == {f.key : f \in {g \in Range(inbox) :
                       g.kind \in {"irc", "ephemeral", "backlog", "history", "buffer-opened"}}}
           Renames == {f.to : f \in {g \in Range(inbox) : g.kind = "buffer-renamed"}}
<1>1. /\ deleting = "asked" /\ deleting' = "done" /\ buffers' = Restrict(buffers, DOMAIN buffers \ NetKeys)
      /\ snapshotChannels' = Restrict(snapshotChannels, {})
      /\ revived' = revived \cup Back \cup Renames
      /\ UNCHANGED <<cursor, backlogComplete, server, link, missed, skipped>>
  BY DEF RemoveNetwork
<1>2. buffers' = [k \in Held \ NetKeys |-> buffers[k]]
  BY <1>1 DEF Restrict, Held
<1>3. Held' = Held \ NetKeys /\ \A k \in Held' : buffers'[k] = buffers[k]
  BY <1>2 DEF Held
<1>4. snapshotChannels' = [c \in {} |-> snapshotChannels[c]]
  BY <1>1 DEF Restrict
<1>5. inbox \in Seq(Frames) /\ Range(inbox) = {inbox[i] : i \in 1..Len(inbox)}
  BY DEF Types, LinkTypes, Range
<1>6. Range(inbox) \subseteq Frames /\ \A i \in 1..Len(inbox) : inbox[i] \in Range(inbox)
  BY <1>5
<1>7. Back \subseteq Keys /\ Renames \subseteq Keys
  <2>1. ASSUME NEW f \in Frames, f.kind \in {"irc", "ephemeral", "backlog", "history", "buffer-opened"}
        PROVE  f.key \in Keys
    BY <2>1, KindTells, KeysAre DEF IrcRows, Signals, Backlogs, Histories, Openings
  <2>2. ASSUME NEW f \in Frames, f.kind = "buffer-renamed" PROVE f.to \in Keys
    BY <2>2, KindTells, KeysAre DEF Renamings
  <2>3. QED BY <1>6, <2>1, <2>2
<1>8. /\ revived \subseteq revived'
      /\ \A i \in 1..Len(inbox) :
           /\ inbox[i].kind \in {"irc", "ephemeral", "backlog", "history", "buffer-opened"} => inbox[i].key \in revived'
           /\ inbox[i].kind = "buffer-renamed" => inbox[i].to \in revived'
  BY <1>1, <1>6
<1> HIDE DEF Back, Renames
<1>9. StoreTypes'
  <2>1. Held' \subseteq Keys /\ buffers' \in [Held' -> Buffer]
    BY <1>2, <1>3 DEF Types, StoreTypes
  <2>2. \A k \in Held' : Fits(k, buffers[k])'
    BY <1>1, <1>3 DEF Types, StoreTypes, Fits, Limit, server
  <2>3. snapshotChannels' \in Rosters
    <3>1. [c \in {} |-> snapshotChannels[c]] \in [{} -> SUBSET Nicks]
      OBVIOUS
    <3>2. QED BY <1>4, <3>1 DEF Rosters
  <2>4. QED BY <1>1, <2>1, <2>2, <2>3 DEF Types, StoreTypes
<1>10. ServerTypes'
  BY <1>1 DEF Types, ServerTypes, server
<1>11. LinkTypes'
  <2>1. revived' \subseteq Keys
    BY <1>1, <1>7 DEF Types, LinkTypes
  <2>2. QED BY <1>1, <2>1 DEF Types, LinkTypes, link, server, Sound, Limit
<1>12. QED BY <1>1, <1>3, <1>4, <1>8, <1>9, <1>10, <1>11 DEF Types

\* Nothing happens.
LEMMA StutterIs ==
  ASSUME UNCHANGED vars
  PROVE  UNCHANGED <<buffers, cursor, backlogComplete, snapshotChannels, log, systemHead, open, joined, members,
                     unread, cleared, up, inbox, asked, deleting, missed, revived, merged, skipped, moves>>
BY DEF vars, client, server, link

--------------------------------------------------------------------------------
(* What is held *)

\* What brings a conversation into the store, and what takes it out
Adds(k) == {f \in Frames : \/ f.kind \in {"irc", "backlog", "history", "buffer-opened"} /\ f.key = k
                           \/ f.kind = "ephemeral" /\ f.type = "channel-joined" /\ f.key = k
                           \/ f.kind = "buffer-renamed" /\ f.to = k}
Drops(k) == {f \in Frames : \/ f.kind = "buffer-closed" /\ f.key = k
                            \/ f.kind = "buffer-renamed" /\ f.from = k}

\* What finds the conversation in the store that it is about, unless it answers a
\* request that a closing overtook
Expects(f, k, overtaken) ==
  \/ f.kind = "irc" /\ f.key = k /\ k \in Channels
  \/ f.kind = "ephemeral" /\ f.type = "names" /\ f.key = k
  \/ f.kind = "history" /\ f.key = k /\ k \notin overtaken
  \/ f.kind = "buffer-opened" /\ f.key = k
  \/ f.kind = "buffer-renamed" /\ f.from = k
  \/ f.kind = "read-state" /\ f.key = k /\ f.unread # 0

Excused == missed \cup revived
\* Whether k will be held when all, or the first n frames, that are on their way are applied
StaysTo(n, k) == EndsAt(inbox, n, Adds(k), Drops(k), k, Held)
Stays(k) == Ends(inbox, Adds(k), Drops(k), k, Held)

\* What is closed will not be held; what is open will, once there was a burst.
ClosedGo == deleting # "asked" => \A k \in NetKeys \ (open \cup Excused) : ~Stays(k)
OpenStay == up => Stays(System) /\ (deleting = "no" => \A k \in open : Stays(k))
\* Frames find what they expect.
Found(q, B, overtaken) ==
  \A m \in 1..Len(q) : \A k \in NetKeys :
    Expects(q[m], k, overtaken) => EndsAt(q, m - 1, Adds(k), Drops(k), k, B)
Expected == deleting = "no" => Found(inbox, Held, revived)

HeldInv == Types /\ ClosedGo /\ OpenStay /\ Expected

\* More held before is more held after.
LEMMA EndsMore ==
  ASSUME NEW q, NEW n, NEW on, NEW off, NEW p, NEW B, NEW C, p \in B => p \in C, EndsAt(q, n, on, off, p, B)
  PROVE  EndsAt(q, n, on, off, p, C)
BY DEF EndsAt

\* What the head does to what is held: exactly what it is there for, but for a renaming
\* of what is not held.
LEMMA HeadMoves ==
  ASSUME Types, ApplyFrame, NEW k \in Keys
  PROVE  LET f == Head(inbox) IN
         /\ k \in Held' => f \in Adds(k) \/ (k \in Held /\ f \notin Drops(k))
         /\ (f.kind = "buffer-renamed" /\ f.to = k => f.from \in Held) =>
              (k \in Held' <=> f \in Adds(k) \/ (k \in Held /\ f \notin Drops(k)))
<1> DEFINE f == Head(inbox)
<1>1. f \in Frames /\ Sound(f) /\ CopyTypes /\ UNCHANGED <<log, systemHead>>
  BY HeadIs
<1> HIDE DEF f
<1>2. ASSUME NEW l \in Keys, NEW b \in Buffer, Fits(l, b), buffers' = Put(buffers, l, b), cursor' \in Nat,
             UNCHANGED <<backlogComplete, snapshotChannels>>
      PROVE  Held' = Held \cup {l}
  BY <1>1, <1>2, PutIs
<1>3. CASE f \in Snapshots /\ ApplySnapshot(f)
  <2>1. Held' = Held
    BY <1>1, <1>3, SnapshotDoes
  <2>2. f \notin Adds(k) /\ f \notin Drops(k)
    BY <1>3 DEF Adds, Drops, Snapshots
  <2>3. QED BY <2>1, <2>2 DEF f
<1>4. CASE f \in IrcRows /\ ApplyRow(f)
  <2>1. f.key \in Keys /\ f.kind = "irc"
    BY <1>4 DEF IrcRows
  <2>2. Held' = Held \cup {f.key}
    BY <1>1, <1>2, <1>4, <2>1, RowDoes
  <2>3. (f \in Adds(k) <=> f.key = k) /\ f \notin Drops(k)
    BY <1>1, <2>1 DEF Adds, Drops
  <2>4. QED BY <2>2, <2>3 DEF f
<1>5. CASE f \in Signals /\ ApplySignal(f)
  <2>1. f.key \in Keys /\ f.kind = "ephemeral"
    BY <1>5, KeysAre DEF Signals
  <2>2. f.key \in Held \/ f.type = "channel-joined" => Held' = Held \cup {f.key}
    BY <1>1, <1>2, <1>5, <2>1, SignalDoes
  <2>3. f.key \notin Held /\ f.type # "channel-joined" => Held' = Held
    BY <1>1, <1>5, SignalDoes DEF Held
  <2>4. (f \in Adds(k) <=> f.type = "channel-joined" /\ f.key = k) /\ f \notin Drops(k)
    BY <1>1, <2>1 DEF Adds, Drops
  <2>5. QED BY <2>2, <2>3, <2>4 DEF f
<1>6. CASE f \in Backlogs \cup Histories /\ ApplySlice(f)
  <2>1. f.key \in Keys /\ f.kind \in {"backlog", "history"}
    BY <1>6, KeysAre DEF Backlogs, Histories
  <2>2. Held' = Held \cup {f.key}
    BY <1>1, <1>2, <1>6, <2>1, SliceDoes
  <2>3. (f \in Adds(k) <=> f.key = k) /\ f \notin Drops(k)
    BY <1>1, <2>1 DEF Adds, Drops
  <2>4. QED BY <2>2, <2>3 DEF f
<1>7. CASE f \in Marks /\ ApplyMark(f)
  <2>1. Held' = Held
    BY <1>7 DEF ApplyMark, Held
  <2>2. f \notin Adds(k) /\ f \notin Drops(k)
    BY <1>7 DEF Adds, Drops, Marks
  <2>3. QED BY <2>1, <2>2 DEF f
<1>8. CASE f \in Openings /\ ApplyBufferFrame(f)
  <2>1. f.key \in Keys /\ f.kind = "buffer-opened"
    BY <1>8, KeysAre DEF Openings
  <2>2. Held' = Held \cup {f.key}
    BY <1>1, <1>2, <1>8, <2>1, OpenedDoes
  <2>3. (f \in Adds(k) <=> f.key = k) /\ f \notin Drops(k)
    BY <1>1, <2>1 DEF Adds, Drops
  <2>4. QED BY <2>2, <2>3 DEF f
<1>9. CASE f \in Closings /\ ApplyBufferFrame(f)
  <2>1. Held' = Held \ {f.key}
    BY <1>1, <1>9, ClosedDoes
  <2>2. f \notin Adds(k) /\ (f \in Drops(k) <=> f.key = k)
    BY <1>1, <1>9 DEF Adds, Drops, Closings
  <2>3. QED BY <2>1, <2>2 DEF f
<1>10. CASE f \in Renamings /\ ApplyBufferFrame(f)
  <2>1. /\ (f \in Adds(k) <=> f.to = k) /\ (f \in Drops(k) <=> f.from = k) /\ f.kind = "buffer-renamed"
        /\ f.from # f.to
    BY <1>1, <1>10 DEF Adds, Drops, Renamings
  <2>2. CASE f.from \notin Held
    <3>1. Held' = Held
      BY <1>1, <1>10, <2>2, RenamedDoes
    <3>2. QED BY <2>1, <2>2, <3>1 DEF f
  <2>3. CASE f.from \in Held
    <3>1. Held' = (Held \ {f.from}) \cup {f.to}
      BY <1>1, <1>10, <2>3, RenamedDoes
    <3>2. QED BY <2>1, <2>3, <3>1 DEF f
  <2>4. QED BY <2>2, <2>3
<1>11. CASE f \in Clearings \cup ReadStates /\ ApplyBufferFrame(f)
  <2>1. f.key \in Keys /\ f.kind \in {"buffer-cleared", "read-state"}
    BY <1>11, KeysAre DEF Clearings, ReadStates
  <2>2. f.key \in Held => Held' = Held \cup {f.key}
    BY <1>1, <1>2, <1>11, <2>1, ClearedDoes
  <2>3. f.key \notin Held => Held' = Held
    BY <1>1, <1>11, ClearedDoes DEF Held
  <2>4. f \notin Adds(k) /\ f \notin Drops(k)
    BY <2>1 DEF Adds, Drops
  <2>5. QED BY <2>2, <2>3, <2>4 DEF f
<1>12. QED BY Zenon, <1>3, <1>4, <1>5, <1>6, <1>7, <1>8, <1>9, <1>10, <1>11, HeadIs DEF f

\* Applying keeps what is held right.
LEMMA ApplyKeepsHeld ==
  ASSUME HeldInv, ApplyFrame PROVE ClosedGo' /\ OpenStay' /\ Expected'
<1> DEFINE f == Head(inbox)
<1>1. /\ Types /\ inbox \in Seq(Frames) /\ inbox # <<>> /\ inbox' = Tail(inbox) /\ f = inbox[1]
      /\ UNCHANGED <<open, up, deleting, missed, revived>>
  BY HeadIs DEF HeldInv
<1>2. \A k \in NetKeys : k \in Keys
  BY KeysAre
<1>3. ASSUME NEW k \in Keys PROVE Stays(k)' => Stays(k)
  <2> DEFINE C == IF f \in Adds(k) \/ (k \in Held /\ f \notin Drops(k)) THEN {k} ELSE {}
  <2>1. k \in C <=> f \in Adds(k) \/ (k \in Held /\ f \notin Drops(k))
    OBVIOUS
  <2>2. k \in Held' => k \in C
    BY <1>1, <2>1, HeadMoves
  <2> HIDE DEF C
  <2>3. Ends(inbox, Adds(k), Drops(k), k, Held) <=> Ends(Tail(inbox), Adds(k), Drops(k), k, C)
    BY <1>1, <2>1, EndsAllTail
  <2>4. Stays(k)' => EndsAt(Tail(inbox), Len(Tail(inbox)), Adds(k), Drops(k), k, Held')
    BY Zenon, <1>1 DEF Stays, Ends
  <2>5. Stays(k)' => EndsAt(Tail(inbox), Len(Tail(inbox)), Adds(k), Drops(k), k, C)
    BY Zenon, <2>2, <2>4, EndsMore
  <2>6. QED BY Zenon, <2>3, <2>5 DEF Stays, Ends
<1>4. ASSUME NEW k \in Keys, f.kind = "buffer-renamed" /\ f.to = k => f.from \in Held
      PROVE  /\ Stays(k)' <=> Stays(k)
             /\ \A n \in Nat : n < Len(inbox) => (StaysTo(n, k)' <=> StaysTo(n + 1, k))
  <2>1. k \in Held' <=> f \in Adds(k) \/ (k \in Held /\ f \notin Drops(k))
    BY <1>1, <1>4, HeadMoves
  <2>2. Ends(inbox, Adds(k), Drops(k), k, Held) <=> Ends(Tail(inbox), Adds(k), Drops(k), k, Held')
    BY <1>1, <2>1, EndsAllTail
  <2>3. \A n \in Nat : n < Len(inbox) =>
          (EndsAt(inbox, n + 1, Adds(k), Drops(k), k, Held) <=> EndsAt(Tail(inbox), n, Adds(k), Drops(k), k, Held'))
    BY <1>1, <2>1, EndsTail
  <2>4. QED BY Zenon, <1>1, <2>2, <2>3 DEF Stays, StaysTo
<1>5. deleting = "no" => (f.kind = "buffer-renamed" => f.from \in Held)
  <2>1. SUFFICES ASSUME deleting = "no", f.kind = "buffer-renamed" PROVE f.from \in Held
    OBVIOUS
  <2>2. f.from \in NetKeys
    <3>1. f \in Renamings
      BY <1>1, <2>1, HeadIs, KindTells
    <3>2. QED BY <3>1, KeysAre DEF Renamings
  <2>3. 1 \in 1..Len(inbox) /\ Expects(inbox[1], f.from, revived) /\ 1 - 1 = 0
    BY <1>1, <2>1 DEF Expects
  <2>4. StaysTo(0, f.from)
    BY <2>1, <2>2, <2>3 DEF HeldInv, Expected, Found, StaysTo
  <2>5. QED BY <2>4, EndsNone DEF StaysTo
<1>6. ClosedGo'
  <2>1. NetKeys \ (open' \cup Excused') = NetKeys \ (open \cup Excused)
    BY <1>1 DEF Excused
  <2>2. QED BY Zenon, <1>1, <1>2, <1>3, <2>1 DEF HeldInv, ClosedGo
<1>7. OpenStay'
  <2>1. Stays(System)' <=> Stays(System)
    <3>1. f.kind = "buffer-renamed" /\ f.to = System => f.from \in Held
      BY <1>1, HeadIs, KindTells, KeysAre DEF Renamings
    <3>2. QED BY <1>4, <3>1, KeysAre
  <2>2. deleting = "no" => \A k \in open : k \in Keys /\ (Stays(k)' <=> Stays(k))
    BY <1>1, <1>2, <1>4, <1>5 DEF Types, ServerTypes
  <2>3. QED BY Zenon, <1>1, <2>1, <2>2 DEF HeldInv, OpenStay
<1>8. Expected'
  <2>1. SUFFICES ASSUME deleting = "no", NEW m \in 1..Len(inbox'), NEW k \in NetKeys, Expects(inbox'[m], k, revived')
                 PROVE  StaysTo(m - 1, k)'
    BY <1>1 DEF Expected, Found, StaysTo
  <2>2. /\ m + 1 \in 1..Len(inbox) /\ inbox'[m] = inbox[m + 1] /\ m - 1 \in Nat /\ m - 1 < Len(inbox)
        /\ (m - 1) + 1 = m /\ (m + 1) - 1 = m
    BY <1>1, <2>1
  <2>3. Expects(inbox[m + 1], k, revived)
    BY <1>1, <2>1, <2>2 DEF Expects
  <2>4. StaysTo(m, k)
    <3>1. StaysTo((m + 1) - 1, k)
      BY <2>1, <2>2, <2>3 DEF HeldInv, Expected, Found, StaysTo
    <3>2. QED BY <2>2, <3>1
  <2>5. StaysTo(m - 1, k)' <=> StaysTo((m - 1) + 1, k)
    BY <1>2, <1>4, <1>5, <2>1, <2>2
  <2>6. QED BY <2>2, <2>4, <2>5
<1>9. QED BY <1>6, <1>7, <1>8

\* What each kind of frame brings in and takes out
LEMMA MovesAre ==
  ASSUME NEW f \in Frames, NEW k
  PROVE  /\ f.kind \in {"irc", "backlog", "history", "buffer-opened"} => (f \in Adds(k) <=> f.key = k) /\ f \notin Drops(k)
         /\ f.kind = "ephemeral" => (f \in Adds(k) <=> f.type = "channel-joined" /\ f.key = k) /\ f \notin Drops(k)
         /\ f.kind = "buffer-renamed" => (f \in Adds(k) <=> f.to = k) /\ (f \in Drops(k) <=> f.from = k)
         /\ f.kind = "buffer-closed" => f \notin Adds(k) /\ (f \in Drops(k) <=> f.key = k)
         /\ f.kind \in {"buffer-cleared", "read-state", "snapshot", "backlog-complete", "lost"} =>
              f \notin Adds(k) /\ f \notin Drops(k)
BY DEF Adds, Drops

\* The system buffer is never taken out.
LEMMA SystemRemains ==
  ASSUME NEW f \in Frames PROVE f \notin Drops(System)
BY KindTells, KeysAre DEF Drops, Closings, Renamings

\* Whether k will be held when a, and then b, is sent after all that is on its way
Goes(k, a) == a \in Adds(k) \/ (Stays(k) /\ a \notin Drops(k))
GoesOn(k, a, b) == b \in Adds(k) \/ (Goes(k, a) /\ b \notin Drops(k))

\* A frame that finds what it expects may be appended.
LEMMA FoundAppend ==
  ASSUME NEW q \in Seq(Frames), NEW e \in Frames, NEW B, NEW R, NEW T, R \subseteq T, Found(q, B, R),
         \A k \in NetKeys : Expects(e, k, T) => Ends(q, Adds(k), Drops(k), k, B)
  PROVE  Found(Append(q, e), B, T)
<1> DEFINE r == Append(q, e)
           n == Len(q)
<1>1. n \in Nat /\ Len(r) = n + 1 /\ r[n + 1] = e /\ \A i \in 1..n : r[i] = q[i]
  OBVIOUS
<1> HIDE DEF r, n
<1>2. ASSUME NEW m \in 1..Len(r), NEW k \in NetKeys, Expects(r[m], k, T)
      PROVE  EndsAt(r, m - 1, Adds(k), Drops(k), k, B)
  <2>1. CASE m = n + 1
    <3>1. EndsAt(q, n, Adds(k), Drops(k), k, B)
      BY <1>1, <1>2, <2>1 DEF Ends, n
    <3>2. EndsAt(r, n, Adds(k), Drops(k), k, B)
      BY <1>1, <3>1, EndsSame
    <3>3. m - 1 = n
      BY <1>1, <2>1
    <3>4. QED BY <3>2, <3>3
  <2>2. CASE m # n + 1
    <3>1. m \in 1..n /\ m - 1 \in Nat /\ \A i \in 1..(m - 1) : i \in 1..n
      BY <1>1, <1>2, <2>2
    <3>2. Expects(q[m], k, R)
      BY <1>1, <1>2, <3>1 DEF Expects
    <3>3. EndsAt(q, m - 1, Adds(k), Drops(k), k, B)
      BY <3>1, <3>2 DEF Found, n
    <3>4. \A i \in 1..(m - 1) : r[i] = q[i]
      BY <1>1, <3>1
    <3>5. QED BY <3>1, <3>3, <3>4, EndsSame
  <2>3. QED BY <2>1, <2>2
<1>3. QED BY <1>2 DEF Found, r

\* With the connection down nothing is sent; what happens then is missed, or hides nothing.
LEMMA DownKeepsHeld ==
  ASSUME HeldInv, ~up, deleting = "no", UNCHANGED <<up, deleting>>, Held' = Held, inbox' = inbox,
         revived' = revived, \A k \in NetKeys \ (open' \cup missed' \cup revived') : k \notin open \cup missed
  PROVE  ClosedGo' /\ OpenStay' /\ Expected'
<1>1. \A k : Stays(k)' <=> Stays(k)
  BY Zenon DEF Stays
<1>2. ClosedGo'
  BY <1>1 DEF HeldInv, ClosedGo, Excused
<1>3. OpenStay'
  BY DEF OpenStay
<1>4. Expected'
  BY DEF HeldInv, Expected
<1>5. QED BY <1>2, <1>3, <1>4

\* A frame that is sent must find what it expects, and leave what is open.
LEMMA OneKeepsHeld ==
  ASSUME HeldInv, up, deleting = "no", UNCHANGED <<up, deleting>>, Held' = Held, revived \subseteq revived',
         NEW a \in Frames, inbox' = Append(inbox, a),
         \A k \in NetKeys : Expects(a, k, revived') => Stays(k),
         \A k \in NetKeys : k \in open' => Goes(k, a),
         \A k \in NetKeys : k \notin open' \cup missed' \cup revived' => ~Goes(k, a), open' \subseteq NetKeys
  PROVE  ClosedGo' /\ OpenStay' /\ Expected'
<1>1. inbox \in Seq(Frames)
  BY DEF HeldInv, Types, LinkTypes
<1>2. ASSUME NEW k PROVE Stays(k)' <=> Goes(k, a)
  <2>1. Ends(Append(inbox, a), Adds(k), Drops(k), k, Held) <=> Goes(k, a)
    BY <1>1, EndsAppend DEF Goes, Stays
  <2>2. QED BY Zenon, <2>1 DEF Stays
<1>3. ClosedGo'
  BY <1>2 DEF ClosedGo, Excused
<1>4. OpenStay'
  <2>1. Goes(System, a)
    BY SystemRemains DEF Goes, HeldInv, OpenStay
  <2>2. QED BY <1>2, <2>1 DEF OpenStay
<1>5. Found(Append(inbox, a), Held, revived')
  <2>1. Found(inbox, Held, revived)
    BY DEF HeldInv, Expected
  <2>2. QED BY <1>1, <2>1, FoundAppend DEF Stays
<1>6. Expected'
  BY <1>5 DEF Expected
<1>7. QED BY <1>3, <1>4, <1>6

\* The same for two
LEMMA TwoKeepHeld ==
  ASSUME HeldInv, up, deleting = "no", UNCHANGED <<up, deleting>>, Held' = Held, revived' = revived,
         NEW a \in Frames, NEW b \in Frames, inbox' = Append(Append(inbox, a), b),
         \A k \in NetKeys : Expects(a, k, revived) => Stays(k),
         \A k \in NetKeys : Expects(b, k, revived) => Goes(k, a),
         \A k \in NetKeys : k \in open' => GoesOn(k, a, b),
         \A k \in NetKeys : k \notin open' \cup missed' \cup revived => ~GoesOn(k, a, b), open' \subseteq NetKeys
  PROVE  ClosedGo' /\ OpenStay' /\ Expected'
<1> DEFINE q == Append(inbox, a)
<1>1. inbox \in Seq(Frames) /\ q \in Seq(Frames)
  BY DEF HeldInv, Types, LinkTypes
<1>2. \A k : Ends(q, Adds(k), Drops(k), k, Held) <=> Goes(k, a)
  BY <1>1, EndsAppend DEF Goes, Stays
<1>3. inbox' = Append(q, b)
  OBVIOUS
<1>4. Found(q, Held, revived)
  <2>1. Found(inbox, Held, revived)
    BY DEF HeldInv, Expected
  <2>2. QED BY <1>1, <2>1, FoundAppend DEF Stays
<1> HIDE DEF q
<1>5. ASSUME NEW k PROVE Stays(k)' <=> GoesOn(k, a, b)
  <2>1. Ends(Append(q, b), Adds(k), Drops(k), k, Held) <=> GoesOn(k, a, b)
    BY <1>1, <1>2, EndsAppend DEF GoesOn
  <2>2. QED BY Zenon, <1>3, <2>1 DEF Stays
<1>6. ClosedGo'
  BY <1>5 DEF ClosedGo, Excused
<1>7. OpenStay'
  <2>1. GoesOn(System, a, b)
    BY SystemRemains DEF GoesOn, Goes, HeldInv, OpenStay
  <2>2. QED BY <1>5, <2>1 DEF OpenStay
<1>8. Found(Append(q, b), Held, revived)
  BY <1>1, <1>2, <1>4, FoundAppend
<1>9. Expected'
  BY <1>3, <1>8 DEF Expected
<1>10. QED BY <1>6, <1>7, <1>9

\* Rows, where channels are joined before they have any
LEMMA RowKeepsHeld ==
  ASSUME HeldInv, NEW key \in NetKeys, NEW type \in {"message", "join", "part"}, NEW nick \in Nicks,
         key \in Channels => key \in joined,
         AddRow(key, type, nick), members' \in [Channels -> SUBSET Nicks]
  PROVE  HeldInv'
<1>1. /\ Types' /\ deleting = "no" /\ UNCHANGED <<up, deleting, missed, revived>> /\ Held' = Held
      /\ open' = open \cup {key} /\ open' \subseteq NetKeys
  BY RowSends DEF HeldInv, Types, ServerTypes
<1>2. PICK row \in Frames, count \in Frames :
        /\ row = Irc(Len(log) + 1, key, type, nick) /\ count = ReadState(key, unread[key] + 1)
        /\ inbox' = IF ~up THEN inbox
                    ELSE IF type = "message" THEN Append(Append(inbox, row), count) ELSE Append(inbox, row)
  <2>1. Types
    BY DEF HeldInv
  <2>2. RowIsSent(key, type, nick)
    BY <2>1, RowSends
  <2>3. QED BY Zenon, <2>2 DEF RowIsSent
<1>3. row.kind = "irc" /\ row.key = key /\ count.kind = "read-state" /\ count.key = key
  BY <1>2 DEF Irc, ReadState
<1>4. ASSUME NEW k PROVE /\ row \in Adds(k) <=> k = key
                         /\ row \notin Drops(k) /\ count \notin Adds(k) /\ count \notin Drops(k)
  BY <1>3, MovesAre
<1>5. \A k \in NetKeys : /\ Expects(row, k, revived) => k = key /\ k \in Channels
                         /\ Expects(count, k, revived) => k = key
  BY <1>3 DEF Expects
<1>6. \A k \in open : up => Stays(k)
  BY <1>1 DEF HeldInv, OpenStay
<1>7. \A k \in NetKeys \ (open \cup missed \cup revived) : ~Stays(k)
  BY <1>1 DEF HeldInv, ClosedGo, Excused
<1>8. key \in Channels => key \in open
  BY DEF HeldInv, Types, ServerTypes
<1>9. \A k \in NetKeys : up /\ Expects(row, k, revived) => Stays(k)
  BY <1>5, <1>6, <1>8
<1>10. ASSUME NEW k \in NetKeys, up
       PROVE  /\ k \in open' => Goes(k, row) /\ GoesOn(k, row, count)
              /\ k \notin open' \cup missed' \cup revived' => ~Goes(k, row) /\ ~GoesOn(k, row, count)
  BY <1>1, <1>4, <1>6, <1>7, <1>10 DEF Goes, GoesOn
<1>11. CASE ~up
  BY <1>1, <1>2, <1>11, DownKeepsHeld DEF HeldInv
<1>12. CASE up /\ type = "message"
  <2>1. \A k \in NetKeys : Expects(count, k, revived) => Goes(k, row)
    BY <1>4, <1>5 DEF Goes
  <2>2. inbox' = Append(Append(inbox, row), count)
    BY <1>2, <1>12
  <2>3. ClosedGo' /\ OpenStay' /\ Expected'
    BY <1>1, <1>9, <1>10, <1>12, <2>1, <2>2, TwoKeepHeld
  <2>4. QED BY <1>1, <2>3 DEF HeldInv
<1>13. CASE up /\ type # "message"
  <2>1. inbox' = Append(inbox, row) /\ revived \subseteq revived'
    BY <1>1, <1>2, <1>13
  <2>2. ClosedGo' /\ OpenStay' /\ Expected'
    BY <1>1, <1>9, <1>10, <1>13, <2>1, OneKeepsHeld
  <2>3. QED BY <1>1, <2>2 DEF HeldInv
<1>14. QED BY <1>11, <1>12, <1>13

\* What is known of all else that the server does
LEMMA SteadyHeld ==
  ASSUME HeldInv, Steady
  PROVE  /\ deleting = "no" /\ UNCHANGED <<up, deleting>> /\ Held' = Held
         /\ up => \A k \in open : Stays(k)
         /\ \A k \in NetKeys : k \notin open \cup missed \cup revived => ~Stays(k)
         /\ open \subseteq NetKeys /\ joined \subseteq Channels \cap open
<1>1. deleting = "no" /\ UNCHANGED <<up, deleting>> /\ Held' = Held
  BY DEF Steady
<1>2. QED BY <1>1 DEF HeldInv, ClosedGo, OpenStay, Excused, Types, ServerTypes

\* A join opens its channel, and the names find it there.
LEMMA SelfJoinKeepsHeld ==
  ASSUME HeldInv, NEW c \in Channels, SelfJoin(c) PROVE HeldInv'
<1>1. Types' /\ Steady /\ UNCHANGED <<missed, revived>> /\ open' = open \cup {c} /\ c \in NetKeys
  BY SelfJoinSends, KeysAre DEF HeldInv
<1>2. PICK join \in Frames, names \in Frames, nicks \in SUBSET Nicks :
        /\ join = Ephemeral(c, "channel-joined", {}) /\ names = Ephemeral(c, "names", nicks)
        /\ inbox' = IF up THEN Append(Append(inbox, join), names) ELSE inbox
  BY SelfJoinSends DEF HeldInv
<1>3. /\ join.kind = "ephemeral" /\ join.key = c /\ join.type = "channel-joined"
      /\ names.kind = "ephemeral" /\ names.key = c /\ names.type = "names"
  BY <1>2 DEF Ephemeral
<1>4. ASSUME NEW k PROVE /\ join \in Adds(k) <=> k = c
                         /\ join \notin Drops(k) /\ names \notin Adds(k) /\ names \notin Drops(k)
  BY <1>3, MovesAre
<1>5. \A k \in NetKeys : ~Expects(join, k, revived) /\ (Expects(names, k, revived) => k = c)
  BY <1>3 DEF Expects
<1>6. CASE ~up
  BY <1>1, <1>2, <1>6, SteadyHeld, DownKeepsHeld DEF HeldInv
<1>7. CASE up
  <2>1. \A k \in NetKeys : Expects(names, k, revived) => Goes(k, join)
    BY <1>4, <1>5 DEF Goes
  <2>2. ASSUME NEW k \in NetKeys
        PROVE  /\ k \in open' => GoesOn(k, join, names)
               /\ k \notin open' \cup missed' \cup revived => ~GoesOn(k, join, names)
    BY <1>1, <1>4, <1>7, SteadyHeld DEF Goes, GoesOn
  <2>3. inbox' = Append(Append(inbox, join), names) /\ open' \subseteq NetKeys /\ revived' = revived
    BY <1>1, <1>2, <1>7, SteadyHeld
  <2>4. ClosedGo' /\ OpenStay' /\ Expected'
    BY <1>5, <1>7, <2>1, <2>2, <2>3, SteadyHeld, <1>1, TwoKeepHeld
  <2>5. QED BY <1>1, <2>4 DEF HeldInv
<1>8. QED BY <1>6, <1>7

\* A parted channel stays as it is, open or not.
LEMMA SelfPartKeepsHeld ==
  ASSUME HeldInv, NEW c \in Channels, SelfPart(c) PROVE HeldInv'
<1>1. Types' /\ Steady /\ UNCHANGED <<missed, revived, open>>
  BY SelfPartSends DEF HeldInv
<1>2. PICK part \in Frames :
        part = Ephemeral(c, "channel-parted", {}) /\ inbox' = IF up THEN Append(inbox, part) ELSE inbox
  BY SelfPartSends DEF HeldInv
<1>3. part.kind = "ephemeral" /\ part.type = "channel-parted"
  BY <1>2 DEF Ephemeral
<1>4. ASSUME NEW k PROVE part \notin Adds(k) /\ part \notin Drops(k) /\ ~Expects(part, k, revived')
  BY <1>3, MovesAre DEF Expects
<1>5. CASE ~up
  BY <1>1, <1>2, <1>5, SteadyHeld, DownKeepsHeld DEF HeldInv
<1>6. CASE up
  <2>1. \A k : Goes(k, part) <=> Stays(k)
    BY <1>4 DEF Goes
  <2>2. inbox' = Append(inbox, part) /\ revived \subseteq revived' /\ open' \subseteq NetKeys
    BY <1>1, <1>2, <1>6, SteadyHeld
  <2>3. ClosedGo' /\ OpenStay' /\ Expected'
    BY <1>1, <1>4, <1>6, <2>1, <2>2, SteadyHeld, OneKeepsHeld
  <2>4. QED BY <1>1, <2>3 DEF HeldInv
<1>7. QED BY <1>5, <1>6

\* A closing takes out what is not open any more.
LEMMA CloseKeepsHeld ==
  ASSUME HeldInv, NEW key \in NetKeys, Close(key) PROVE HeldInv'
<1>1. /\ Types' /\ Steady /\ key \in open /\ revived' = revived /\ open' = open \ {key}
      /\ missed' = IF up THEN missed ELSE missed \cup {key}
  BY CloseSends DEF HeldInv
<1>2. PICK closed \in Frames :
        /\ closed = Closed(key)
        /\ key \notin joined => inbox' = IF up THEN Append(inbox, closed) ELSE inbox
        /\ key \in joined => \E part \in Frames :
             /\ part = Ephemeral(key, "channel-parted", {})
             /\ inbox' = IF up THEN Append(Append(inbox, closed), part) ELSE inbox
  BY CloseSends DEF HeldInv
<1>3. closed.kind = "buffer-closed" /\ closed.key = key
  BY <1>2 DEF Closed
<1>4. ASSUME NEW k PROVE closed \notin Adds(k) /\ (closed \in Drops(k) <=> k = key) /\ ~Expects(closed, k, revived')
  BY <1>3, MovesAre DEF Expects
<1>5. open' \subseteq NetKeys /\ revived \subseteq revived'
  BY <1>1, SteadyHeld
<1>6. \A k \in NetKeys : up => /\ k \in open' => Goes(k, closed)
                               /\ k \notin open' \cup missed' \cup revived' => ~Goes(k, closed)
  BY <1>1, <1>4, SteadyHeld DEF Goes
<1>7. CASE ~up
  <2>1. inbox' = inbox
    BY <1>2, <1>7
  <2>2. \A k \in NetKeys \ (open' \cup missed' \cup revived') : k \notin open \cup missed
    BY <1>1, <1>7
  <2>3. QED BY <1>1, <1>7, <2>1, <2>2, SteadyHeld, DownKeepsHeld DEF HeldInv
<1>8. CASE up /\ key \notin joined
  <2>1. inbox' = Append(inbox, closed)
    BY <1>2, <1>8
  <2>2. ClosedGo' /\ OpenStay' /\ Expected'
    BY <1>1, <1>4, <1>5, <1>6, <1>8, <2>1, SteadyHeld, OneKeepsHeld
  <2>3. QED BY <1>1, <2>2 DEF HeldInv
<1>9. CASE up /\ key \in joined
  <2>1. PICK part \in Frames : part = Ephemeral(key, "channel-parted", {}) /\ inbox' = Append(Append(inbox, closed), part)
    BY <1>2, <1>9
  <2>2. part.kind = "ephemeral" /\ part.type = "channel-parted"
    BY <2>1 DEF Ephemeral
  <2>3. ASSUME NEW k PROVE part \notin Adds(k) /\ part \notin Drops(k) /\ ~Expects(part, k, revived)
    BY <2>2, MovesAre DEF Expects
  <2>4. \A k : GoesOn(k, closed, part) <=> Goes(k, closed)
    BY <2>3 DEF GoesOn
  <2>5. inbox' = Append(Append(inbox, closed), part)
    BY <2>1
  <2>6. ClosedGo' /\ OpenStay' /\ Expected'
    BY <1>1, <1>4, <1>5, <1>6, <1>9, <2>3, <2>4, <2>5, SteadyHeld, TwoKeepHeld
  <2>7. QED BY <1>1, <2>6 DEF HeldInv
<1>10. QED BY <1>7, <1>8, <1>9

\* An opening brings in what is open from then on.
LEMMA OpenKeepsHeld ==
  ASSUME HeldInv, NEW key \in NetKeys, Open(key) PROVE HeldInv'
<1>1. Types' /\ Steady /\ UNCHANGED <<missed, revived>> /\ open' = open \cup {key}
  BY OpenSends DEF HeldInv
<1>2. PICK shell \in Frames, opened \in Frames :
        /\ opened = Opened(key) /\ shell.kind = "backlog" /\ shell.key = key
        /\ inbox' = IF up THEN Append(Append(inbox, shell), opened) ELSE inbox
  BY OpenSends DEF HeldInv
<1>3. opened.kind = "buffer-opened" /\ opened.key = key
  BY <1>2 DEF Opened
<1>4. ASSUME NEW k PROVE /\ shell \in Adds(k) <=> k = key
                         /\ opened \in Adds(k) <=> k = key
                         /\ shell \notin Drops(k) /\ opened \notin Drops(k)
  BY <1>2, <1>3, MovesAre
<1>5. \A k \in NetKeys : ~Expects(shell, k, revived) /\ (Expects(opened, k, revived) => k = key)
  BY <1>2, <1>3 DEF Expects
<1>6. CASE ~up
  BY <1>1, <1>2, <1>6, SteadyHeld, DownKeepsHeld DEF HeldInv
<1>7. CASE up
  <2>1. \A k \in NetKeys : Expects(opened, k, revived) => Goes(k, shell)
    BY <1>4, <1>5 DEF Goes
  <2>2. ASSUME NEW k \in NetKeys
        PROVE  /\ k \in open' => GoesOn(k, shell, opened)
               /\ k \notin open' \cup missed' \cup revived => ~GoesOn(k, shell, opened)
    BY <1>1, <1>4, <1>7, SteadyHeld DEF Goes, GoesOn
  <2>3. inbox' = Append(Append(inbox, shell), opened) /\ open' \subseteq NetKeys /\ revived' = revived
    BY <1>1, <1>2, <1>7, SteadyHeld
  <2>4. ClosedGo' /\ OpenStay' /\ Expected'
    BY <1>1, <1>5, <1>7, <2>1, <2>2, <2>3, SteadyHeld, TwoKeepHeld
  <2>5. QED BY <1>1, <2>4 DEF HeldInv
<1>8. QED BY <1>6, <1>7

\* A renaming takes one out and brings the other in.
LEMMA RenameKeepsHeld ==
  ASSUME HeldInv, NEW from \in Queries, NEW to \in Queries, Rename(from, to) PROVE HeldInv'
<1>1. /\ Types' /\ Steady /\ from # to /\ from \in open /\ revived' = revived
      /\ open' = (open \ {from}) \cup {to}
      /\ missed' = IF up /\ from \notin missed THEN missed ELSE missed \cup {from, to}
  BY RenameSends DEF HeldInv
<1>2. PICK renamed \in Frames, count \in Frames :
        /\ renamed = Renamed(from, to) /\ count = ReadState(to, unread[to] + unread[from])
        /\ inbox' = IF up THEN Append(Append(inbox, renamed), count) ELSE inbox
  BY RenameSends DEF HeldInv
<1>3. /\ renamed.kind = "buffer-renamed" /\ renamed.from = from /\ renamed.to = to
      /\ count.kind = "read-state" /\ count.key = to /\ from \in NetKeys /\ to \in NetKeys
  BY <1>2, KeysAre DEF Renamed, ReadState
<1>4. ASSUME NEW k PROVE /\ renamed \in Adds(k) <=> k = to
                         /\ renamed \in Drops(k) <=> k = from
                         /\ count \notin Adds(k) /\ count \notin Drops(k)
  BY <1>3, MovesAre
<1>5. \A k \in NetKeys : (Expects(renamed, k, revived) => k = from) /\ (Expects(count, k, revived) => k = to)
  BY <1>3 DEF Expects
<1>6. CASE ~up
  <2>1. \A k \in NetKeys \ (open' \cup missed' \cup revived') : k \notin open \cup missed
    BY <1>1, <1>6
  <2>2. inbox' = inbox
    BY <1>2, <1>6
  <2>3. QED BY <1>1, <1>6, <2>1, <2>2, SteadyHeld, DownKeepsHeld DEF HeldInv
<1>7. CASE up
  <2>1. /\ \A k \in NetKeys : Expects(count, k, revived) => Goes(k, renamed)
        /\ \A k \in NetKeys : Expects(renamed, k, revived) => Stays(k)
    BY <1>1, <1>4, <1>5, <1>7, SteadyHeld DEF Goes
  <2>2. ASSUME NEW k \in NetKeys
        PROVE  /\ k \in open' => GoesOn(k, renamed, count)
               /\ k \notin open' \cup missed' \cup revived => ~GoesOn(k, renamed, count)
    <3>1. GoesOn(k, renamed, count) <=> k = to \/ (Stays(k) /\ k # from)
      BY <1>1, <1>4 DEF Goes, GoesOn
    <3>2. k \notin open' \cup missed' \cup revived => k = from \/ k \notin open \cup missed \cup revived
      BY <1>1
    <3>3. QED BY <1>1, <1>7, <3>1, <3>2, SteadyHeld
  <2>3. inbox' = Append(Append(inbox, renamed), count) /\ open' \subseteq NetKeys
    BY <1>1, <1>2, <1>3, <1>7, SteadyHeld
  <2>4. ClosedGo' /\ OpenStay' /\ Expected'
    BY <1>1, <1>7, <2>1, <2>2, <2>3, SteadyHeld, TwoKeepHeld
  <2>5. QED BY <1>1, <2>4 DEF HeldInv
<1>8. QED BY <1>6, <1>7

\* A clearing neither brings in nor takes out.
LEMMA ClearKeepsHeld ==
  ASSUME HeldInv, NEW key \in NetKeys, Clear(key) PROVE HeldInv'
<1>1. /\ Types' /\ Steady /\ UNCHANGED <<revived, open>>
      /\ missed' = IF up THEN missed ELSE missed \cup {key}
  BY ClearSends DEF HeldInv
<1>2. PICK clear \in Frames, count \in Frames :
        /\ clear = Cleared(key, Len(log) + 1) /\ count = ReadState(key, 0)
        /\ inbox' = IF up THEN Append(Append(inbox, clear), count) ELSE inbox
  BY ClearSends DEF HeldInv
<1>3. clear.kind = "buffer-cleared" /\ count.kind = "read-state" /\ count.unread = 0
  BY <1>2 DEF Cleared, ReadState
<1>4. ASSUME NEW k PROVE /\ clear \notin Adds(k) /\ clear \notin Drops(k) /\ count \notin Adds(k) /\ count \notin Drops(k)
                         /\ ~Expects(clear, k, revived) /\ ~Expects(count, k, revived)
  BY <1>3, MovesAre DEF Expects
<1>5. CASE ~up
  <2>1. \A k \in NetKeys \ (open' \cup missed' \cup revived') : k \notin open \cup missed
    BY <1>1, <1>5
  <2>2. inbox' = inbox
    BY <1>2, <1>5
  <2>3. QED BY <1>1, <1>5, <2>1, <2>2, SteadyHeld, DownKeepsHeld DEF HeldInv
<1>6. CASE up
  <2>1. \A k : GoesOn(k, clear, count) <=> Stays(k)
    BY <1>4 DEF Goes, GoesOn
  <2>2. inbox' = Append(Append(inbox, clear), count) /\ open' \subseteq NetKeys
    BY <1>1, <1>2, <1>6, SteadyHeld
  <2>3. ClosedGo' /\ OpenStay' /\ Expected'
    BY <1>1, <1>4, <1>6, <2>1, <2>2, SteadyHeld, TwoKeepHeld
  <2>4. QED BY <1>1, <2>3 DEF HeldInv
<1>7. QED BY <1>5, <1>6

\* Counts of zero, however many, bring nothing in and take nothing out.
LEMMA MarkKeepsHeld ==
  ASSUME HeldInv, MarkAllRead PROVE HeldInv'
<1>1. Types' /\ Steady /\ UNCHANGED <<open, missed, revived>>
  BY MarkSends DEF HeldInv
<1>2. PICK s \in Seq(Frames) :
        inbox' = (IF up THEN inbox \o s ELSE inbox) /\ \A i \in 1..Len(s) : \E k \in NetKeys : s[i] = ReadState(k, 0)
  BY MarkSends DEF HeldInv
<1>3. ASSUME NEW i \in 1..Len(s), NEW k
      PROVE  s[i] \notin Adds(k) \cup Drops(k) /\ ~Expects(s[i], k, revived)
  <2>1. s[i] \in Frames /\ s[i].kind = "read-state" /\ s[i].unread = 0
    <3>1. PICK l \in NetKeys : s[i] = ReadState(l, 0)
      BY <1>2, <1>3
    <3>2. s[i] \in Frames
      BY <1>3
    <3>3. QED BY <3>1, <3>2 DEF ReadState
  <2>2. QED BY <2>1, MovesAre DEF Expects
<1>4. CASE ~up
  BY <1>1, <1>2, <1>4, SteadyHeld, DownKeepsHeld DEF HeldInv
<1>5. CASE up
  <2> DEFINE n == Len(inbox)
             m == Len(inbox')
  <2>1. /\ n \in Nat /\ m \in Nat /\ n <= m
        /\ \A i \in 1..n : inbox'[i] = inbox[i]
        /\ \A i \in 1..m : i > n => i - n \in 1..Len(s) /\ inbox'[i] = s[i - n]
    <3>1. inbox \in Seq(Frames) /\ inbox' = inbox \o s
      BY <1>2, <1>5 DEF HeldInv, Types, LinkTypes
    <3>2. /\ Len(inbox \o s) = Len(inbox) + Len(s) /\ Len(inbox) \in Nat /\ Len(s) \in Nat
          /\ \A i \in 1..Len(inbox) + Len(s) :
               (inbox \o s)[i] = IF i <= Len(inbox) THEN inbox[i] ELSE s[i - Len(inbox)]
      BY <3>1, ConcatProperties
    <3>3. \A i \in 1..n : i \in 1..Len(inbox) + Len(s) /\ i <= Len(inbox)
      BY <3>2
    <3>4. \A i \in 1..m : i > n => i \in 1..Len(inbox) + Len(s) /\ ~(i <= Len(inbox)) /\ i - n \in 1..Len(s)
      BY <3>1, <3>2
    <3>5. QED BY <3>1, <3>2, <3>3, <3>4
  <2> HIDE DEF n, m
  <2>2. ASSUME NEW k PROVE Stays(k)' <=> Stays(k)
    <3>1. \A i \in 1..m : i > n => inbox'[i] \notin Adds(k) \cup Drops(k)
      BY <1>3, <2>1
    <3>2. EndsAt(inbox', m, Adds(k), Drops(k), k, Held) <=> EndsAt(inbox', n, Adds(k), Drops(k), k, Held)
      BY <2>1, <3>1, EndsIdle
    <3>3. EndsAt(inbox', n, Adds(k), Drops(k), k, Held) <=> EndsAt(inbox, n, Adds(k), Drops(k), k, Held)
      BY <2>1, EndsSame
    <3>4. Stays(k)' <=> EndsAt(inbox', m, Adds(k), Drops(k), k, Held)
      BY Zenon, <1>1, SteadyHeld DEF Stays, Ends, m
    <3>5. QED BY Zenon, <3>2, <3>3, <3>4 DEF Stays, Ends, n
  <2>3. ClosedGo' /\ OpenStay'
    BY <1>1, <2>2, SteadyHeld DEF HeldInv, ClosedGo, OpenStay, Excused
  <2>4. Found(inbox', Held, revived)
    <3>1. ASSUME NEW j \in 1..m, NEW k \in NetKeys, Expects(inbox'[j], k, revived)
          PROVE  EndsAt(inbox', j - 1, Adds(k), Drops(k), k, Held)
      <4>1. j \in 1..n
        <5>1. ~(j > n)
          BY <1>3, <2>1, <3>1
        <5>2. QED BY <2>1, <5>1
      <4>2. inbox'[j] = inbox[j] /\ j - 1 \in Nat /\ \A i \in 1..(j - 1) : i \in 1..n
        BY <2>1, <4>1
      <4>3. EndsAt(inbox, j - 1, Adds(k), Drops(k), k, Held)
        BY <1>1, <3>1, <4>1, <4>2, SteadyHeld DEF HeldInv, Expected, Found, n
      <4>4. \A i \in 1..(j - 1) : inbox'[i] = inbox[i]
        BY <2>1, <4>2
      <4>5. QED BY <4>2, <4>3, <4>4, EndsSame
    <3>2. QED BY <3>1 DEF Found, m
  <2>5. Expected'
    BY <1>1, <2>4, SteadyHeld DEF Expected
  <2>6. QED BY <1>1, <2>3, <2>5 DEF HeldInv
<1>6. QED BY <1>4, <1>5

\* A row of the system buffer brings that in, which is there anyway.
LEMMA SystemKeepsHeld ==
  ASSUME HeldInv, SystemRow PROVE HeldInv'
<1>1. Types' /\ Steady /\ UNCHANGED <<open, missed, revived>>
  BY SystemSends DEF HeldInv
<1>2. PICK row \in Frames :
        row = Irc(systemHead + 1, System, "message", NoId) /\ inbox' = IF up THEN Append(inbox, row) ELSE inbox
  BY SystemSends DEF HeldInv
<1>3. row.kind = "irc" /\ row.key = System
  BY <1>2 DEF Irc
<1>4. ASSUME NEW k \in NetKeys PROVE row \notin Adds(k) /\ row \notin Drops(k) /\ ~Expects(row, k, revived')
  BY <1>3, MovesAre, KeysAre DEF Expects
<1>5. CASE ~up
  BY <1>1, <1>2, <1>5, SteadyHeld, DownKeepsHeld DEF HeldInv
<1>6. CASE up
  <2>1. \A k \in NetKeys : Goes(k, row) <=> Stays(k)
    BY <1>4 DEF Goes
  <2>2. inbox' = Append(inbox, row) /\ revived \subseteq revived' /\ open' \subseteq NetKeys
    BY <1>1, <1>2, <1>6, SteadyHeld
  <2>3. ClosedGo' /\ OpenStay' /\ Expected'
    BY <1>1, <1>4, <1>6, <2>1, <2>2, SteadyHeld, OneKeepsHeld
  <2>4. QED BY <1>1, <2>3 DEF HeldInv
<1>7. QED BY <1>5, <1>6

\* A burst brings in the system buffer and all that is open, and takes nothing out.
LEMMA ConnectKeepsHeld ==
  ASSUME HeldInv, Connect PROVE HeldInv'
<1>1. Types' /\ ~up /\ up' /\ UNCHANGED <<client, server, deleting, missed, revived>>
  BY ConnectSends DEF HeldInv
<1>2. PICK snap \in Frames, at \in 1..Len(inbox') :
        /\ snap.kind = "snapshot"
        /\ \A i \in 1..Len(inbox') : \/ i = at /\ inbox'[i] = snap
                                     \/ Mark(inbox'[i])
                                     \/ \E k \in open \cup {System} : Tells(inbox'[i], k)
        /\ \A k \in open \cup {System} : \E i \in 1..Len(inbox') : Tells(inbox'[i], k)
  <2>1. PICK snap \in Frames, at \in 1..Len(inbox') :
          /\ inbox'[at] = snap /\ snap.kind = "snapshot"
          /\ \A i \in 1..Len(inbox') : \/ i = at
                                       \/ Mark(inbox'[i])
                                       \/ i > at /\ \E k \in open \cup {System} : Tells(inbox'[i], k)
          /\ \A k \in open \cup {System} : \E i \in 1..Len(inbox') : i > at /\ Tells(inbox'[i], k)
    BY Zenon, ConnectSends DEF HeldInv
  <2>2. QED BY Zenon, <2>1
<1>3. UNCHANGED <<open, buffers>> /\ Held' = Held /\ open \subseteq NetKeys
  BY <1>1 DEF server, client, Held, HeldInv, Types, ServerTypes
<1>4. ASSUME NEW i \in 1..Len(inbox'), NEW k
      PROVE  /\ inbox'[i] \notin Drops(k) /\ (k \in NetKeys => ~Expects(inbox'[i], k, revived))
             /\ inbox'[i] \in Adds(k) => k \in open \cup {System}
  <2>1. CASE inbox'[i] = snap
    BY <1>2, <2>1, MovesAre DEF Expects
  <2>2. CASE Mark(inbox'[i])
    BY <2>2, MovesAre DEF Expects, Mark
  <2>3. ASSUME NEW l \in open \cup {System}, Tells(inbox'[i], l)
        PROVE  /\ inbox'[i] \notin Drops(k) /\ (k \in NetKeys => ~Expects(inbox'[i], k, revived))
               /\ inbox'[i] \in Adds(k) => k \in open \cup {System}
    BY <2>3, MovesAre DEF Tells, Expects
  <2>4. QED BY <1>2, <2>1, <2>2, <2>3
<1>5. ASSUME NEW k \in open \cup {System} PROVE Ends(inbox', Adds(k), Drops(k), k, Held)
  <2>1. PICK i \in 1..Len(inbox') : Tells(inbox'[i], k)
    BY <1>2
  <2>2. inbox'[i] \in Adds(k)
    BY <2>1, MovesAre DEF Tells
  <2>3. QED BY <1>4, <2>2 DEF Ends, EndsAt
<1>6. ASSUME NEW k \in NetKeys \ (open \cup Excused), deleting # "asked"
      PROVE  ~Ends(inbox', Adds(k), Drops(k), k, Held)
  <2>1. inbox \in {<<>>, <<SocketLost>>}
    BY <1>1 DEF HeldInv, Types, LinkTypes
  <2>2. \A i \in 1..Len(inbox) : inbox[i] \notin Drops(k)
    <3>1. SocketLost \notin Drops(k)
      BY DEF Drops, SocketLost
    <3>2. CASE inbox = <<>>
      BY <3>2
    <3>3. CASE inbox = <<SocketLost>>
      BY <3>1, <3>3
    <3>4. QED BY <2>1, <3>2, <3>3
  <2>3. ~Stays(k)
    BY <1>6 DEF HeldInv, ClosedGo
  <2>4. k \notin Held
    BY <2>2, <2>3 DEF Stays, Ends, EndsAt
  <2>5. k # System
    BY KeysAre
  <2>6. QED BY <1>4, <1>6, <2>4, <2>5 DEF Ends, EndsAt
<1>7. ClosedGo'
  BY <1>1, <1>3, <1>6 DEF ClosedGo, Stays, Excused
<1>8. OpenStay'
  BY <1>3, <1>5 DEF OpenStay, Stays
<1>9. Expected'
  BY <1>1, <1>4 DEF Expected, Found
<1>10. QED BY <1>1, <1>7, <1>8, <1>9 DEF HeldInv

\* What a lost connection carried was news, or took nothing out.
LEMMA LoseKeepsHeld ==
  ASSUME HeldInv, Lose PROVE HeldInv'
<1>1. /\ Types' /\ ~up' /\ UNCHANGED <<client, server, deleting, revived>>
      /\ inbox' = <<SocketLost>> /\ missed' = missed \cup NewsKeys(inbox)
  BY LoseDoes DEF HeldInv
<1>2. UNCHANGED open /\ Held' = Held
  BY <1>1 DEF server, client, Held
<1>3. SocketLost \in Frames /\ SocketLost.kind = "lost" /\ Len(inbox') = 1 /\ inbox'[1] = SocketLost
  BY <1>1, FramesAre DEF SocketLost
<1>4. ASSUME NEW k PROVE SocketLost \notin Adds(k) /\ SocketLost \notin Drops(k) /\ ~Expects(SocketLost, k, revived)
  BY <1>3, MovesAre DEF Expects
<1>5. \A i \in 1..Len(inbox') : inbox'[i] = SocketLost
  BY <1>3
<1>6. ASSUME deleting # "asked", NEW k \in NetKeys \ (open \cup Excused')
      PROVE  ~Stays(k)'
  <2>1. ~Stays(k)
    BY <1>1, <1>6 DEF HeldInv, ClosedGo, Excused
  <2>2. ASSUME NEW i \in 1..Len(inbox) PROVE inbox[i] \notin Drops(k)
    <3>1. inbox[i] \in Range(inbox)
      BY DEF HeldInv, Types, LinkTypes, Range
    <3>2. PICK f : f = inbox[i]
      OBVIOUS
    <3>3. f \in Drops(k) => k \in NewsKeys(inbox)
      <4>1. SUFFICES ASSUME f \in Drops(k) PROVE k \in NewsKeys(inbox)
        OBVIOUS
      <4>2. CASE f.kind = "buffer-closed" /\ f.key = k
        BY <3>1, <3>2, <4>2 DEF NewsKeys
      <4>3. CASE f.kind = "buffer-renamed" /\ f.from = k
        BY <3>1, <3>2, <4>3 DEF NewsKeys
      <4>4. QED BY <4>1, <4>2, <4>3 DEF Drops
    <3>4. QED BY <1>1, <1>6, <3>2, <3>3 DEF Excused
  <2>3. k \notin Held
    BY <2>1, <2>2 DEF Stays, Ends, EndsAt
  <2>4. ~Ends(inbox', Adds(k), Drops(k), k, Held)
    BY <1>4, <1>5, <2>3 DEF Ends, EndsAt
  <2>5. QED BY Zenon, <1>2, <2>4 DEF Stays
<1>7. ClosedGo'
  BY <1>1, <1>2, <1>6 DEF ClosedGo
<1>8. OpenStay'
  BY <1>1 DEF OpenStay
<1>9. Expected'
  BY <1>1, <1>4, <1>5 DEF Expected, Found
<1>10. QED BY <1>1, <1>7, <1>8, <1>9 DEF HeldInv

\* A reply finds its conversation, or may bring it back.
LEMMA AnswerKeepsHeld ==
  ASSUME HeldInv, NEW key \in NetKeys, Answer(key) PROVE HeldInv'
<1>1. /\ Types' /\ up /\ deleting = "no" /\ UNCHANGED <<client, server, up, deleting, missed>>
      /\ revived' = IF key \in open THEN revived ELSE revived \cup {key}
  BY AnswerSends DEF HeldInv
<1>2. PICK h \in Frames : h.kind = "history" /\ h.key = key /\ inbox' = Append(inbox, h)
  BY AnswerSends DEF HeldInv
<1>3. UNCHANGED open /\ Held' = Held /\ open' \subseteq NetKeys /\ revived \subseteq revived'
  BY <1>1 DEF server, client, Held, HeldInv, Types, ServerTypes
<1>4. ASSUME NEW k PROVE (h \in Adds(k) <=> k = key) /\ h \notin Drops(k)
                         /\ (Expects(h, k, revived') => k = key /\ key \in open)
  BY <1>1, <1>2, MovesAre DEF Expects
<1>5. (\A k \in open : Stays(k)) /\ \A k \in NetKeys : k \notin open \cup missed \cup revived => ~Stays(k)
  BY <1>1 DEF HeldInv, OpenStay, ClosedGo, Excused
<1>6. ASSUME NEW k \in NetKeys
      PROVE  /\ Expects(h, k, revived') => Stays(k)
             /\ k \in open' => Goes(k, h)
             /\ k \notin open' \cup missed' \cup revived' => ~Goes(k, h)
  BY <1>1, <1>3, <1>4, <1>5 DEF Goes
<1>7. ClosedGo' /\ OpenStay' /\ Expected'
  BY <1>1, <1>2, <1>3, <1>6, OneKeepsHeld
<1>8. QED BY <1>1, <1>7 DEF HeldInv

\* While the network is being deleted only the system buffer counts.
LEMMA DeleteKeepsHeld ==
  ASSUME HeldInv, DeleteNetwork PROVE HeldInv'
<1>1. Types' /\ deleting' = "asked" /\ UNCHANGED <<client, up, inbox>>
  BY DeleteDoes DEF HeldInv
<1>2. Held' = Held
  BY <1>1 DEF client, Held
<1>3. Stays(System)' <=> Stays(System)
  BY Zenon, <1>1, <1>2 DEF Stays
<1>4. QED BY <1>1, <1>3 DEF HeldInv, ClosedGo, OpenStay, Expected

\* What is still on its way when the network is removed may bring conversations back.
LEMMA RemoveKeepsHeld ==
  ASSUME HeldInv, RemoveNetwork PROVE HeldInv'
<1>1. /\ Types' /\ deleting' = "done" /\ Held' = Held \ NetKeys /\ UNCHANGED <<server, link, missed>>
      /\ \A i \in 1..Len(inbox) :
           /\ inbox[i].kind \in {"irc", "ephemeral", "backlog", "history", "buffer-opened"} => inbox[i].key \in revived'
           /\ inbox[i].kind = "buffer-renamed" => inbox[i].to \in revived'
  BY RemoveDoes DEF HeldInv
<1>2. UNCHANGED <<inbox, up>>
  BY <1>1 DEF link
<1>3. ASSUME NEW k \in NetKeys, k \notin revived' PROVE ~Stays(k)'
  <2>1. \A i \in 1..Len(inbox) : inbox[i] \notin Adds(k)
    BY <1>1, <1>3 DEF Adds
  <2>2. ~Ends(inbox, Adds(k), Drops(k), k, Held \ NetKeys)
    BY <1>3, <2>1 DEF Ends, EndsAt
  <2>3. QED BY Zenon, <1>1, <1>2, <2>2 DEF Stays
<1>4. Stays(System)' <=> Stays(System)
  <2>1. System \in Held \ NetKeys <=> System \in Held
    BY KeysAre
  <2>2. Ends(inbox, Adds(System), Drops(System), System, Held \ NetKeys)
          <=> Ends(inbox, Adds(System), Drops(System), System, Held)
    BY <2>1 DEF Ends, EndsAt
  <2>3. QED BY Zenon, <1>1, <1>2, <2>2 DEF Stays
<1>5. ClosedGo'
  BY <1>3 DEF ClosedGo, Excused
<1>6. OpenStay'
  BY <1>1, <1>2, <1>4 DEF HeldInv, OpenStay
<1>7. Expected'
  BY <1>1 DEF Expected
<1>8. QED BY <1>1, <1>5, <1>6, <1>7 DEF HeldInv

\* At the start nothing is held, and the connection is down.
LEMMA InitTypes ==
  ASSUME Init PROVE Types /\ Held = {}
<1>1. PICK first \in {CHOOSE c \in Channels : TRUE, CHOOSE q \in Queries : TRUE}, nick \in Nicks :
        /\ log = <<[key |-> first, type |-> "message", nick |-> nick]>>
        /\ open = Channels \cup {first}
        /\ unread = [key \in Keys |-> IF key = first THEN 1 ELSE 0]
  BY DEF Init
<1>2. /\ buffers = <<>> /\ cursor = 0 /\ backlogComplete = FALSE /\ snapshotChannels = <<>>
      /\ systemHead = SystemHead
      /\ joined = Channels /\ members = [c \in Channels |-> Nicks]
      /\ cleared = [key \in Keys |-> 0]
      /\ up = FALSE /\ inbox = <<>> /\ asked = {} /\ deleting = "no"
      /\ missed = {} /\ revived = {} /\ skipped = {}
  BY DEF Init, NoId
<1>3. first \in NetKeys
  BY BuffersAssumption, KeysAre
<1>4. Held = {} /\ StoreTypes
  <2>1. DOMAIN buffers = {} /\ buffers \in [{} -> Buffer]
    BY <1>2
  <2>2. snapshotChannels \in [{} -> SUBSET Nicks]
    BY <1>2
  <2>3. snapshotChannels \in Rosters
    BY <2>2 DEF Rosters
  <2>4. QED BY <1>2, <2>1, <2>3 DEF StoreTypes, Held
<1>5. ServerTypes
  <2>1. [key |-> first, type |-> "message", nick |-> nick] \in LogRows
    BY <1>3 DEF LogRows
  <2>2. log \in Seq(LogRows) /\ Len(log) = 1
    BY <1>1, <2>1
  <2>3. systemHead \in Nat
    BY <1>2, BuffersAssumption
  <2>4. open \subseteq NetKeys /\ joined \subseteq Channels \cap open
    BY <1>1, <1>2, <1>3, KeysAre
  <2>5. members \in [Channels -> SUBSET Nicks] /\ unread \in [Keys -> Nat] /\ cleared \in [Keys -> Nat]
    BY <1>1, <1>2
  <2>6. \A k \in NetKeys : cleared[k] <= Len(log) + 1
    BY <1>2, <2>2, KeysAre
  <2>7. QED BY <2>2, <2>3, <2>4, <2>5, <2>6 DEF ServerTypes
<1>6. LinkTypes
  <2>1. inbox \in Seq(Frames) /\ (\A i \in 1..Len(inbox) : Sound(inbox[i])) /\ inbox \in {<<>>, <<SocketLost>>}
    BY <1>2
  <2>2. up \in BOOLEAN /\ asked = {} /\ missed \subseteq NetKeys /\ revived \subseteq Keys /\ skipped \subseteq Nat
    BY <1>2
  <2>3. QED BY <1>2, <2>1, <2>2 DEF LinkTypes
<1>7. QED BY <1>4, <1>5, <1>6 DEF Types

\* So what is open is not promised yet, and nothing is on its way.
LEMMA InitHeld ==
  ASSUME Init PROVE HeldInv
<1>1. Types /\ Held = {} /\ ~up /\ inbox = <<>>
  BY InitTypes DEF Init
<1>2. \A k : ~Stays(k)
  BY <1>1 DEF Stays, Ends, EndsAt
<1>3. QED BY <1>1, <1>2 DEF HeldInv, ClosedGo, OpenStay, Expected, Found

\* Every step keeps what is held right.
LEMMA NextKeepsHeld ==
  ASSUME HeldInv, [Next]_vars PROVE HeldInv'
<1>1. CASE ApplyFrame
  BY <1>1, ApplyKeepsTypes, ApplyKeepsHeld DEF HeldInv
<1>2. ASSUME NEW key \in NetKeys, Say(key) PROVE HeldInv'
  <2>1. /\ key \in Channels => key \in joined
        /\ \E nick \in Nicks : AddRow(key, "message", nick)
        /\ members' = members
    BY <1>2 DEF Say
  <2>2. members' \in [Channels -> SUBSET Nicks]
    BY <2>1 DEF HeldInv, Types, ServerTypes
  <2>3. QED BY <2>1, <2>2, RowKeepsHeld
<1>3. ASSUME NEW c \in Channels, MemberJoins(c) \/ MemberLeaves(c) PROVE HeldInv'
  <2>1. PICK nick \in Nicks, type \in {"join", "part"}, s \in SUBSET Nicks :
          AddRow(c, type, nick) /\ members' = [members EXCEPT ![c] = s] /\ c \in joined
    <3>1. members[c] \in SUBSET Nicks
      BY DEF HeldInv, Types, ServerTypes
    <3>2. CASE MemberJoins(c)
      <4>1. PICK nick \in Nicks : AddRow(c, "join", nick) /\ members' = [members EXCEPT ![c] = members[c] \cup {nick}]
                                  /\ c \in joined
        BY <3>2 DEF MemberJoins
      <4>2. members[c] \cup {nick} \in SUBSET Nicks
        BY <3>1
      <4>3. QED BY <4>1, <4>2
    <3>3. CASE MemberLeaves(c)
      <4>1. PICK nick \in members[c] : AddRow(c, "part", nick) /\ members' = [members EXCEPT ![c] = members[c] \ {nick}]
                                       /\ c \in joined
        BY <3>3 DEF MemberLeaves
      <4>2. members[c] \ {nick} \in SUBSET Nicks /\ nick \in Nicks
        BY <3>1
      <4>3. QED BY <4>1, <4>2
    <3>4. QED BY <1>3, <3>2, <3>3
  <2>2. members' \in [Channels -> SUBSET Nicks] /\ c \in NetKeys
    BY <2>1, KeysAre DEF HeldInv, Types, ServerTypes
  <2>3. QED BY <2>1, <2>2, RowKeepsHeld
<1>4. ASSUME NEW key \in NetKeys, Close(key) \/ Open(key) \/ Clear(key) PROVE HeldInv'
  BY <1>4, CloseKeepsHeld, OpenKeepsHeld, ClearKeepsHeld
<1>5. ASSUME NEW c \in Channels, SelfJoin(c) \/ SelfPart(c) PROVE HeldInv'
  BY <1>5, SelfJoinKeepsHeld, SelfPartKeepsHeld
<1>6. ASSUME NEW from \in Queries, NEW to \in Queries, Rename(from, to) PROVE HeldInv'
  BY <1>6, RenameKeepsHeld
<1>7. CASE MarkAllRead \/ SystemRow \/ Connect \/ Lose
  BY <1>7, MarkKeepsHeld, SystemKeepsHeld, ConnectKeepsHeld, LoseKeepsHeld
<1>8. ASSUME NEW key \in NetKeys, Hydrate(key) PROVE HeldInv'
  <2>1. Types' /\ UNCHANGED <<client, server, up, inbox, deleting, missed, revived>>
    BY <1>8, HydrateDoes DEF HeldInv
  <2>2. UNCHANGED open /\ Held' = Held
    BY <2>1 DEF server, client, Held
  <2>3. \A k : Stays(k)' <=> Stays(k)
    BY Zenon, <2>1, <2>2 DEF Stays
  <2>4. QED BY <2>1, <2>2, <2>3 DEF HeldInv, ClosedGo, OpenStay, Expected, Excused
<1>9. ASSUME NEW key \in NetKeys, Answer(key) PROVE HeldInv'
  BY <1>9, AnswerKeepsHeld
<1>10. CASE DeleteNetwork \/ RemoveNetwork
  BY <1>10, DeleteKeepsHeld, RemoveKeepsHeld
<1>11. CASE UNCHANGED vars
  <2>1. UNCHANGED <<buffers, cursor, backlogComplete, snapshotChannels, log, systemHead, open, joined, members,
                    unread, cleared, up, inbox, asked, deleting, missed, revived, skipped>>
    BY <1>11, StutterIs
  <2>2. Types'
    BY <2>1 DEF HeldInv, Types, StoreTypes, ServerTypes, LinkTypes, Held, Fits, Limit, Sound
  <2>3. Held' = Held /\ \A k : Stays(k)' <=> Stays(k)
    <3>1. Held' = Held
      BY <2>1 DEF Held
    <3>2. QED BY Zenon, <2>1, <3>1 DEF Stays
  <2>4. QED BY <2>1, <2>2, <2>3 DEF HeldInv, ClosedGo, OpenStay, Expected, Excused
<1>12. QED BY Zenon, <1>1, <1>2, <1>3, <1>4, <1>5, <1>6, <1>7, <1>8, <1>9, <1>10, <1>11 DEF Next, Network, User

\* What is held is right at every moment, with all that is on its way.
THEOREM HeldSafe == Spec => []HeldInv
<1>1. Init => HeldInv
  BY InitHeld
<1>2. HeldInv /\ [Next]_vars => HeldInv'
  BY NextKeepsHeld
<1>3. QED BY <1>1, <1>2, PTL DEF Spec

\* The types are those that the property names.
LEMMA HeldTypes ==
  ASSUME HeldInv PROVE TypeOK
<1>1. ASSUME NEW k \in Held PROVE buffers[k] \in Buffer /\ Newest(buffers[k].rows) <= buffers[k].newest
  <2>1. buffers[k] \in Buffer /\ buffers[k].rows \subseteq 1..buffers[k].newest
    BY DEF HeldInv, Types, StoreTypes, Fits
  <2>2. buffers[k].newest \in Nat
    BY <2>1 DEF Buffer
  <2>3. QED BY <2>1, <2>2, NewestIs
<1>2. DOMAIN snapshotChannels \subseteq Channels
  BY DEF HeldInv, Types, StoreTypes, Rosters
<1>3. QED BY <1>1, <1>2, KeysAre DEF TypeOK, HeldInv, Types, StoreTypes, ServerTypes, LinkTypes

\* Every variable of the store and of the server has its type, and a buffer's newest id
\* covers the rows it holds.
THEOREM BufferTypes == Spec => []TypeOK
BY HeldTypes, HeldSafe, PTL

\* A conversation that was closed does not come back unless it is open, and once the
\* burst is complete every open conversation is held.
THEOREM OpenIsHeld == Spec => []HeldIsOpen
<1>1. HeldInv => HeldIsOpen
  <2>1. SUFFICES ASSUME HeldInv, up, inbox = <<>>, deleting # "asked"
                 PROVE  /\ Held \subseteq open \cup {System} \cup missed \cup revived
                        /\ open \cup {System} \subseteq Held
    BY DEF HeldIsOpen, Quiet
  <2>2. \A k : Stays(k) <=> k \in Held
    BY <2>1, EndsNone DEF Stays, Ends
  <2>3. Held \subseteq NetKeys \cup {System} /\ open \subseteq NetKeys
    BY <2>1, KeysAre DEF HeldInv, Types, StoreTypes, ServerTypes
  <2>4. deleting # "no" => open = {}
    BY <2>1 DEF HeldInv, Types, LinkTypes
  <2>5. QED BY <2>1, <2>2, <2>3, <2>4 DEF HeldInv, ClosedGo, OpenStay, Excused
<1>2. QED BY <1>1, HeldSafe, PTL

--------------------------------------------------------------------------------
(* What a buffer says of itself *)

\* Whether a channel is joined: what says so, and what says that it is not
Joins(c) == {f \in Frames : \/ f.kind = "backlog" /\ f.key = c /\ f.joined
                            \/ f.kind = "ephemeral" /\ f.type = "channel-joined" /\ f.key = c}
Parts(c) == {f \in Frames : \/ f.kind = "backlog" /\ f.key = c /\ ~f.joined
                            \/ f.kind = "ephemeral" /\ f.type = "channel-parted" /\ f.key = c
                            \/ f.kind = "buffer-closed" /\ f.key = c}
\* A snapshot with a channel, and the slice of that channel behind it
Describes(c) == {f \in Frames : f.kind = "snapshot" /\ c \in DOMAIN f.channels}
Slices(c) == {f \in Frames : f.kind = "backlog" /\ f.key = c}

\* Whether n is in channel c: what says so, and what says that it is not
Enters(c, n) == {f \in Frames : \/ f.kind = "irc" /\ f.type = "join" /\ f.key = c /\ f.nick = n
                                \/ f.kind = "ephemeral" /\ f.type = "names" /\ f.key = c /\ n \in f.nicks
                                \/ f.kind = "snapshot" /\ c \in DOMAIN f.channels /\ n \in f.channels[c]}
Quits(c, n) == {f \in Frames : \/ f.kind = "irc" /\ f.type = "part" /\ f.key = c /\ f.nick = n
                               \/ f.kind = "ephemeral" /\ f.type = "names" /\ f.key = c /\ n \notin f.nicks
                               \/ f.kind = "snapshot" /\ c \in DOMAIN f.channels /\ n \notin f.channels[c]}
\* What leaves a channel without members, and what names them again
Empties(c) == {f \in Frames : \/ f.kind = "buffer-closed" /\ f.key = c
                              \/ f.kind = "ephemeral" /\ f.type = "channel-parted" /\ f.key = c}
NamesOf(c) == {f \in Frames : f.kind = "ephemeral" /\ f.type = "names" /\ f.key = c}

\* Whether u rows of k are unread: what says so, and what may say otherwise
Counts(k, u) == {f \in Frames : \/ f.kind \in {"backlog", "read-state"} /\ f.key = k /\ f.unread = u
                                \/ f.kind = "buffer-closed" /\ f.key = k /\ u = 0
                                \/ f.kind = "buffer-renamed" /\ f.from = k /\ u = 0}
Recounts(k, u) == {f \in Frames : \/ f.kind \in {"backlog", "read-state"} /\ f.key = k /\ f.unread # u
                                  \/ f.kind = "buffer-closed" /\ f.key = k /\ u # 0
                                  \/ f.kind = "buffer-renamed" /\ f.from = k /\ u # 0
                                  \/ f.kind = "buffer-renamed" /\ f.to = k}

\* The ids of the network that a frame brings
Ids(f) == IF f.kind = "irc" /\ f.key # System THEN {f.id}
          ELSE IF f.kind \in {"backlog", "history"} /\ f.key # System THEN f.rows ELSE {}

\* What the server says is unread is there, and nothing of what is closed is unread.
UnreadIsThere ==
  deleting = "no" => /\ \A k \in NetKeys : unread[k] > 0 => RowsOf(k) # {}
                     /\ \A k \in NetKeys \ open : unread[k] = 0

JoinedHeld == {c \in Held : buffers[c].joined}
Counted(u) == {k \in Keys : Seen(k).unread = u}

\* What the frames on their way make of a conversation is what it is on the server.
JoinedAt(c) == Ends(inbox, Joins(c), Parts(c), c, JoinedHeld) <=> c \in joined
MembersAt(c) ==
  \A n \in Nicks : Ends(inbox, Enters(c, n), Quits(c, n), n, Seen(c).members) <=> n \in members[c]
UnreadAt(k) == Ends(inbox, Counts(k, unread[k]), Recounts(k, unread[k]), k, Counted(unread[k]))

JoinedComes ==
  /\ \A c \in Channels : ~Ends(inbox, Describes(c), Slices(c), c, {})
  /\ up /\ deleting = "no" => \A c \in (Channels \cap open) \ Excused : JoinedAt(c)
MembersCome ==
  up => \A c \in joined \ Excused : ~Ends(inbox, Empties(c), NamesOf(c), c, {}) /\ MembersAt(c)
UnreadComes ==
  up /\ deleting = "no" => \A k \in NetKeys \ Excused : UnreadAt(k)

\* Rows of the network come in order.
RowsAreNew ==
  \A m \in 1..Len(inbox) : inbox[m].kind = "irc" /\ inbox[m].key # System =>
    /\ \A k \in NetKeys : Seen(k).newest < inbox[m].id
    /\ \A l \in 1..Len(inbox) : l < m => \A id \in Ids(inbox[l]) : id < inbox[m].id

ViewInv == HeldInv /\ UnreadIsThere /\ JoinedComes /\ MembersCome /\ UnreadComes /\ RowsAreNew

\* What each kind of frame says of who is in a channel, and of what is unread
LEMMA JoinsAre ==
  ASSUME NEW f \in Frames, NEW k
  PROVE  /\ f.kind = "backlog" =>
              (f \in Joins(k) <=> f.key = k /\ f.joined) /\ (f \in Parts(k) <=> f.key = k /\ ~f.joined)
         /\ f.kind = "ephemeral" =>
              /\ f \in Joins(k) <=> f.key = k /\ f.type = "channel-joined"
              /\ f \in Parts(k) <=> f.key = k /\ f.type = "channel-parted"
         /\ f.kind = "buffer-closed" => f \notin Joins(k) /\ (f \in Parts(k) <=> f.key = k)
         /\ f.kind \notin {"backlog", "ephemeral", "buffer-closed"} => f \notin Joins(k) /\ f \notin Parts(k)
BY DEF Joins, Parts

\* The same for who comes and goes
LEMMA EntersAre ==
  ASSUME NEW f \in Frames, NEW k, NEW n
  PROVE  /\ f.kind = "irc" =>
              /\ f \in Enters(k, n) <=> f.key = k /\ f.type = "join" /\ f.nick = n
              /\ f \in Quits(k, n) <=> f.key = k /\ f.type = "part" /\ f.nick = n
         /\ f.kind = "ephemeral" =>
              /\ f \in Enters(k, n) <=> f.key = k /\ f.type = "names" /\ n \in f.nicks
              /\ f \in Quits(k, n) <=> f.key = k /\ f.type = "names" /\ n \notin f.nicks
         /\ f.kind = "snapshot" =>
              /\ f \in Enters(k, n) <=> k \in DOMAIN f.channels /\ n \in f.channels[k]
              /\ f \in Quits(k, n) <=> k \in DOMAIN f.channels /\ n \notin f.channels[k]
         /\ f.kind \notin {"irc", "ephemeral", "snapshot"} => f \notin Enters(k, n) /\ f \notin Quits(k, n)
BY DEF Enters, Quits

\* And for what is counted
LEMMA CountsAre ==
  ASSUME NEW f \in Frames, NEW k, NEW u
  PROVE  /\ f.kind \in {"backlog", "read-state"} =>
              (f \in Counts(k, u) <=> f.key = k /\ f.unread = u) /\ (f \in Recounts(k, u) <=> f.key = k /\ f.unread # u)
         /\ f.kind = "buffer-closed" =>
              (f \in Counts(k, u) <=> f.key = k /\ u = 0) /\ (f \in Recounts(k, u) <=> f.key = k /\ u # 0)
         /\ f.kind = "buffer-renamed" =>
              /\ f \in Counts(k, u) <=> f.from = k /\ u = 0
              /\ f \in Recounts(k, u) <=> (f.from = k /\ u # 0) \/ f.to = k
         /\ f.kind \notin {"backlog", "read-state", "buffer-closed", "buffer-renamed"} =>
              f \notin Counts(k, u) /\ f \notin Recounts(k, u)
BY DEF Counts, Recounts

\* What a frame does to a conversation: what it says, or nothing
Told(f, k) ==
  /\ k \in Channels /\ f \notin Describes(k) =>
       (k \in JoinedHeld' <=> f \in Joins(k) \/ (k \in JoinedHeld /\ f \notin Parts(k)))
  /\ k \in Channels /\ f \notin Empties(k) =>
       \A n \in Nicks : n \in Seen(k)'.members <=> f \in Enters(k, n) \/ (n \in Seen(k).members /\ f \notin Quits(k, n))
  /\ \A u \in Nat : f \in Counts(k, u) \/ (Seen(k).unread = u /\ f \notin Recounts(k, u)) => Seen(k)'.unread = u

\* The conversation that a frame says nothing of
Silent(f, k) ==
  /\ f \notin Joins(k) /\ f \notin Parts(k)
  /\ \A n : f \notin Enters(k, n) /\ f \notin Quits(k, n) /\ f \notin Counts(k, n) /\ f \notin Recounts(k, n)

\* Which frames say nothing of a conversation
LEMMA SilentIs ==
  ASSUME NEW f \in Frames, NEW k,
         \/ f.kind \in {"history", "buffer-opened", "buffer-cleared", "backlog-complete", "lost"}
         \/ f.kind \in {"irc", "ephemeral", "backlog", "read-state", "buffer-closed"} /\ f.key # k
         \/ f.kind = "buffer-renamed" /\ k \notin {f.from, f.to}
         \/ f.kind = "snapshot" /\ k \notin DOMAIN f.channels
         \/ f.kind = "irc" /\ f.type = "message"
  PROVE  Silent(f, k)
BY JoinsAre, EntersAre, CountsAre DEF Silent

\* Silence leaves all as it was.
LEMMA ToldSame ==
  ASSUME NEW f, NEW k, Silent(f, k), Seen(k)' = Seen(k), k \in JoinedHeld' <=> k \in JoinedHeld
  PROVE  Told(f, k)
BY DEF Told, Silent

\* What is seen as joined is held.
LEMMA JoinedSeen ==
  ASSUME Types, NEW k \in Keys
  PROVE  k \in JoinedHeld <=> k \in Held /\ Seen(k).joined
<1>1. k \in Held => Seen(k) = buffers[k]
  BY SeenIs DEF Types, ServerTypes
<1>2. QED BY <1>1 DEF JoinedHeld

\* The head finds what it expects.
LEMMA HeadFinds ==
  ASSUME HeldInv, inbox # <<>>, deleting = "no", NEW k \in NetKeys, Expects(Head(inbox), k, revived)
  PROVE  k \in Held
<1>1. inbox \in Seq(Frames) /\ 1 \in 1..Len(inbox) /\ inbox[1] = Head(inbox) /\ 1 - 1 = 0
  BY DEF HeldInv, Types, LinkTypes
<1>2. EndsAt(inbox, 0, Adds(k), Drops(k), k, Held)
  BY <1>1 DEF HeldInv, Expected, Found
<1>3. QED BY <1>2, EndsNone

\* The head does to a conversation what it says of it.
LEMMA HeadTold ==
  ASSUME HeldInv, RowsAreNew, ApplyFrame, deleting = "no", NEW k \in NetKeys, k \notin Excused
  PROVE  Told(Head(inbox), k)
<1> DEFINE f == Head(inbox)
<1>1. /\ f \in Frames /\ Sound(f) /\ CopyTypes /\ UNCHANGED <<log, systemHead>> /\ k \in Keys /\ k # System
      /\ inbox # <<>> /\ f = inbox[1] /\ inbox \in Seq(Frames) /\ Types
  BY HeadIs, KeysAre DEF HeldInv
<1>2. Expects(f, k, revived) => k \in Held
  BY <1>1, HeadFinds
<1>3. k \notin revived
  BY DEF Excused
<1>4. k \in JoinedHeld <=> k \in Held /\ Seen(k).joined
  BY <1>1, JoinedSeen
<1>5. k \notin Held => Seen(k).unread = 0
  BY <1>1, SeenIs DEF CopyTypes
<1> HIDE DEF f
<1>6. ASSUME NEW l \in Keys, NEW b \in Buffer, Fits(l, b), buffers' = Put(buffers, l, b), cursor' \in Nat,
             UNCHANGED <<backlogComplete, snapshotChannels>>
      PROVE  /\ k # l => Seen(k)' = Seen(k) /\ (k \in JoinedHeld' <=> k \in JoinedHeld)
             /\ k = l => Seen(k)' = b /\ (k \in JoinedHeld' <=> b.joined)
  <2>1. /\ Held' = Held \cup {l} /\ Seen(l)' = b /\ buffers'[l] = b
        /\ \A j \in Keys : j # l => Seen(j)' = Seen(j)
        /\ \A j \in Held' : j # l => j \in Held /\ buffers'[j] = buffers[j]
    BY <1>1, <1>6, PutIs
  <2>2. JoinedHeld' = {c \in Held' : buffers'[c].joined}
    BY DEF JoinedHeld
  <2>3. QED BY <1>1, <2>1, <2>2 DEF JoinedHeld
<1>7. ASSUME buffers' = buffers, snapshotChannels' = snapshotChannels
      PROVE  Seen(k)' = Seen(k) /\ (k \in JoinedHeld' <=> k \in JoinedHeld)
  BY <1>7 DEF Seen, Touch, JoinedHeld, Held
<1>8. CASE f \in Snapshots /\ ApplySnapshot(f)
  <2>1. /\ Held' = Held /\ Seen(k)'.unread = Seen(k).unread
        /\ k \notin DOMAIN f.channels => Seen(k)' = Seen(k) /\ (k \in Held => buffers'[k] = buffers[k])
        /\ k \in DOMAIN f.channels => Seen(k)'.members = f.channels[k]
    BY <1>1, <1>8, SnapshotDoes
  <2>2. f.kind = "snapshot"
    BY <1>8 DEF Snapshots
  <2>3. CASE k \notin DOMAIN f.channels
    <3>1. k \in JoinedHeld' <=> k \in JoinedHeld
      BY <2>1, <2>3 DEF JoinedHeld
    <3>2. Silent(f, k)
      BY <1>1, <2>2, <2>3, SilentIs
    <3>3. QED BY <2>1, <2>3, <3>1, <3>2, ToldSame DEF f
  <2>4. CASE k \in DOMAIN f.channels
    <3>1. f \in Describes(k)
      BY <1>1, <2>2, <2>4 DEF Describes
    <3>2. QED BY <1>1, <2>1, <2>2, <2>4, <3>1, EntersAre, CountsAre DEF Told, f
  <2>5. QED BY <2>3, <2>4
<1>9. CASE f \in IrcRows /\ ApplyRow(f)
  <2>1. PICK b \in Buffer :
          /\ buffers' = Put(buffers, f.key, b) /\ Fits(f.key, b)
          /\ b.joined = Seen(f.key).joined /\ b.unread = Seen(f.key).unread
          /\ b.members = IF f.id > Seen(f.key).newest /\ f.type = "join" THEN Seen(f.key).members \cup {f.nick}
                         ELSE IF f.id > Seen(f.key).newest /\ f.type = "part" THEN Seen(f.key).members \ {f.nick}
                         ELSE Seen(f.key).members
          /\ cursor' \in Nat /\ UNCHANGED <<backlogComplete, snapshotChannels>>
    BY <1>1, <1>9, RowDoes
  <2>2. f.kind = "irc" /\ f.key \in Keys /\ f.type \in {"message", "join", "part"}
    BY <1>9 DEF IrcRows
  <2>3. CASE f.key # k
    BY <1>1, <1>6, <2>1, <2>2, <2>3, SilentIs, ToldSame DEF f
  <2>4. CASE f.key = k
    <3>1. f.id > Seen(k).newest
      <4>1. 1 \in 1..Len(inbox) /\ inbox[1].kind = "irc" /\ inbox[1].key # System
        BY <1>1, <2>2, <2>4
      <4>2. Seen(k).newest < f.id
        BY <1>1, <4>1 DEF RowsAreNew
      <4>3. Seen(k).newest \in Nat /\ f.id \in Nat
        <5>1. Seen(k) \in Buffer
          BY <1>1, SeenIs DEF CopyTypes
        <5>2. QED BY <1>9, <5>1 DEF Buffer, IrcRows
      <4>4. QED BY <4>2, <4>3
    <3>2. Seen(k)' = b /\ (k \in JoinedHeld' <=> b.joined)
      BY <1>6, <2>1, <2>2, <2>4
    <3>3. k \in Channels => k \in Held
      BY <1>2, <2>2, <2>4 DEF Expects
    <3>4. f \notin Joins(k) /\ f \notin Parts(k) /\ \A u : f \notin Counts(k, u) /\ f \notin Recounts(k, u)
      BY <1>1, <2>2, JoinsAre, CountsAre
    <3>5. \A n : n \in b.members <=> f \in Enters(k, n) \/ (n \in Seen(k).members /\ f \notin Quits(k, n))
      BY <1>1, <2>1, <2>2, <2>4, <3>1, EntersAre
    <3>6. b.joined = Seen(k).joined /\ b.unread = Seen(k).unread
      BY <2>1, <2>4
    <3>7. QED BY <1>4, <3>2, <3>3, <3>4, <3>5, <3>6 DEF Told, f
  <2>5. QED BY <2>3, <2>4
<1>10. CASE f \in Signals /\ ApplySignal(f)
  <2>1. /\ f.kind = "ephemeral" /\ f.key \in Keys /\ f.key \in Channels
        /\ f.type \in {"channel-joined", "channel-parted", "names"}
    BY <1>10, KeysAre DEF Signals
  <2>2. CASE f.key \notin Held /\ f.type # "channel-joined"
    <3>1. buffers' = buffers /\ snapshotChannels' = snapshotChannels
      BY <1>1, <1>10, <2>2, SignalDoes
    <3>2. Seen(k)' = Seen(k) /\ (k \in JoinedHeld' <=> k \in JoinedHeld)
      BY <1>7, <3>1
    <3>3. CASE f.key # k
      BY <1>1, <2>1, <3>2, <3>3, SilentIs, ToldSame DEF f
    <3>4. CASE f.key = k
      <4>1. f.type = "channel-parted"
        BY <1>2, <2>1, <2>2, <3>4 DEF Expects
      <4>2. k \notin JoinedHeld
        BY <1>4, <2>2, <3>4
      <4>3. f \in Empties(k) /\ f \notin Joins(k) /\ \A u : f \notin Counts(k, u) /\ f \notin Recounts(k, u)
        BY <1>1, <2>1, <3>4, <4>1, JoinsAre, CountsAre DEF Empties
      <4>4. QED BY <3>2, <4>2, <4>3 DEF Told, f
    <3>5. QED BY <3>3, <3>4
  <2>3. CASE f.key \in Held \/ f.type = "channel-joined"
    <3>1. PICK b \in Buffer :
            /\ buffers' = Put(buffers, f.key, b) /\ Fits(f.key, b)
            /\ b.joined = IF f.type = "channel-joined" THEN TRUE
                          ELSE IF f.type = "channel-parted" THEN FALSE ELSE Seen(f.key).joined
            /\ b.unread = Seen(f.key).unread
            /\ b.members = IF f.type = "names" THEN f.nicks
                           ELSE IF f.type = "channel-parted" THEN {} ELSE Seen(f.key).members
            /\ cursor' \in Nat /\ UNCHANGED <<backlogComplete, snapshotChannels>>
      BY <1>1, <1>10, <2>3, SignalDoes
    <3>2. CASE f.key # k
      BY <1>1, <1>6, <2>1, <3>1, <3>2, SilentIs, ToldSame DEF f
    <3>3. CASE f.key = k
      <4>1. Seen(k)' = b /\ (k \in JoinedHeld' <=> b.joined)
        BY <1>6, <2>1, <3>1, <3>3
      <4>2. f.type = "channel-parted" <=> f \in Empties(k)
        BY <1>1, <2>1, <3>3 DEF Empties
      <4>3. k \in JoinedHeld' <=> f \in Joins(k) \/ (k \in JoinedHeld /\ f \notin Parts(k))
        BY <1>1, <1>4, <2>1, <2>3, <3>1, <3>3, <4>1, JoinsAre
      <4>4. f \notin Empties(k) =>
              \A n : n \in b.members <=> f \in Enters(k, n) \/ (n \in Seen(k).members /\ f \notin Quits(k, n))
        BY <1>1, <2>1, <3>1, <3>3, <4>2, EntersAre
      <4>5. \A u : f \notin Counts(k, u)
        BY <1>1, <2>1, CountsAre
      <4>6. QED BY <3>1, <3>3, <4>1, <4>3, <4>4, <4>5 DEF Told, f
    <3>4. QED BY <3>2, <3>3
  <2>4. QED BY <2>2, <2>3
<1>11. CASE f \in Backlogs \cup Histories /\ ApplySlice(f)
  <2>1. PICK b \in Buffer :
          /\ buffers' = Put(buffers, f.key, b) /\ Fits(f.key, b)
          /\ b.joined = IF f.kind = "backlog" THEN f.joined ELSE Seen(f.key).joined
          /\ b.unread = IF f.kind = "backlog" THEN f.unread ELSE Seen(f.key).unread
          /\ b.members = Seen(f.key).members
          /\ cursor' \in Nat /\ UNCHANGED <<backlogComplete, snapshotChannels>>
    BY <1>1, <1>11, SliceDoes
  <2>2. f.kind \in {"backlog", "history"} /\ f.key \in Keys
    BY <1>11, KeysAre DEF Backlogs, Histories
  <2>3. CASE f.key # k
    BY <1>1, <1>6, <2>1, <2>2, <2>3, SilentIs, ToldSame DEF f
  <2>4. CASE f.key = k
    <3>1. Seen(k)' = b /\ (k \in JoinedHeld' <=> b.joined)
      BY <1>6, <2>1, <2>2, <2>4
    <3>2. f.kind = "history" => k \in Held
      BY <1>2, <1>3, <2>4 DEF Expects
    <3>3. k \in JoinedHeld' <=> f \in Joins(k) \/ (k \in JoinedHeld /\ f \notin Parts(k))
      BY <1>1, <1>4, <2>1, <2>2, <2>4, <3>1, <3>2, JoinsAre
    <3>4. \A n : f \notin Enters(k, n) /\ f \notin Quits(k, n)
      BY <1>1, <2>2, EntersAre
    <3>5. \A u : f \in Counts(k, u) \/ (Seen(k).unread = u /\ f \notin Recounts(k, u)) => b.unread = u
      BY <1>1, <2>1, <2>2, <2>4, CountsAre
    <3>6. QED BY <2>1, <2>4, <3>1, <3>3, <3>4, <3>5 DEF Told, f
  <2>5. QED BY <2>3, <2>4
<1>12. CASE f \in Marks /\ ApplyMark(f)
  <2>1. Seen(k)' = Seen(k) /\ (k \in JoinedHeld' <=> k \in JoinedHeld)
    BY <1>7, <1>12 DEF ApplyMark
  <2>2. Silent(f, k)
    <3>1. f.kind \in {"backlog-complete", "lost"}
      BY <1>12 DEF Marks
    <3>2. QED BY <1>1, <3>1, SilentIs
  <2>3. QED BY <2>1, <2>2, ToldSame DEF f
<1>13. CASE f \in Openings /\ ApplyBufferFrame(f)
  <2>1. f.kind = "buffer-opened" /\ f.key \in Keys
    BY <1>13, KeysAre DEF Openings
  <2>2. /\ buffers' = Put(buffers, f.key, Seen(f.key)) /\ Fits(f.key, Seen(f.key)) /\ Seen(f.key) \in Buffer
        /\ cursor' \in Nat /\ UNCHANGED <<backlogComplete, snapshotChannels>>
    BY <1>1, <1>13, OpenedDoes
  <2>3. Seen(k)' = Seen(k) /\ (k \in JoinedHeld' <=> k \in JoinedHeld)
    <3>1. f.key = k => k \in Held
      BY <1>2, <2>1 DEF Expects
    <3>2. QED BY <1>4, <1>6, <2>1, <2>2, <3>1
  <2>4. Silent(f, k)
    BY <1>1, <2>1, SilentIs
  <2>5. QED BY <2>3, <2>4, ToldSame DEF f
<1>14. CASE f \in Closings /\ ApplyBufferFrame(f)
  <2>1. f.kind = "buffer-closed" /\ f.key \in Keys
    BY <1>14, KeysAre DEF Closings
  <2>2. /\ Held' = Held \ {f.key} /\ snapshotChannels' = snapshotChannels
        /\ k # f.key => Seen(k)' = Seen(k)
        /\ \A l \in Held' : buffers'[l] = buffers[l]
    BY <1>1, <1>14, ClosedDoes
  <2>3. CASE f.key # k
    <3>1. k \in JoinedHeld' <=> k \in JoinedHeld
      <4>1. JoinedHeld' = {c \in Held' : buffers'[c].joined}
        BY DEF JoinedHeld
      <4>2. QED BY <2>2, <2>3, <4>1 DEF JoinedHeld
    <3>2. QED BY <1>1, <2>1, <2>2, <2>3, <3>1, SilentIs, ToldSame DEF f
  <2>4. CASE f.key = k
    <3>1. k \notin JoinedHeld' /\ k \notin Held'
      BY <2>2, <2>4 DEF JoinedHeld
    <3>2. Seen(k)'.unread = 0
      BY <3>1 DEF Seen, Touch, Put, Held
    <3>3. f \in Parts(k) /\ f \notin Joins(k) /\ f \in Empties(k)
      BY <1>1, <2>1, <2>4, JoinsAre DEF Empties
    <3>4. \A u : f \in Counts(k, u) \/ (Seen(k).unread = u /\ f \notin Recounts(k, u)) => u = 0
      BY <1>1, <2>1, <2>4, CountsAre
    <3>5. QED BY <3>1, <3>2, <3>3, <3>4 DEF Told, f
  <2>5. QED BY <2>3, <2>4
<1>15. CASE f \in Renamings /\ ApplyBufferFrame(f)
  <2>1. /\ f.kind = "buffer-renamed" /\ f.from \in Queries /\ f.to \in Queries /\ f.from # f.to
        /\ f.from \notin Channels /\ f.to \notin Channels
    BY <1>15, KeysAre DEF Renamings
  <2>2. /\ f.from \notin Held => Held' = Held /\ Seen(k)' = Seen(k)
        /\ f.from \in Held =>
             /\ Held' = (Held \ {f.from}) \cup {f.to}
             /\ k \notin {f.from, f.to} => Seen(k)' = Seen(k)
             /\ \A l \in Held' : l # f.to => buffers'[l] = buffers[l]
             /\ k = f.from => Seen(k)'.unread = 0
    BY <1>1, <1>15, RenamedDoes
  <2>3. CASE k \in {f.from, f.to}
    <3>1. k \notin Channels
      BY <2>1, <2>3
    <3>2. k = f.from => k \in Held
      BY <1>2, <2>1 DEF Expects
    <3>3. k = f.from => \A u : f \in Counts(k, u) \/ (Seen(k).unread = u /\ f \notin Recounts(k, u)) => u = 0
      BY <1>1, <2>1, CountsAre
    <3>4. k = f.to => \A u : f \notin Counts(k, u) /\ f \in Recounts(k, u)
      BY <1>1, <2>1, CountsAre
    <3>5. k = f.from => Seen(k)'.unread = 0
      BY <2>2, <3>2
    <3>6. QED BY <2>3, <3>1, <3>3, <3>4, <3>5 DEF Told, f
  <2>4. CASE k \notin {f.from, f.to}
    <3>1. Seen(k)' = Seen(k)
      BY <2>2, <2>4
    <3>2. Silent(f, k)
      BY <1>1, <2>1, <2>4, SilentIs
    <3>3. k \in JoinedHeld' <=> k \in JoinedHeld
      <4>1. JoinedHeld' = {c \in Held' : buffers'[c].joined}
        BY DEF JoinedHeld
      <4>2. CASE f.from \in Held
        BY <2>2, <2>4, <4>1, <4>2 DEF JoinedHeld
      <4>3. CASE f.from \notin Held
        <5>1. buffers' = buffers
          BY <1>15, <2>1, <4>3 DEF ApplyBufferFrame, Held
        <5>2. QED BY <5>1 DEF JoinedHeld, Held
      <4>4. QED BY <4>2, <4>3
    <3>4. QED BY <3>1, <3>2, <3>3, ToldSame DEF f
  <2>5. QED BY <2>3, <2>4
<1>16. CASE f \in Clearings \cup ReadStates /\ ApplyBufferFrame(f)
  <2>1. f.kind \in {"buffer-cleared", "read-state"} /\ f.key \in Keys
    BY <1>16, KeysAre DEF Clearings, ReadStates
  <2>2. CASE f.key \notin Held
    <3>1. buffers' = buffers /\ snapshotChannels' = snapshotChannels
      BY <1>1, <1>16, <2>2, ClearedDoes
    <3>2. Seen(k)' = Seen(k) /\ (k \in JoinedHeld' <=> k \in JoinedHeld)
      BY <1>7, <3>1
    <3>3. CASE f.key # k \/ f.kind = "buffer-cleared"
      BY <1>1, <2>1, <3>2, <3>3, SilentIs, ToldSame DEF f
    <3>4. CASE f.key = k /\ f.kind = "read-state"
      <4>1. f.unread = 0 /\ Seen(k).unread = 0
        BY <1>2, <1>5, <2>2, <3>4 DEF Expects
      <4>2. /\ f \notin Joins(k) /\ f \notin Parts(k) /\ \A n : f \notin Enters(k, n) /\ f \notin Quits(k, n)
            /\ \A u : f \in Counts(k, u) <=> u = 0
        BY <1>1, <3>4, <4>1, JoinsAre, EntersAre, CountsAre
      <4>3. QED BY <3>2, <4>1, <4>2 DEF Told, f
    <3>5. QED BY <2>1, <3>3, <3>4
  <2>3. CASE f.key \in Held
    <3>1. PICK b \in Buffer :
            /\ buffers' = Put(buffers, f.key, b) /\ Fits(f.key, b)
            /\ b.joined = Seen(f.key).joined /\ b.members = Seen(f.key).members
            /\ b.unread = IF f.kind = "read-state" THEN f.unread ELSE Seen(f.key).unread
            /\ cursor' \in Nat /\ UNCHANGED <<backlogComplete, snapshotChannels>>
      BY <1>1, <1>16, <2>3, ClearedDoes
    <3>2. CASE f.key # k
      BY <1>1, <1>6, <2>1, <3>1, <3>2, SilentIs, ToldSame DEF f
    <3>3. CASE f.key = k
      <4>1. Seen(k)' = b /\ (k \in JoinedHeld' <=> b.joined)
        BY <1>6, <2>1, <3>1, <3>3
      <4>2. f \notin Joins(k) /\ f \notin Parts(k) /\ \A n : f \notin Enters(k, n) /\ f \notin Quits(k, n)
        BY <1>1, <2>1, JoinsAre, EntersAre
      <4>3. \A u : f \in Counts(k, u) \/ (Seen(k).unread = u /\ f \notin Recounts(k, u)) => b.unread = u
        BY <1>1, <2>1, <3>1, <3>3, CountsAre
      <4>4. QED BY <1>4, <2>3, <3>1, <3>3, <4>1, <4>2, <4>3 DEF Told, f
    <3>4. QED BY <3>2, <3>3
  <2>4. QED BY <2>2, <2>3
<1>17. QED BY Zenon, <1>8, <1>9, <1>10, <1>11, <1>12, <1>13, <1>14, <1>15, <1>16, HeadIs DEF f, HeldInv

\* If something comes or goes at all, it does not matter who was there before.
LEMMA EndsAnyway ==
  ASSUME NEW q, NEW on, NEW off, NEW p, NEW B, NEW C, \E i \in 1..Len(q) : q[i] \in on \cup off
  PROVE  Ends(q, on, off, p, B) <=> Ends(q, on, off, p, C)
BY DEF Ends, EndsAt

\* What is set right again behind the head is behind it.
LEMMA Behind ==
  ASSUME NEW S, NEW q \in Seq(S), q # <<>>, NEW on, NEW off, NEW p, NEW B,
         Head(q) \in on, ~Ends(q, on, off, p, B)
  PROVE  \E j \in 1..Len(Tail(q)) : Tail(q)[j] \in off
<1>1. /\ 1 \in 1..Len(q) /\ q[1] = Head(q)
      /\ \A j \in 1..Len(q) : j > 1 => j - 1 \in 1..Len(Tail(q)) /\ Tail(q)[j - 1] = q[j]
  OBVIOUS
<1>2. PICK j \in 1..Len(q) : j > 1 /\ q[j] \in off
  BY <1>1 DEF Ends, EndsAt
<1>3. QED BY <1>1, <1>2

\* What was set right behind everything is still so when the head is gone.
LEMMA NeverEnds ==
  ASSUME NEW S, NEW q \in Seq(S), q # <<>>, NEW on, NEW off, NEW p, ~Ends(q, on, off, p, {})
  PROVE  ~Ends(Tail(q), on, off, p, {})
<1> DEFINE C == IF Head(q) \in on \/ (p \in {} /\ Head(q) \notin off) THEN {p} ELSE {}
<1>1. Ends(q, on, off, p, {}) <=> Ends(Tail(q), on, off, p, C)
  <2>1. p \in C <=> Head(q) \in on \/ (p \in {} /\ Head(q) \notin off)
    OBVIOUS
  <2> HIDE DEF C
  <2>2. QED BY <2>1, EndsAllTail
<1>2. Ends(Tail(q), on, off, p, {}) => Ends(Tail(q), on, off, p, C)
  BY DEF Ends, EndsAt
<1>3. QED BY <1>1, <1>2

\* The newest row that is held was held, or came with the head.
LEMMA HeadBrings ==
  ASSUME Types, ApplyFrame, NEW k \in NetKeys, NEW x \in Nat, x > 0,
         \A l \in NetKeys : Seen(l).newest < x, \A id \in Ids(Head(inbox)) : id < x
  PROVE  Seen(k)'.newest < x
<1> DEFINE f == Head(inbox)
<1>1. /\ f \in Frames /\ Sound(f) /\ CopyTypes /\ UNCHANGED <<log, systemHead>> /\ k \in Keys /\ k # System
      /\ \A l \in NetKeys : l \in Keys
  BY HeadIs, KeysAre
<1>2. Seen(k).newest < x /\ Seen(k).rows \subseteq 1..Seen(k).newest /\ Seen(k).newest \in Nat
  <2>1. Seen(k) \in Buffer /\ Fits(k, Seen(k))
    BY <1>1, SeenIs DEF CopyTypes
  <2>2. QED BY <2>1 DEF Fits, Buffer
<1>3. \A id \in Ids(f) : id < x
  OBVIOUS
<1> HIDE DEF f
<1>4. ASSUME NEW l \in Keys, NEW b \in Buffer, Fits(l, b), buffers' = Put(buffers, l, b), cursor' \in Nat,
             UNCHANGED <<backlogComplete, snapshotChannels>>
      PROVE  Seen(k)' = IF k = l THEN b ELSE Seen(k)
  BY <1>1, <1>4, PutIs
<1>5. ASSUME buffers' = buffers, snapshotChannels' = snapshotChannels PROVE Seen(k)' = Seen(k)
  BY <1>5 DEF Seen, Touch
<1>6. k \notin Held' => Seen(k)'.newest = 0
  BY DEF Seen, Touch, Put, Held, NoId
<1>7. CASE f \in Snapshots /\ ApplySnapshot(f)
  <2>1. Seen(k)'.newest = Seen(k).newest
    BY <1>1, <1>7, SnapshotDoes
  <2>2. QED BY <1>2, <2>1
<1>8. CASE f \in IrcRows /\ ApplyRow(f)
  <2>1. PICK b \in Buffer :
          /\ buffers' = Put(buffers, f.key, b) /\ Fits(f.key, b)
          /\ b.newest = Higher(Seen(f.key).newest, f.id)
          /\ cursor' \in Nat /\ UNCHANGED <<backlogComplete, snapshotChannels>>
    BY <1>1, <1>8, RowDoes
  <2>2. f.kind = "irc" /\ f.key \in Keys /\ f.id \in Nat
    BY <1>8 DEF IrcRows
  <2>3. CASE f.key = k
    <3>1. f.id < x
      BY <1>1, <1>3, <2>2, <2>3 DEF Ids
    <3>2. b.newest < x
      BY <1>2, <2>1, <2>2, <2>3, <3>1 DEF Higher
    <3>3. QED BY <1>4, <2>1, <2>2, <2>3, <3>2
  <2>4. CASE f.key # k
    BY <1>2, <1>4, <2>1, <2>2, <2>4
  <2>5. QED BY <2>3, <2>4
<1>9. CASE f \in Signals /\ ApplySignal(f)
  <2>1. f.key \in Keys
    BY <1>9, KeysAre DEF Signals
  <2>2. CASE f.key \notin Held /\ f.type # "channel-joined"
    BY <1>1, <1>2, <1>5, <1>9, <2>2, SignalDoes
  <2>3. CASE f.key \in Held \/ f.type = "channel-joined"
    <3>1. PICK b \in Buffer :
            /\ buffers' = Put(buffers, f.key, b) /\ Fits(f.key, b)
            /\ b.newest = Seen(f.key).newest
            /\ cursor' \in Nat /\ UNCHANGED <<backlogComplete, snapshotChannels>>
      BY <1>1, <1>9, <2>3, SignalDoes
    <3>2. QED BY <1>2, <1>4, <2>1, <3>1
  <2>4. QED BY <2>2, <2>3
<1>10. CASE f \in Backlogs \cup Histories /\ ApplySlice(f)
  <2>1. PICK b \in Buffer :
          /\ buffers' = Put(buffers, f.key, b) /\ Fits(f.key, b)
          /\ b.newest = 0 \/ b.newest \in b.rows
          /\ b.rows \subseteq Seen(f.key).rows \cup f.rows
          /\ cursor' \in Nat /\ UNCHANGED <<backlogComplete, snapshotChannels>>
    BY <1>1, <1>10, SliceDoes
  <2>2. f.kind \in {"backlog", "history"} /\ f.key \in Keys
    BY <1>10, KeysAre DEF Backlogs, Histories
  <2>3. CASE f.key = k
    <3>1. \A id \in f.rows : id < x
      BY <1>1, <1>3, <2>2, <2>3 DEF Ids
    <3>2. \A id \in Seen(k).rows : id < x
      BY <1>2
    <3>3. b.newest < x
      BY <2>1, <2>3, <3>1, <3>2
    <3>4. QED BY <1>4, <2>1, <2>2, <2>3, <3>3
  <2>4. CASE f.key # k
    BY <1>2, <1>4, <2>1, <2>2, <2>4
  <2>5. QED BY <2>3, <2>4
<1>11. CASE f \in Marks /\ ApplyMark(f)
  BY <1>2, <1>5, <1>11 DEF ApplyMark
<1>12. CASE f \in Openings /\ ApplyBufferFrame(f)
  <2>1. f.key \in Keys
    BY <1>12, KeysAre DEF Openings
  <2>2. /\ buffers' = Put(buffers, f.key, Seen(f.key)) /\ Fits(f.key, Seen(f.key)) /\ Seen(f.key) \in Buffer
        /\ cursor' \in Nat /\ UNCHANGED <<backlogComplete, snapshotChannels>>
    BY <1>1, <1>12, OpenedDoes
  <2>3. QED BY <1>2, <1>4, <2>1, <2>2
<1>13. CASE f \in Closings /\ ApplyBufferFrame(f)
  <2>1. Held' = Held \ {f.key} /\ (k # f.key => Seen(k)' = Seen(k))
    BY <1>1, <1>13, ClosedDoes
  <2>2. QED BY <1>2, <1>6, <2>1
<1>14. CASE f \in Renamings /\ ApplyBufferFrame(f)
  <2>1. /\ f.from \in NetKeys /\ f.to \in NetKeys /\ f.from # f.to
    BY <1>14, KeysAre DEF Renamings
  <2>2. CASE f.from \notin Held
    <3>1. Seen(k)' = Seen(k)
      BY <1>1, <1>14, <2>2, RenamedDoes
    <3>2. QED BY <1>2, <3>1
  <2>3. CASE f.from \in Held
    <3>1. /\ Held' = (Held \ {f.from}) \cup {f.to}
          /\ k \notin {f.from, f.to} => Seen(k)' = Seen(k)
          /\ k = f.to => /\ Seen(k)' = buffers'[k]
                         /\ \/ buffers'[k].newest = 0
                            \/ \E l \in Held : buffers'[k].newest <= buffers[l].newest /\ l \in {f.from, f.to}
      BY <1>1, <1>14, <2>3, RenamedDoes
    <3>2. CASE k = f.to
      <4>1. Seen(k)'.newest \in Nat
        <5>1. StoreTypes' /\ k \in Held'
          BY <1>1, <1>14, <2>3, <3>1, <3>2, RenamedDoes
        <5>2. buffers'[k] \in Buffer
          BY <5>1 DEF StoreTypes
        <5>3. QED BY <3>1, <3>2, <5>2 DEF Buffer
      <4>2. CASE Seen(k)'.newest = 0
        BY <4>2
      <4>3. ASSUME NEW l \in Held, Seen(k)'.newest <= buffers[l].newest, l \in {f.from, f.to}
            PROVE  Seen(k)'.newest < x
        <5>1. Seen(l) = buffers[l] /\ Seen(l) \in Buffer
          BY <1>1, <2>1, <4>3, SeenIs DEF CopyTypes
        <5>2. buffers[l].newest < x /\ buffers[l].newest \in Nat
          BY <2>1, <4>3, <5>1 DEF Buffer
        <5>3. QED BY <4>1, <4>3, <5>2
      <4>4. QED BY <3>1, <3>2, <4>2, <4>3
    <3>3. CASE k = f.from
      BY <1>6, <2>1, <3>1, <3>3
    <3>4. QED BY <1>2, <3>1, <3>2, <3>3
  <2>4. QED BY <2>2, <2>3
<1>15. CASE f \in Clearings \cup ReadStates /\ ApplyBufferFrame(f)
  <2>1. f.key \in Keys
    BY <1>15, KeysAre DEF Clearings, ReadStates
  <2>2. CASE f.key \notin Held
    BY <1>1, <1>2, <1>5, <1>15, <2>2, ClearedDoes
  <2>3. CASE f.key \in Held
    <3>1. PICK b \in Buffer :
            /\ buffers' = Put(buffers, f.key, b) /\ Fits(f.key, b) /\ b.newest = Seen(f.key).newest
            /\ cursor' \in Nat /\ UNCHANGED <<backlogComplete, snapshotChannels>>
      BY <1>1, <1>15, <2>3, ClearedDoes
    <3>2. QED BY <1>2, <1>4, <2>1, <3>1
  <2>4. QED BY <2>2, <2>3
<1>16. QED BY Zenon, <1>7, <1>8, <1>9, <1>10, <1>11, <1>12, <1>13, <1>14, <1>15, HeadIs DEF f

\* Applying keeps what is seen right.
LEMMA ApplyKeepsView ==
  ASSUME ViewInv, ApplyFrame
  PROVE  UnreadIsThere' /\ JoinedComes' /\ MembersCome' /\ UnreadComes' /\ RowsAreNew'
<1> DEFINE f == Head(inbox)
           t == Tail(inbox)
<1>1. /\ Types /\ inbox \in Seq(Frames) /\ inbox # <<>> /\ inbox' = t /\ f = inbox[1] /\ f \in Frames
      /\ UNCHANGED <<log, systemHead, open, joined, members, unread, cleared, up, deleting, missed, revived>>
  BY HeadIs DEF ViewInv, HeldInv
<1>2. /\ Len(t) \in Nat /\ Len(inbox) = Len(t) + 1 /\ t \in Seq(Frames)
      /\ \A m \in 1..Len(t) : m + 1 \in 1..Len(inbox) /\ t[m] = inbox[m + 1]
  BY <1>1
<1>3. Excused' = Excused /\ \A k \in NetKeys : k \in Keys
  BY <1>1, KeysAre DEF Excused
<1>4. ASSUME deleting = "no", NEW k \in NetKeys, k \notin Excused PROVE Told(f, k)
  BY <1>4, HeadTold DEF ViewInv
<1>5. UnreadIsThere'
  BY <1>1 DEF ViewInv, UnreadIsThere, RowsOf
<1>6. JoinedComes'
  <2>1. ASSUME NEW c \in Channels PROVE ~Ends(t, Describes(c), Slices(c), c, {})
    BY <1>1, NeverEnds DEF ViewInv, JoinedComes
  <2>2. ASSUME up, deleting = "no", NEW c \in (Channels \cap open) \ Excused
        PROVE  Ends(t, Joins(c), Parts(c), c, JoinedHeld') <=> c \in joined
    <3>1. Ends(inbox, Joins(c), Parts(c), c, JoinedHeld) <=> c \in joined
      BY <2>2 DEF ViewInv, JoinedComes, JoinedAt
    <3>2. Told(f, c)
      BY <1>4, <2>2, KeysAre
    <3>3. CASE f \notin Describes(c)
      <4>1. c \in JoinedHeld' <=> f \in Joins(c) \/ (c \in JoinedHeld /\ f \notin Parts(c))
        BY <2>2, <3>2, <3>3 DEF Told
      <4>2. Ends(inbox, Joins(c), Parts(c), c, JoinedHeld) <=> Ends(t, Joins(c), Parts(c), c, JoinedHeld')
        BY <1>1, <4>1, EndsAllTail
      <4>3. QED BY <3>1, <4>2
    <3>4. CASE f \in Describes(c)
      <4>1. ~Ends(inbox, Describes(c), Slices(c), c, {})
        BY <2>2 DEF ViewInv, JoinedComes
      <4>2. PICK j \in 1..Len(t) : t[j] \in Slices(c)
        BY <1>1, <3>4, <4>1, Behind
      <4>3. t[j] \in Joins(c) \cup Parts(c)
        BY <4>2 DEF Slices, Joins, Parts
      <4>4. DEFINE C == IF f \in Joins(c) \/ (c \in JoinedHeld /\ f \notin Parts(c)) THEN {c} ELSE {}
      <4>5. c \in C <=> f \in Joins(c) \/ (c \in JoinedHeld /\ f \notin Parts(c))
        OBVIOUS
      <4> HIDE DEF C
      <4>6. Ends(inbox, Joins(c), Parts(c), c, JoinedHeld) <=> Ends(t, Joins(c), Parts(c), c, C)
        BY <1>1, <4>5, EndsAllTail
      <4>7. Ends(t, Joins(c), Parts(c), c, C) <=> Ends(t, Joins(c), Parts(c), c, JoinedHeld')
        BY <4>2, <4>3, EndsAnyway
      <4>8. QED BY <3>1, <4>6, <4>7
    <3>5. QED BY <3>3, <3>4
  <2> HIDE DEF t, f
  <2>3. QED BY <1>1, <1>3, <2>1, <2>2 DEF JoinedComes, JoinedAt
<1>7. MembersCome'
  <2>1. ASSUME up, NEW c \in joined \ Excused
        PROVE  /\ ~Ends(t, Empties(c), NamesOf(c), c, {})
               /\ \A n \in Nicks : Ends(t, Enters(c, n), Quits(c, n), n, Seen(c)'.members) <=> n \in members[c]
    <3>1. /\ ~Ends(inbox, Empties(c), NamesOf(c), c, {})
          /\ \A n \in Nicks : Ends(inbox, Enters(c, n), Quits(c, n), n, Seen(c).members) <=> n \in members[c]
      BY <2>1 DEF ViewInv, MembersCome, MembersAt
    <3>2. c \in Channels /\ deleting = "no"
      BY <1>1, <2>1 DEF Types, ServerTypes, LinkTypes
    <3>3. Told(f, c)
      BY <1>4, <2>1, <3>2, KeysAre
    <3>4. ~Ends(t, Empties(c), NamesOf(c), c, {})
      BY <1>1, <3>1, NeverEnds
    <3>5. ASSUME NEW n \in Nicks
          PROVE  Ends(t, Enters(c, n), Quits(c, n), n, Seen(c)'.members) <=> n \in members[c]
      <4>1. CASE f \notin Empties(c)
        <5>1. n \in Seen(c)'.members <=> f \in Enters(c, n) \/ (n \in Seen(c).members /\ f \notin Quits(c, n))
          BY <3>2, <3>3, <4>1 DEF Told
        <5>2. PICK M, N : M = Seen(c).members /\ N = Seen(c)'.members
          OBVIOUS
        <5>3. Ends(inbox, Enters(c, n), Quits(c, n), n, M) <=> Ends(t, Enters(c, n), Quits(c, n), n, N)
          BY <1>1, <5>1, <5>2, EndsAllTail
        <5>4. QED BY <3>1, <5>2, <5>3
      <4>2. CASE f \in Empties(c)
        <5>1. PICK j \in 1..Len(t) : t[j] \in NamesOf(c)
          BY <1>1, <3>1, <4>2, Behind
        <5>2. t[j] \in Enters(c, n) \cup Quits(c, n)
          BY <5>1 DEF NamesOf, Enters, Quits
        <5> DEFINE C == IF f \in Enters(c, n) \/ (n \in Seen(c).members /\ f \notin Quits(c, n)) THEN {n} ELSE {}
        <5>3. n \in C <=> f \in Enters(c, n) \/ (n \in Seen(c).members /\ f \notin Quits(c, n))
          OBVIOUS
        <5> HIDE DEF C
        <5>4. PICK M, N : M = Seen(c).members /\ N = Seen(c)'.members
          OBVIOUS
        <5>5. Ends(inbox, Enters(c, n), Quits(c, n), n, M) <=> Ends(t, Enters(c, n), Quits(c, n), n, C)
          BY <1>1, <5>3, <5>4, EndsAllTail
        <5>6. Ends(t, Enters(c, n), Quits(c, n), n, C) <=> Ends(t, Enters(c, n), Quits(c, n), n, N)
          BY <5>1, <5>2, EndsAnyway
        <5>7. QED BY <3>1, <5>4, <5>5, <5>6
      <4>3. QED BY <4>1, <4>2
    <3>6. QED BY <3>4, <3>5
  <2> HIDE DEF t, f
  <2>2. QED BY <1>1, <1>3, <2>1 DEF MembersCome, MembersAt
<1>8. UnreadComes'
  <2>1. ASSUME up, deleting = "no", NEW k \in NetKeys \ Excused
        PROVE  Ends(t, Counts(k, unread[k]), Recounts(k, unread[k]), k, Counted(unread[k])')
    <3> DEFINE u == unread[k]
    <3>1. Ends(inbox, Counts(k, u), Recounts(k, u), k, Counted(u)) /\ u \in Nat
      BY <1>1, <1>3, <2>1 DEF ViewInv, UnreadComes, UnreadAt, Types, ServerTypes
    <3>2. Counted(u)' = {l \in Keys : Seen(l)'.unread = u}
      BY <1>1 DEF Counted
    <3> HIDE DEF u
    <3>3. f \in Counts(k, u) \/ (k \in Counted(u) /\ f \notin Recounts(k, u)) => k \in Counted(u)'
      BY <1>3, <1>4, <2>1, <3>1, <3>2 DEF Told, Counted
    <3> DEFINE C == IF f \in Counts(k, u) \/ (k \in Counted(u) /\ f \notin Recounts(k, u)) THEN {k} ELSE {}
    <3>4. k \in C <=> f \in Counts(k, u) \/ (k \in Counted(u) /\ f \notin Recounts(k, u))
      OBVIOUS
    <3> HIDE DEF C
    <3>5. Ends(t, Counts(k, u), Recounts(k, u), k, C)
      BY <1>1, <3>1, <3>4, EndsAllTail
    <3>6. PICK D : D = Counted(u)'
      OBVIOUS
    <3>7. Ends(t, Counts(k, u), Recounts(k, u), k, D)
      BY <3>3, <3>4, <3>5, <3>6 DEF Ends, EndsAt
    <3>8. QED BY <3>6, <3>7 DEF u
  <2> HIDE DEF t, f
  <2>2. QED BY <1>1, <1>3, <2>1 DEF UnreadComes, UnreadAt, Counted
<1>9. RowsAreNew'
  <2>1. SUFFICES ASSUME NEW m \in 1..Len(t), t[m].kind = "irc", t[m].key # System
                 PROVE  /\ \A k \in NetKeys : Seen(k)'.newest < t[m].id
                        /\ \A l \in 1..Len(t) : l < m => \A id \in Ids(t[l]) : id < t[m].id
    BY <1>1 DEF RowsAreNew
  <2>2. PICK g \in Frames : g = t[m] /\ g = inbox[m + 1] /\ g.id \in Nat /\ g.id > 0
    <3>1. PICK g \in Frames : g = t[m] /\ g = inbox[m + 1]
      BY <1>2
    <3>2. g \in IrcRows /\ Sound(g)
      BY <1>1, <1>2, <2>1, <3>1, KindTells DEF Types, LinkTypes
    <3>3. g.id \in 1..Limit(g.key)
      BY <2>1, <3>1, <3>2 DEF Sound
    <3>4. QED BY <3>1, <3>2, <3>3 DEF IrcRows
  <2>3. /\ \A l \in NetKeys : Seen(l).newest < g.id
        /\ \A l \in 1..Len(inbox) : l < m + 1 => \A id \in Ids(inbox[l]) : id < g.id
    <3>1. m + 1 \in 1..Len(inbox) /\ inbox[m + 1].kind = "irc" /\ inbox[m + 1].key # System
      BY <1>2, <2>1
    <3>2. QED BY <2>2, <3>1 DEF ViewInv, RowsAreNew
  <2>4. \A id \in Ids(f) : id < g.id
    <3>1. 1 \in 1..Len(inbox) /\ 1 < m + 1
      BY <1>2, <2>1
    <3>2. QED BY <1>1, <2>3, <3>1
  <2>5. ASSUME NEW k \in NetKeys PROVE Seen(k)'.newest < g.id
    BY <1>1, <2>2, <2>3, <2>4, HeadBrings
  <2>6. ASSUME NEW l \in 1..Len(t), l < m, NEW id \in Ids(t[l]) PROVE id < g.id
    <3>1. l + 1 \in 1..Len(inbox) /\ t[l] = inbox[l + 1] /\ l + 1 < m + 1
      BY <1>2, <2>6
    <3>2. QED BY <2>3, <2>6, <3>1
  <2>7. QED BY <2>2, <2>5, <2>6
<1>10. QED BY <1>5, <1>6, <1>7, <1>8, <1>9

(* What the server does, told by the frames that it sends *)

\* The frames q tell, of the channels K, that those in J are joined; that M are their
\* members; and of the conversations K, that U are the counts of what is unread.
TellsJoined(q, K, J) == \A c \in K : Ends(q, Joins(c), Parts(c), c, JoinedHeld) <=> c \in J
TellsMembers(q, K, M) ==
  \A c \in K : /\ ~Ends(q, Empties(c), NamesOf(c), c, {})
               /\ \A n \in Nicks : Ends(q, Enters(c, n), Quits(c, n), n, Seen(c).members) <=> n \in M[c]
TellsUnread(q, K, U) == \A k \in K : Ends(q, Counts(k, U[k]), Recounts(k, U[k]), k, Counted(U[k]))
SlicesFollow(q) == \A c \in Channels : ~Ends(q, Describes(c), Slices(c), c, {})
NewRows(q) ==
  \A m \in 1..Len(q) : q[m].kind = "irc" /\ q[m].key # System =>
    /\ \A k \in NetKeys : Seen(k).newest < q[m].id
    /\ \A l \in 1..Len(q) : l < m => \A id \in Ids(q[l]) : id < q[m].id

\* What a frame tells is added to what was told before.
LEMMA JoinedAppend ==
  ASSUME NEW q \in Seq(Frames), NEW a \in Frames, NEW K, NEW J, NEW L, NEW I, TellsJoined(q, K, J),
         \A c \in L : /\ c \in I <=> a \in Joins(c) \/ (c \in J /\ a \notin Parts(c))
                      /\ c \in K \/ a \in Joins(c) \cup Parts(c)
  PROVE  TellsJoined(Append(q, a), L, I)
<1>1. SUFFICES ASSUME NEW c \in L PROVE Ends(Append(q, a), Joins(c), Parts(c), c, JoinedHeld) <=> c \in I
  BY DEF TellsJoined
<1>2. Ends(Append(q, a), Joins(c), Parts(c), c, JoinedHeld)
        <=> a \in Joins(c) \/ (Ends(q, Joins(c), Parts(c), c, JoinedHeld) /\ a \notin Parts(c))
  BY EndsAppend
<1>3. c \in K => (Ends(q, Joins(c), Parts(c), c, JoinedHeld) <=> c \in J)
  BY DEF TellsJoined
<1>4. QED BY <1>2, <1>3

\* Members: nobody is taken out without the names behind it.
LEMMA MembersAppend ==
  ASSUME NEW q \in Seq(Frames), NEW a \in Frames, NEW K, NEW M, NEW L, NEW N, TellsMembers(q, K, M),
         \A c \in L : /\ \A n \in Nicks : n \in N[c] <=> a \in Enters(c, n) \/ (n \in M[c] /\ a \notin Quits(c, n))
                      /\ a \notin Empties(c)
                      /\ c \in K \/ a \in NamesOf(c)
  PROVE  TellsMembers(Append(q, a), L, N)
<1>1. SUFFICES ASSUME NEW c \in L
               PROVE  /\ ~Ends(Append(q, a), Empties(c), NamesOf(c), c, {})
                      /\ \A n \in Nicks : Ends(Append(q, a), Enters(c, n), Quits(c, n), n, Seen(c).members) <=> n \in N[c]
  BY DEF TellsMembers
<1>2. Ends(Append(q, a), Empties(c), NamesOf(c), c, {})
        <=> a \in Empties(c) \/ (Ends(q, Empties(c), NamesOf(c), c, {}) /\ a \notin NamesOf(c))
  BY EndsAppend
<1>3. \A n : Ends(Append(q, a), Enters(c, n), Quits(c, n), n, Seen(c).members)
               <=> a \in Enters(c, n) \/ (Ends(q, Enters(c, n), Quits(c, n), n, Seen(c).members) /\ a \notin Quits(c, n))
  BY EndsAppend
<1>4. c \in K => /\ ~Ends(q, Empties(c), NamesOf(c), c, {})
                 /\ \A n \in Nicks : Ends(q, Enters(c, n), Quits(c, n), n, Seen(c).members) <=> n \in M[c]
  BY DEF TellsMembers
<1>5. a \in NamesOf(c) => \A n : a \in Enters(c, n) \cup Quits(c, n)
  BY EntersAre DEF NamesOf
<1>6. QED BY <1>2, <1>3, <1>4, <1>5

\* Counts: a frame says this count, or the count stays and the frame says no other.
LEMMA UnreadAppend ==
  ASSUME NEW q \in Seq(Frames), NEW a \in Frames, NEW K, NEW U, NEW L, NEW V, TellsUnread(q, K, U),
         \A k \in L : a \in Counts(k, V[k]) \/ (k \in K /\ U[k] = V[k] /\ a \notin Recounts(k, V[k]))
  PROVE  TellsUnread(Append(q, a), L, V)
<1>1. SUFFICES ASSUME NEW k \in L
               PROVE  Ends(Append(q, a), Counts(k, V[k]), Recounts(k, V[k]), k, Counted(V[k]))
  BY DEF TellsUnread
<1>2. Ends(Append(q, a), Counts(k, V[k]), Recounts(k, V[k]), k, Counted(V[k]))
        <=> a \in Counts(k, V[k]) \/ (Ends(q, Counts(k, V[k]), Recounts(k, V[k]), k, Counted(V[k])) /\ a \notin Recounts(k, V[k]))
  BY EndsAppend
<1>3. k \in K /\ U[k] = V[k] => Ends(q, Counts(k, V[k]), Recounts(k, V[k]), k, Counted(V[k]))
  BY DEF TellsUnread
<1>4. QED BY <1>2, <1>3

\* Snapshots are only sent with a burst.
LEMMA SlicesAppend ==
  ASSUME NEW q \in Seq(Frames), NEW a \in Frames, a.kind # "snapshot", SlicesFollow(q)
  PROVE  SlicesFollow(Append(q, a))
<1>1. SUFFICES ASSUME NEW c \in Channels PROVE ~Ends(Append(q, a), Describes(c), Slices(c), c, {})
  BY DEF SlicesFollow
<1>2. a \notin Describes(c)
  BY DEF Describes
<1>3. Ends(Append(q, a), Describes(c), Slices(c), c, {})
        <=> a \in Describes(c) \/ (Ends(q, Describes(c), Slices(c), c, {}) /\ a \notin Slices(c))
  BY EndsAppend
<1>4. QED BY <1>2, <1>3 DEF SlicesFollow

\* A row that is sent is newer than all that there are; q is on its way or begins so.
LEMMA RowsAppend ==
  ASSUME NEW q \in Seq(Frames), NEW a \in Frames, NewRows(q),
         a.kind = "irc" /\ a.key # System =>
           /\ \A k \in NetKeys : Seen(k).newest < a.id
           /\ \A l \in 1..Len(q) : \A id \in Ids(q[l]) : id < a.id
  PROVE  NewRows(Append(q, a))
<1> DEFINE r == Append(q, a)
<1>1. /\ Len(q) \in Nat /\ Len(r) = Len(q) + 1 /\ r[Len(q) + 1] = a
      /\ \A i \in 1..Len(q) : r[i] = q[i]
  OBVIOUS
<1> HIDE DEF r
<1>2. SUFFICES ASSUME NEW m \in 1..Len(r), r[m].kind = "irc", r[m].key # System
               PROVE  /\ \A k \in NetKeys : Seen(k).newest < r[m].id
                      /\ \A l \in 1..Len(r) : l < m => \A id \in Ids(r[l]) : id < r[m].id
  BY DEF NewRows, r
<1>3. \A l \in 1..Len(r) : l < m => l \in 1..Len(q) /\ r[l] = q[l]
  BY <1>1, <1>2
<1>4. CASE m = Len(q) + 1
  <2>1. r[m] = a
    BY <1>1, <1>4
  <2>2. QED BY <1>2, <1>3, <2>1
<1>5. CASE m # Len(q) + 1
  <2>1. m \in 1..Len(q) /\ r[m] = q[m]
    BY <1>1, <1>2, <1>5
  <2>2. QED BY <1>2, <1>3, <2>1 DEF NewRows
<1>6. QED BY <1>4, <1>5

\* A frame that is silent of all tells what was told before, of no more than that.
LEMMA SilentAppend ==
  ASSUME NEW q \in Seq(Frames), NEW a \in Frames, \A k \in Keys : Silent(a, k),
         NEW K, NEW J, NEW L, NEW M, NEW Q, NEW U,
         K \subseteq Keys, L \subseteq Keys, Q \subseteq Keys,
         a.kind # "ephemeral", a.kind # "buffer-closed"
  PROVE  /\ TellsJoined(q, K, J) => TellsJoined(Append(q, a), K, J)
         /\ TellsMembers(q, L, M) => TellsMembers(Append(q, a), L, M)
         /\ TellsUnread(q, Q, U) => TellsUnread(Append(q, a), Q, U)
<1>1. TellsJoined(q, K, J) => TellsJoined(Append(q, a), K, J)
  BY JoinedAppend DEF Silent
<1>2. TellsMembers(q, L, M) => TellsMembers(Append(q, a), L, M)
  BY MembersAppend DEF Silent, Empties
<1>3. TellsUnread(q, Q, U) => TellsUnread(Append(q, a), Q, U)
  BY UnreadAppend DEF Silent
<1>4. QED BY <1>1, <1>2, <1>3

\* What is on its way now tells all this of the server as it is.
LEMMA ViewNow ==
  ASSUME ViewInv
  PROVE  /\ inbox \in Seq(Frames) /\ SlicesFollow(inbox) /\ NewRows(inbox)
         /\ up /\ deleting = "no" => /\ TellsJoined(inbox, (Channels \cap open) \ Excused, joined)
                                     /\ TellsUnread(inbox, NetKeys \ Excused, unread)
         /\ up => TellsMembers(inbox, joined \ Excused, members)
<1>1. inbox \in Seq(Frames) /\ SlicesFollow(inbox) /\ NewRows(inbox)
  BY DEF ViewInv, HeldInv, Types, LinkTypes, JoinedComes, RowsAreNew, SlicesFollow, NewRows
<1>2. up /\ deleting = "no" => TellsJoined(inbox, (Channels \cap open) \ Excused, joined)
  BY DEF ViewInv, JoinedComes, JoinedAt, TellsJoined
<1>3. up /\ deleting = "no" => TellsUnread(inbox, NetKeys \ Excused, unread)
  BY DEF ViewInv, UnreadComes, UnreadAt, TellsUnread
<1>4. up => TellsMembers(inbox, joined \ Excused, members)
  BY DEF ViewInv, MembersCome, MembersAt, TellsMembers
<1>5. QED BY <1>1, <1>2, <1>3, <1>4

\* And if it tells it of the server as it will be, that is right with the store left alone.
LEMMA ViewNext ==
  ASSUME Types, HeldInv', Steady, UnreadIsThere',
         NEW q, q = inbox', NEW O, O = open', NEW J, J = joined', NEW M, M = members', NEW U, U = unread',
         NEW X, X = Excused', SlicesFollow(q), NewRows(q),
         up => /\ TellsJoined(q, (Channels \cap O) \ X, J)
               /\ TellsMembers(q, J \ X, M)
               /\ TellsUnread(q, NetKeys \ X, U)
  PROVE  ViewInv'
<1>1. /\ JoinedHeld' = JoinedHeld /\ UNCHANGED up
      /\ \A k \in Keys : Seen(k)' = Seen(k)
      /\ \A u : Counted(u)' = Counted(u)
  BY Zenon DEF Steady, JoinedHeld, Counted
<1>2. JoinedComes'
  <2>1. \A c \in Channels : ~Ends(inbox', Describes(c), Slices(c), c, {})
    BY DEF SlicesFollow
  <2>2. up => \A c \in (Channels \cap open') \ Excused' : Ends(inbox', Joins(c), Parts(c), c, JoinedHeld') <=> c \in joined'
    BY <1>1 DEF TellsJoined
  <2>3. QED BY <1>1, <2>1, <2>2 DEF JoinedComes, JoinedAt
<1>3. MembersCome'
  <2>1. ASSUME up, NEW c \in joined' \ Excused'
        PROVE  /\ ~Ends(inbox', Empties(c), NamesOf(c), c, {})
               /\ \A n \in Nicks : Ends(inbox', Enters(c, n), Quits(c, n), n, Seen(c)'.members) <=> n \in members'[c]
    <3>1. c \in Keys
      BY KeysAre DEF HeldInv, Types, ServerTypes
    <3>2. Seen(c)' = Seen(c)
      BY <1>1, <3>1
    <3>3. QED BY <2>1, <3>2 DEF TellsMembers
  <2>2. QED BY <1>1, <2>1 DEF MembersCome, MembersAt
<1>4. UnreadComes'
  <2>1. ASSUME up, NEW k \in NetKeys \ Excused'
        PROVE  Ends(inbox', Counts(k, unread'[k]), Recounts(k, unread'[k]), k, Counted(unread'[k]))
    BY <2>1 DEF TellsUnread
  <2>2. \A v : Counted(v)' = Counted(v)
    BY <1>1
  <2>3. QED BY <1>1, <2>1, <2>2 DEF UnreadComes, UnreadAt
<1>5. RowsAreNew'
  BY <1>1, KeysAre DEF NewRows, RowsAreNew
<1>6. QED BY <1>2, <1>3, <1>4, <1>5 DEF ViewInv

\* With the connection down, there is nothing to be told.
LEMMA DownKeepsView ==
  ASSUME ViewInv, HeldInv', Steady, UnreadIsThere', ~up, inbox' = inbox
  PROVE  ViewInv'
<1>1. PICK O, J, M, U, X : O = open' /\ J = joined' /\ M = members' /\ U = unread' /\ X = Excused'
  OBVIOUS
<1>2. SlicesFollow(inbox) /\ NewRows(inbox) /\ Types
  BY ViewNow DEF ViewInv, HeldInv
<1>3. QED BY <1>1, <1>2, ViewNext
\* All rows of the network that are here or on their way are in the log.
LEMMA AllAreLogged ==
  ASSUME Types
  PROVE  /\ \A k \in NetKeys : Seen(k).newest < Len(log) + 1
         /\ \A l \in 1..Len(inbox) : \A id \in Ids(inbox[l]) : id < Len(log) + 1
<1>1. Len(log) \in Nat /\ \A k \in NetKeys : k \in Keys /\ k # System /\ Limit(k) = Len(log)
  BY KeysAre DEF Types, ServerTypes, Limit
<1>2. ASSUME NEW k \in NetKeys PROVE Seen(k).newest < Len(log) + 1
  <2>1. Fits(k, Seen(k)) /\ Seen(k).newest \in Nat
    BY <1>1, SeenIs DEF Types, ServerTypes, Buffer
  <2>2. QED BY <1>1, <2>1 DEF Fits
<1>3. ASSUME NEW l \in 1..Len(inbox), NEW id \in Ids(inbox[l]) PROVE id < Len(log) + 1
  <2>1. PICK f \in Frames : f = inbox[l]
    BY DEF Types, LinkTypes
  <2>2. Sound(f) /\ id \in Ids(f)
    BY <1>3, <2>1 DEF Types, LinkTypes
  <2>3. CASE f.kind = "irc" /\ f.key # System
    <3>1. id = f.id /\ f.key \in NetKeys
      BY <2>2, <2>3, KindTells, KeysAre DEF Ids, IrcRows
    <3>2. QED BY <1>1, <2>2, <2>3, <3>1 DEF Sound
  <2>4. CASE f.kind \in {"backlog", "history"} /\ f.key # System
    <3>1. id \in f.rows /\ f.key \in NetKeys
      BY <2>2, <2>4, KindTells, KeysAre DEF Ids, Backlogs, Histories
    <3>2. QED BY <1>1, <2>2, <2>4, <3>1 DEF Sound
  <2>5. QED BY <2>2, <2>3, <2>4 DEF Ids
<1>4. QED BY <1>2, <1>3

\* With a longer log, what had rows that were not cleared still has.
LEMMA RowsStay ==
  ASSUME Types, NEW k \in NetKeys, RowsOf(k) # {}, cleared'[k] = cleared[k],
         \A id \in DOMAIN log : id \in DOMAIN log' /\ log'[id].key = log[id].key
  PROVE  RowsOf(k)' # {}
BY KeysAre DEF RowsOf

\* A row: its sender comes or goes, or it is counted.
LEMMA RowKeepsView ==
  ASSUME ViewInv, NEW key \in NetKeys, NEW type \in {"message", "join", "part"}, NEW nick \in Nicks,
         key \in Channels => key \in joined,
         AddRow(key, type, nick), members' \in [Channels -> SUBSET Nicks],
         \A c \in Channels, n \in Nicks :
           n \in members'[c] <=> \/ type = "join" /\ c = key /\ n = nick
                                 \/ n \in members[c] /\ ~(type = "part" /\ c = key /\ n = nick)
  PROVE  ViewInv'
<1>1. /\ Types /\ Types' /\ HeldInv' /\ Steady /\ UNCHANGED <<up, joined, cleared, missed, revived>> /\ deleting = "no"
      /\ open' = open \cup {key} /\ key \in Keys
      /\ unread' = IF type = "message" THEN [unread EXCEPT ![key] = unread[key] + 1] ELSE unread
      /\ log' = Append(log, [key |-> key, type |-> type, nick |-> nick])
  BY RowSends, RowKeepsHeld, KeysAre DEF ViewInv, HeldInv, Steady
<1>2. PICK row \in Frames, count \in Frames :
        /\ row = Irc(Len(log) + 1, key, type, nick) /\ count = ReadState(key, unread[key] + 1)
        /\ inbox' = IF ~up THEN inbox
                    ELSE IF type = "message" THEN Append(Append(inbox, row), count) ELSE Append(inbox, row)
  <2>1. RowIsSent(key, type, nick)
    BY <1>1, RowSends
  <2>2. QED BY Zenon, <2>1 DEF RowIsSent
<1>3. /\ row.kind = "irc" /\ row.key = key /\ row.id = Len(log) + 1 /\ row.type = type /\ row.nick = nick
      /\ count.kind = "read-state" /\ count.key = key /\ count.unread = unread[key] + 1
  BY <1>2 DEF Irc, ReadState
<1>4. PICK N, V, X : N = members' /\ V = unread' /\ X = Excused'
  OBVIOUS
<1>5. X = Excused /\ unread \in [Keys -> Nat] /\ open \subseteq NetKeys /\ joined \subseteq Channels \cap open
  BY <1>1, <1>4 DEF Excused, Types, ServerTypes
<1>6. UnreadIsThere'
  <2>1. /\ log \in Seq(LogRows) /\ Len(log) \in Nat /\ Len(log') = Len(log) + 1 /\ log'[Len(log) + 1].key = key
        /\ \A id \in DOMAIN log : id \in DOMAIN log' /\ log'[id].key = log[id].key
        /\ Len(log) + 1 \in DOMAIN log'
    <3>1. PICK e \in LogRows : e = [key |-> key, type |-> type, nick |-> nick]
      BY DEF LogRows
    <3>2. log \in Seq(LogRows) /\ log' = Append(log, e) /\ e.key = key
      BY <1>1, <3>1 DEF Types, ServerTypes
    <3>3. QED BY <3>2
  <2>2. key # System /\ cleared'[key] <= Len(log) + 1 /\ cleared \in [Keys -> Nat]
    BY <1>1, KeysAre DEF Types, ServerTypes
  <2>3. Len(log) + 1 \in RowsOf(key)'
    BY <2>1, <2>2 DEF RowsOf
  <2>4. ASSUME NEW k \in NetKeys, k # key
        PROVE  (unread'[k] > 0 => RowsOf(k)' # {}) /\ (k \notin open' => unread'[k] = 0)
    <3>1. unread'[k] = unread[k] /\ (k \notin open' => k \notin open)
      BY <1>1, <1>5, <2>4, KeysAre
    <3>2. (unread[k] > 0 => RowsOf(k) # {}) /\ (k \notin open => unread[k] = 0)
      BY <1>1 DEF ViewInv, UnreadIsThere
    <3>3. RowsOf(k) # {} => RowsOf(k)' # {}
      BY <1>1, <2>1, RowsStay
    <3>4. QED BY <3>1, <3>2, <3>3
  <2>5. QED BY <1>1, <2>3, <2>4 DEF UnreadIsThere
<1>7. CASE ~up
  BY <1>1, <1>2, <1>6, <1>7, DownKeepsView
<1>8. CASE up
  <2> DEFINE q == Append(inbox, row)
             K == (Channels \cap open) \ X
  <2>1. /\ SlicesFollow(inbox) /\ NewRows(inbox) /\ inbox \in Seq(Frames)
        /\ TellsJoined(inbox, K, joined) /\ TellsMembers(inbox, joined \ X, members) /\ TellsUnread(inbox, NetKeys \ X, unread)
    BY <1>1, <1>5, <1>8, ViewNow
  <2>2. q \in Seq(Frames) /\ SlicesFollow(q) /\ NewRows(q)
    BY <1>1, <1>3, <2>1, AllAreLogged, SlicesAppend, RowsAppend
  <2>3. TellsJoined(q, K, joined)
    <3>1. \A c : row \notin Joins(c) /\ row \notin Parts(c)
      BY <1>3, JoinsAre
    <3>2. QED BY <2>1, <3>1, JoinedAppend
  <2>4. TellsMembers(q, joined \ X, N)
    <3>1. \A c : row \notin Empties(c)
      BY <1>3 DEF Empties
    <3>2. \A c \in joined, n \in Nicks : n \in N[c] <=> row \in Enters(c, n) \/ (n \in members[c] /\ row \notin Quits(c, n))
      BY <1>3, <1>4, <1>5, EntersAre
    <3>3. QED BY <2>1, <3>1, <3>2, MembersAppend
  <2>5. TellsUnread(q, NetKeys \ X, unread)
    <3>1. \A k, u : row \notin Recounts(k, u)
      BY <1>3, CountsAre
    <3>2. QED BY <2>1, <3>1, UnreadAppend
  <2>6. Channels \cap (open \cup {key}) = Channels \cap open
    BY <1>5
  <2> HIDE DEF q
  <2>7. CASE type = "message"
    <3> DEFINE r == Append(q, count)
    <3>1. SlicesFollow(r) /\ NewRows(r) /\ inbox' = r
      BY <1>2, <1>3, <1>8, <2>2, <2>7, SlicesAppend, RowsAppend DEF q
    <3>2. TellsJoined(r, K, joined)
      <4>1. \A c : count \notin Joins(c) /\ count \notin Parts(c)
        BY <1>3, JoinsAre
      <4>2. QED BY <2>2, <2>3, <4>1, JoinedAppend
    <3>3. TellsMembers(r, joined \ X, N)
      <4>1. \A c, n : count \notin Empties(c) /\ count \notin Enters(c, n) /\ count \notin Quits(c, n)
        BY <1>3, EntersAre DEF Empties
      <4>2. QED BY <2>2, <2>4, <4>1, MembersAppend
    <3>4. TellsUnread(r, NetKeys \ X, V)
      <4>1. \A k \in NetKeys : count \in Counts(k, V[k]) \/ (unread[k] = V[k] /\ count \notin Recounts(k, V[k]))
        BY <1>1, <1>3, <1>4, <1>5, <2>7, CountsAre, KeysAre
      <4>2. QED BY <2>2, <2>5, <4>1, UnreadAppend
    <3> HIDE DEF r
    <3>5. QED BY <1>1, <1>4, <1>6, <2>6, <3>1, <3>2, <3>3, <3>4, ViewNext
  <2>8. CASE type # "message"
    <3>1. inbox' = q /\ V = unread
      BY <1>1, <1>2, <1>4, <1>8, <2>8 DEF q
    <3>2. QED BY <1>1, <1>4, <1>6, <2>2, <2>3, <2>4, <2>5, <2>6, <3>1, ViewNext
  <2>9. QED BY <2>7, <2>8
<1>9. QED BY <1>7, <1>8
\* What is unread stays there while no more of it is.
LEMMA UnreadStays ==
  ASSUME ViewInv, Steady, UNCHANGED <<log, cleared>>,
         \A k \in NetKeys : unread'[k] > 0 => unread[k] > 0,
         \A k \in NetKeys \ open' : unread'[k] = 0
  PROVE  UnreadIsThere'
<1>1. \A k \in NetKeys : RowsOf(k)' = RowsOf(k)
  BY KeysAre DEF RowsOf
<1>2. \A k \in NetKeys : unread[k] > 0 => RowsOf(k) # {}
  BY DEF ViewInv, UnreadIsThere, Steady
<1>3. QED BY <1>1, <1>2 DEF UnreadIsThere

\* What is known when the server has done something with the connection up
LEMMA SteadyView ==
  ASSUME ViewInv, Steady
  PROVE  /\ Types /\ unread \in [Keys -> Nat] /\ members \in [Channels -> SUBSET Nicks]
         /\ open \subseteq NetKeys /\ joined \subseteq Channels \cap open
         /\ \A k \in NetKeys \ open : unread[k] = 0
         /\ \A k \in NetKeys : unread[k] > 0 => RowsOf(k) # {}
         /\ up => /\ SlicesFollow(inbox) /\ NewRows(inbox) /\ inbox \in Seq(Frames)
                  /\ TellsJoined(inbox, (Channels \cap open) \ Excused, joined)
                  /\ TellsMembers(inbox, joined \ Excused, members)
                  /\ TellsUnread(inbox, NetKeys \ Excused, unread)
<1>1. deleting = "no"
  BY DEF Steady
<1>2. QED BY <1>1, ViewNow DEF ViewInv, HeldInv, Types, ServerTypes, UnreadIsThere

\* A join: the first frame tells it, the second names the members.
LEMMA SelfJoinKeepsView ==
  ASSUME ViewInv, NEW c \in Channels, SelfJoin(c) PROVE ViewInv'
<1>1. /\ Types /\ HeldInv' /\ Steady /\ UNCHANGED <<log, unread, cleared, missed, revived>>
      /\ joined' = joined \cup {c} /\ open' = open \cup {c}
  BY SelfJoinSends, SelfJoinKeepsHeld DEF ViewInv, HeldInv
<1>2. PICK join \in Frames, names \in Frames, nicks \in SUBSET Nicks :
        /\ join = Ephemeral(c, "channel-joined", {}) /\ names = Ephemeral(c, "names", nicks)
        /\ members' = [members EXCEPT ![c] = nicks]
        /\ inbox' = IF up THEN Append(Append(inbox, join), names) ELSE inbox
  BY <1>1, SelfJoinSends
<1>3. /\ join.kind = "ephemeral" /\ join.key = c /\ join.type = "channel-joined"
      /\ names.kind = "ephemeral" /\ names.key = c /\ names.type = "names" /\ names.nicks = nicks
  BY <1>2 DEF Ephemeral
<1>4. PICK N, X : N = members' /\ X = Excused'
  OBVIOUS
<1>5. X = Excused /\ N = [members EXCEPT ![c] = nicks]
  BY <1>1, <1>2, <1>4 DEF Excused
<1>6. UnreadIsThere'
  BY <1>1, SteadyView, UnreadStays
<1>7. CASE ~up
  BY <1>1, <1>2, <1>6, <1>7, DownKeepsView
<1>8. CASE up
  <2> DEFINE q == Append(inbox, join)
             r == Append(q, names)
             L == (Channels \cap (open \cup {c})) \ X
             I == joined \cup {c}
  <2>1. /\ SlicesFollow(inbox) /\ NewRows(inbox) /\ inbox \in Seq(Frames) /\ joined \subseteq Channels
        /\ TellsJoined(inbox, (Channels \cap open) \ X, joined) /\ TellsMembers(inbox, joined \ X, members)
        /\ TellsUnread(inbox, NetKeys \ X, unread) /\ members \in [Channels -> SUBSET Nicks]
    BY <1>1, <1>5, <1>8, SteadyView
  <2>2. q \in Seq(Frames) /\ SlicesFollow(q) /\ NewRows(q)
    BY <1>3, <2>1, SlicesAppend, RowsAppend
  <2>3. TellsJoined(q, L, I)
    <3>1. \A d : (join \in Joins(d) <=> d = c) /\ join \notin Parts(d)
      BY <1>3, JoinsAre
    <3>2. QED BY <2>1, <3>1, JoinedAppend
  <2>4. TellsMembers(q, joined \ X, members)
    <3>1. \A d, n : join \notin Empties(d) /\ join \notin Enters(d, n) /\ join \notin Quits(d, n)
      BY <1>3, EntersAre DEF Empties
    <3>2. QED BY <2>1, <3>1, MembersAppend
  <2>5. TellsUnread(q, NetKeys \ X, unread)
    <3>1. \A k, u : join \notin Recounts(k, u)
      BY <1>3, CountsAre
    <3>2. QED BY <2>1, <3>1, UnreadAppend
  <2> HIDE DEF q
  <2>6. SlicesFollow(r) /\ NewRows(r)
    BY <1>3, <2>2, SlicesAppend, RowsAppend
  <2>7. TellsJoined(r, L, I)
    <3>1. \A d : names \notin Joins(d) /\ names \notin Parts(d)
      BY <1>3, JoinsAre
    <3>2. QED BY <2>2, <2>3, <3>1, JoinedAppend
  <2>8. TellsMembers(r, I \ X, N)
    <3>1. \A d : names \notin Empties(d) /\ (d = c => names \in NamesOf(d))
      BY <1>3 DEF Empties, NamesOf
    <3>2. \A d, n : (names \in Enters(d, n) <=> d = c /\ n \in nicks) /\ (names \in Quits(d, n) <=> d = c /\ n \notin nicks)
      BY <1>3, EntersAre
    <3>3. \A d \in I, n \in Nicks : n \in N[d] <=> names \in Enters(d, n) \/ (n \in members[d] /\ names \notin Quits(d, n))
      BY <1>5, <2>1, <3>2
    <3>4. QED BY <2>2, <2>4, <3>1, <3>3, MembersAppend
  <2>9. TellsUnread(r, NetKeys \ X, unread)
    <3>1. \A k, u : names \notin Recounts(k, u)
      BY <1>3, CountsAre
    <3>2. QED BY <2>2, <2>5, <3>1, UnreadAppend
  <2>10. inbox' = r
    BY <1>2, <1>8 DEF q
  <2> HIDE DEF r
  <2>11. QED BY <1>1, <1>4, <1>6, <2>6, <2>7, <2>8, <2>9, <2>10, ViewNext
<1>9. QED BY <1>7, <1>8

\* A part: the channel is left without members, which nobody asks about.
LEMMA SelfPartKeepsView ==
  ASSUME ViewInv, NEW c \in Channels, SelfPart(c) PROVE ViewInv'
<1>1. /\ Types /\ HeldInv' /\ Steady /\ UNCHANGED <<log, open, unread, cleared, missed, revived>>
      /\ joined' = joined \ {c} /\ members' = [members EXCEPT ![c] = {}]
  BY SelfPartSends, SelfPartKeepsHeld DEF ViewInv, HeldInv
<1>2. PICK part \in Frames :
        part = Ephemeral(c, "channel-parted", {}) /\ inbox' = IF up THEN Append(inbox, part) ELSE inbox
  BY <1>1, SelfPartSends
<1>3. part.kind = "ephemeral" /\ part.key = c /\ part.type = "channel-parted"
  BY <1>2 DEF Ephemeral
<1>4. PICK N, X : N = members' /\ X = Excused'
  OBVIOUS
<1>5. X = Excused /\ N = [members EXCEPT ![c] = {}]
  BY <1>1, <1>4 DEF Excused
<1>6. UnreadIsThere'
  BY <1>1, SteadyView, UnreadStays
<1>7. CASE ~up
  BY <1>1, <1>2, <1>6, <1>7, DownKeepsView
<1>8. CASE up
  <2> DEFINE q == Append(inbox, part)
  <2>1. /\ SlicesFollow(inbox) /\ NewRows(inbox) /\ inbox \in Seq(Frames) /\ joined \subseteq Channels
        /\ TellsJoined(inbox, (Channels \cap open) \ X, joined) /\ TellsMembers(inbox, joined \ X, members)
        /\ TellsUnread(inbox, NetKeys \ X, unread) /\ members \in [Channels -> SUBSET Nicks]
    BY <1>1, <1>5, <1>8, SteadyView
  <2>2. SlicesFollow(q) /\ NewRows(q)
    BY <1>3, <2>1, SlicesAppend, RowsAppend
  <2>3. TellsJoined(q, (Channels \cap open) \ X, joined \ {c})
    <3>1. \A d : part \notin Joins(d) /\ (part \in Parts(d) <=> d = c)
      BY <1>3, JoinsAre
    <3>2. QED BY <2>1, <3>1, JoinedAppend
  <2>4. TellsMembers(q, (joined \ {c}) \ X, N)
    <3>1. \A d, n : (d # c => part \notin Empties(d)) /\ part \notin Enters(d, n) /\ part \notin Quits(d, n)
      BY <1>3, EntersAre DEF Empties
    <3>2. \A d \in joined : d # c => N[d] = members[d]
      BY <1>5, <2>1
    <3>3. QED BY <2>1, <3>1, <3>2, MembersAppend
  <2>5. TellsUnread(q, NetKeys \ X, unread)
    <3>1. \A k, u : part \notin Recounts(k, u)
      BY <1>3, CountsAre
    <3>2. QED BY <2>1, <3>1, UnreadAppend
  <2>6. inbox' = q
    BY <1>2, <1>8
  <2> HIDE DEF q
  <2>7. QED BY <1>1, <1>4, <1>6, <2>2, <2>3, <2>4, <2>5, <2>6, ViewNext
<1>9. QED BY <1>7, <1>8
\* A closing: the conversation counts as read, and a channel as left.
LEMMA CloseKeepsView ==
  ASSUME ViewInv, NEW key \in NetKeys, Close(key) PROVE ViewInv'
<1>1. /\ Types /\ HeldInv' /\ Steady /\ key \in open /\ UNCHANGED <<log, cleared, revived>> /\ key \in Keys
      /\ open' = open \ {key} /\ joined' = joined \ {key} /\ unread' = [unread EXCEPT ![key] = 0]
      /\ members' = IF key \in joined THEN [members EXCEPT ![key] = {}] ELSE members
      /\ missed' = IF up THEN missed ELSE missed \cup {key}
  BY CloseSends, CloseKeepsHeld, KeysAre DEF ViewInv, HeldInv
<1>2. PICK closed \in Frames :
        /\ closed = Closed(key)
        /\ key \notin joined => inbox' = IF up THEN Append(inbox, closed) ELSE inbox
        /\ key \in joined => \E part \in Frames :
             /\ part = Ephemeral(key, "channel-parted", {})
             /\ inbox' = IF up THEN Append(Append(inbox, closed), part) ELSE inbox
  BY <1>1, CloseSends
<1>3. closed.kind = "buffer-closed" /\ closed.key = key
  BY <1>2 DEF Closed
<1>4. PICK N, V, X : N = members' /\ V = unread' /\ X = Excused'
  OBVIOUS
<1>5. /\ unread \in [Keys -> Nat] /\ members \in [Channels -> SUBSET Nicks] /\ joined \subseteq Channels
      /\ \A k \in NetKeys \ open : unread[k] = 0
  BY <1>1, SteadyView
<1>6. /\ V[key] = 0 /\ \A k \in NetKeys : k # key => V[k] = unread[k]
      /\ \A d \in joined : d # key => N[d] = members[d]
  BY <1>1, <1>4, <1>5, KeysAre
<1>7. UnreadIsThere'
  <2>1. (\A k \in NetKeys : unread'[k] > 0 => unread[k] > 0) /\ \A k \in NetKeys \ open' : unread'[k] = 0
    BY <1>1, <1>4, <1>5, <1>6
  <2>2. QED BY <1>1, <2>1, UnreadStays
<1>8. CASE ~up
  <2>1. inbox' = inbox
    BY <1>2, <1>8
  <2>2. QED BY <1>1, <1>7, <1>8, <2>1, DownKeepsView
<1>9. CASE up
  <2> DEFINE q == Append(inbox, closed)
             L == (Channels \cap (open \ {key})) \ X
             I == joined \ {key}
  <2>1. /\ SlicesFollow(inbox) /\ NewRows(inbox) /\ inbox \in Seq(Frames) /\ X = Excused
        /\ TellsJoined(inbox, (Channels \cap open) \ X, joined) /\ TellsMembers(inbox, joined \ X, members)
        /\ TellsUnread(inbox, NetKeys \ X, unread)
    <3>1. X = Excused
      BY <1>1, <1>4, <1>9 DEF Excused
    <3>2. QED BY <1>1, <1>9, <3>1, SteadyView
  <2>2. q \in Seq(Frames) /\ SlicesFollow(q) /\ NewRows(q)
    BY <1>3, <2>1, SlicesAppend, RowsAppend
  <2>3. TellsJoined(q, L, I)
    <3>1. \A d : closed \notin Joins(d) /\ (closed \in Parts(d) <=> d = key)
      BY <1>3, JoinsAre
    <3>2. QED BY <2>1, <3>1, JoinedAppend
  <2>4. TellsMembers(q, I \ X, N)
    <3>1. \A d, n : (d # key => closed \notin Empties(d)) /\ closed \notin Enters(d, n) /\ closed \notin Quits(d, n)
      BY <1>3, EntersAre DEF Empties
    <3>2. QED BY <1>6, <2>1, <3>1, MembersAppend
  <2>5. TellsUnread(q, NetKeys \ X, V)
    <3>1. closed \in Counts(key, 0) /\ \A k, u : k # key => closed \notin Recounts(k, u)
      BY <1>3, CountsAre
    <3>2. QED BY <1>6, <2>1, <3>1, UnreadAppend
  <2> HIDE DEF q
  <2>6. CASE key \notin joined
    <3>1. inbox' = q
      BY <1>2, <1>9, <2>6 DEF q
    <3>2. QED BY <1>1, <1>4, <1>7, <2>2, <2>3, <2>4, <2>5, <3>1, ViewNext
  <2>7. CASE key \in joined
    <3>1. PICK part \in Frames : part = Ephemeral(key, "channel-parted", {}) /\ inbox' = Append(q, part)
      BY <1>2, <1>9, <2>7 DEF q
    <3>2. part.kind = "ephemeral" /\ part.key = key /\ part.type = "channel-parted"
      BY <3>1 DEF Ephemeral
    <3> DEFINE r == Append(q, part)
    <3>3. SlicesFollow(r) /\ NewRows(r)
      BY <2>2, <3>2, SlicesAppend, RowsAppend
    <3>4. TellsJoined(r, L, I)
      <4>1. \A d : part \notin Joins(d) /\ (part \in Parts(d) <=> d = key)
        BY <3>2, JoinsAre
      <4>2. QED BY <2>2, <2>3, <4>1, JoinedAppend
    <3>5. TellsMembers(r, I \ X, N)
      <4>1. \A d, n : (d # key => part \notin Empties(d)) /\ part \notin Enters(d, n) /\ part \notin Quits(d, n)
        BY <3>2, EntersAre DEF Empties
      <4>2. QED BY <2>2, <2>4, <4>1, MembersAppend
    <3>6. TellsUnread(r, NetKeys \ X, V)
      <4>1. \A k, u : part \notin Recounts(k, u)
        BY <3>2, CountsAre
      <4>2. QED BY <2>2, <2>5, <4>1, UnreadAppend
    <3>7. inbox' = r
      BY <3>1
    <3> HIDE DEF r
    <3>8. QED BY <1>1, <1>4, <1>7, <3>3, <3>4, <3>5, <3>6, <3>7, ViewNext
  <2>8. QED BY <2>6, <2>7
<1>10. QED BY <1>8, <1>9

\* An opening: the shell tells all there is to tell.
LEMMA OpenKeepsView ==
  ASSUME ViewInv, NEW key \in NetKeys, Open(key) PROVE ViewInv'
<1>1. /\ Types /\ HeldInv' /\ Steady /\ UNCHANGED <<log, joined, members, unread, cleared, missed, revived>>
      /\ open' = open \cup {key}
  BY OpenSends, OpenKeepsHeld DEF ViewInv, HeldInv
<1>2. PICK shell \in Frames, opened \in Frames :
        /\ opened = Opened(key) /\ shell.kind = "backlog" /\ shell.key = key
        /\ shell.joined = (key \in joined) /\ shell.unread = unread[key]
        /\ inbox' = IF up THEN Append(Append(inbox, shell), opened) ELSE inbox
  BY <1>1, OpenSends
<1>3. opened.kind = "buffer-opened"
  BY <1>2 DEF Opened
<1>4. PICK X : X = Excused' /\ X = Excused
  BY <1>1 DEF Excused
<1>5. UnreadIsThere'
  BY <1>1, SteadyView, UnreadStays
<1>6. CASE ~up
  BY <1>1, <1>2, <1>5, <1>6, DownKeepsView
<1>7. CASE up
  <2> DEFINE q == Append(inbox, shell)
             L == (Channels \cap (open \cup {key})) \ X
  <2>1. /\ SlicesFollow(inbox) /\ NewRows(inbox) /\ inbox \in Seq(Frames) /\ joined \subseteq Channels
        /\ TellsJoined(inbox, (Channels \cap open) \ X, joined) /\ TellsMembers(inbox, joined \ X, members)
        /\ TellsUnread(inbox, NetKeys \ X, unread)
    BY <1>1, <1>4, <1>7, SteadyView
  <2>2. q \in Seq(Frames) /\ SlicesFollow(q) /\ NewRows(q)
    BY <1>2, <2>1, SlicesAppend, RowsAppend
  <2>3. TellsJoined(q, L, joined)
    <3>1. \A d : (shell \in Joins(d) <=> d = key /\ d \in joined) /\ (shell \in Parts(d) <=> d = key /\ d \notin joined)
      BY <1>2, JoinsAre
    <3>2. QED BY <2>1, <3>1, JoinedAppend
  <2>4. TellsMembers(q, joined \ X, members)
    <3>1. \A d, n : shell \notin Empties(d) /\ shell \notin Enters(d, n) /\ shell \notin Quits(d, n)
      BY <1>2, EntersAre DEF Empties
    <3>2. QED BY <2>1, <3>1, MembersAppend
  <2>5. TellsUnread(q, NetKeys \ X, unread)
    <3>1. \A k \in NetKeys : shell \notin Recounts(k, unread[k])
      BY <1>2, CountsAre
    <3>2. QED BY <2>1, <3>1, UnreadAppend
  <2> HIDE DEF q
  <2> DEFINE r == Append(q, opened)
  <2>6. SlicesFollow(r) /\ NewRows(r)
    BY <1>3, <2>2, SlicesAppend, RowsAppend
  <2>7. TellsJoined(r, L, joined) /\ TellsMembers(r, joined \ X, members) /\ TellsUnread(r, NetKeys \ X, unread)
    <3>1. \A k \in Keys : Silent(opened, k)
      BY <1>3, SilentIs
    <3>2. L \subseteq Keys /\ joined \ X \subseteq Keys /\ NetKeys \ X \subseteq Keys
      BY <2>1, KeysAre
    <3> HIDE DEF L
    <3>3. QED BY <1>3, <2>2, <2>3, <2>4, <2>5, <3>1, <3>2, SilentAppend
  <2>8. inbox' = r
    BY <1>2, <1>7 DEF q
  <2> HIDE DEF r
  <2>9. QED BY <1>1, <1>4, <1>5, <2>6, <2>7, <2>8, ViewNext
<1>8. QED BY <1>6, <1>7

\* The system buffer has rows of its own.
LEMMA SystemKeepsView ==
  ASSUME ViewInv, SystemRow PROVE ViewInv'
<1>1. /\ Types /\ HeldInv' /\ Steady
      /\ UNCHANGED <<log, open, joined, members, unread, cleared, missed, revived>>
  BY SystemSends, SystemKeepsHeld DEF ViewInv, HeldInv
<1>2. PICK row \in Frames :
        row = Irc(systemHead + 1, System, "message", NoId) /\ inbox' = IF up THEN Append(inbox, row) ELSE inbox
  BY <1>1, SystemSends
<1>3. row.kind = "irc" /\ row.key = System /\ row.type = "message"
  BY <1>2 DEF Irc
<1>4. PICK X : X = Excused' /\ X = Excused
  BY <1>1 DEF Excused
<1>5. UnreadIsThere'
  BY <1>1, SteadyView, UnreadStays
<1>6. CASE ~up
  BY <1>1, <1>2, <1>5, <1>6, DownKeepsView
<1>7. CASE up
  <2> DEFINE q == Append(inbox, row)
             K == (Channels \cap open) \ X
  <2>1. /\ SlicesFollow(inbox) /\ NewRows(inbox) /\ inbox \in Seq(Frames) /\ joined \subseteq Channels
        /\ TellsJoined(inbox, K, joined) /\ TellsMembers(inbox, joined \ X, members)
        /\ TellsUnread(inbox, NetKeys \ X, unread)
    BY <1>1, <1>4, <1>7, SteadyView
  <2>2. SlicesFollow(q) /\ NewRows(q)
    BY <1>3, <2>1, SlicesAppend, RowsAppend
  <2>3. TellsJoined(q, K, joined) /\ TellsMembers(q, joined \ X, members) /\ TellsUnread(q, NetKeys \ X, unread)
    <3>1. \A k \in Keys : Silent(row, k)
      BY <1>3, SilentIs
    <3>2. K \subseteq Keys /\ joined \ X \subseteq Keys /\ NetKeys \ X \subseteq Keys
      BY <2>1, KeysAre
    <3> HIDE DEF K
    <3>3. QED BY <1>3, <2>1, <3>1, <3>2, SilentAppend
  <2>4. inbox' = q
    BY <1>2, <1>7
  <2> HIDE DEF q
  <2>5. QED BY <1>1, <1>4, <1>5, <2>2, <2>3, <2>4, ViewNext
<1>8. QED BY <1>6, <1>7
\* A renaming: what is unread under the old name is counted under the new one.
LEMMA RenameKeepsView ==
  ASSUME ViewInv, NEW from \in Queries, NEW to \in Queries, Rename(from, to) PROVE ViewInv'
<1>1. /\ Types /\ HeldInv' /\ Steady /\ from # to /\ UNCHANGED <<joined, members, cleared, revived>>
      /\ open' = (open \ {from}) \cup {to} /\ cleared[from] = 0 /\ cleared[to] = 0
      /\ DOMAIN log' = DOMAIN log
      /\ \A id \in DOMAIN log : log'[id].key = IF log[id].key = from THEN to ELSE log[id].key
      /\ unread'[to] = unread[to] + unread[from] /\ unread'[from] = 0
      /\ \A k \in Keys : k \notin {from, to} => unread'[k] = unread[k]
      /\ missed' = IF up /\ from \notin missed THEN missed ELSE missed \cup {from, to}
  BY RenameSends, RenameKeepsHeld DEF ViewInv, HeldInv
<1>2. PICK renamed \in Frames, count \in Frames :
        /\ renamed = Renamed(from, to) /\ count = ReadState(to, unread[to] + unread[from])
        /\ inbox' = IF up THEN Append(Append(inbox, renamed), count) ELSE inbox
  BY <1>1, RenameSends
<1>3. /\ renamed.kind = "buffer-renamed" /\ renamed.from = from /\ renamed.to = to
      /\ count.kind = "read-state" /\ count.key = to /\ count.unread = unread[to] + unread[from]
  BY <1>2 DEF Renamed, ReadState
<1>4. PICK O, V, X : O = open' /\ V = unread' /\ X = Excused'
  OBVIOUS
<1>5. /\ Excused \subseteq X /\ Channels \cap O \subseteq Channels \cap open /\ NetKeys \subseteq Keys
      /\ from \in NetKeys /\ to \in NetKeys
  BY <1>1, <1>4, KeysAre DEF Excused
<1>6. /\ V[to] = unread[to] + unread[from] /\ V[from] = 0
      /\ \A k \in NetKeys : k \notin {from, to} => V[k] = unread[k]
  BY <1>1, <1>4, <1>5
<1>7. UnreadIsThere'
  <2>1. /\ unread \in [Keys -> Nat] /\ \A k \in NetKeys \ open : unread[k] = 0
        /\ \A k \in NetKeys : unread[k] > 0 => RowsOf(k) # {}
    BY <1>1, SteadyView
  <2>2. ASSUME NEW k \in NetKeys, unread'[k] > 0 PROVE RowsOf(k)' # {}
    <3>1. CASE k \notin {from, to}
      <4>1. unread[k] > 0 /\ k # System
        BY <1>1, <1>5, <2>2, <3>1, KeysAre
      <4>2. PICK id \in RowsOf(k) : TRUE
        BY <2>1, <4>1
      <4>3. id \in DOMAIN log /\ log[id].key = k /\ id >= cleared[k]
        BY <4>1, <4>2 DEF RowsOf
      <4>4. id \in DOMAIN log' /\ log'[id].key = k /\ id >= cleared'[k]
        BY <1>1, <3>1, <4>3
      <4>5. QED BY <4>1, <4>4 DEF RowsOf
    <3>2. CASE k = to
      <4>1. PICK l \in {from, to} : unread[l] > 0
        BY <1>1, <1>5, <2>1, <2>2, <3>2
      <4>2. PICK id \in RowsOf(l) : TRUE
        BY <1>5, <2>1, <4>1
      <4>3. id \in DOMAIN log /\ log[id].key = l /\ id >= 0 /\ l # System
        BY <1>1, <1>5, <4>1, <4>2, KeysAre DEF RowsOf
      <4>4. id \in DOMAIN log' /\ log'[id].key = k /\ id >= cleared'[k] /\ k # System
        BY <1>1, <1>5, <3>2, <4>1, <4>3, KeysAre
      <4>5. QED BY <4>4 DEF RowsOf
    <3>3. CASE k = from
      BY <1>1, <2>2, <3>3
    <3>4. QED BY <3>1, <3>2, <3>3
  <2>3. ASSUME NEW k \in NetKeys \ open' PROVE unread'[k] = 0
    <3>1. CASE k = from
      BY <1>1, <3>1
    <3>2. CASE k # from
      <4>1. k \notin {from, to} /\ k \notin open /\ k \in Keys
        BY <1>1, <1>5, <2>3, <3>2
      <4>2. QED BY <1>1, <2>1, <4>1
    <3>3. QED BY <3>1, <3>2
  <2>4. QED BY <2>2, <2>3 DEF UnreadIsThere
<1>8. CASE ~up
  <2>1. inbox' = inbox
    BY <1>2, <1>8
  <2>2. QED BY <1>1, <1>7, <1>8, <2>1, DownKeepsView
<1>9. CASE up
  <2> DEFINE q == Append(inbox, renamed)
             r == Append(q, count)
             K == (Channels \cap O) \ X
             L == NetKeys \ X
  <2>1. /\ SlicesFollow(inbox) /\ NewRows(inbox) /\ inbox \in Seq(Frames)
        /\ TellsJoined(inbox, (Channels \cap open) \ Excused, joined) /\ TellsMembers(inbox, joined \ Excused, members)
        /\ TellsUnread(inbox, NetKeys \ Excused, unread)
    BY <1>1, <1>9, SteadyView
  <2>2. q \in Seq(Frames) /\ SlicesFollow(q) /\ NewRows(q)
    BY <1>3, <2>1, SlicesAppend, RowsAppend
  <2>3. TellsJoined(q, K, joined)
    <3>1. \A d : renamed \notin Joins(d) /\ renamed \notin Parts(d)
      BY <1>3, JoinsAre
    <3>2. QED BY <1>5, <2>1, <3>1, JoinedAppend
  <2>4. TellsMembers(q, joined \ X, members)
    <3>1. \A d, n : renamed \notin Empties(d) /\ renamed \notin Enters(d, n) /\ renamed \notin Quits(d, n)
      BY <1>3, EntersAre DEF Empties
    <3>2. QED BY <1>5, <2>1, <3>1, MembersAppend
  <2>5. TellsUnread(q, L \ {to}, V)
    <3>1. renamed \in Counts(from, 0) /\ \A k, u : k \notin {from, to} => renamed \notin Recounts(k, u)
      BY <1>3, CountsAre
    <3>2. QED BY <1>5, <1>6, <2>1, <3>1, UnreadAppend
  <2> HIDE DEF q
  <2>6. SlicesFollow(r) /\ NewRows(r)
    BY <1>3, <2>2, SlicesAppend, RowsAppend
  <2>7. TellsJoined(r, K, joined)
    <3>1. \A d : count \notin Joins(d) /\ count \notin Parts(d)
      BY <1>3, JoinsAre
    <3>2. QED BY <2>2, <2>3, <3>1, JoinedAppend
  <2>8. TellsMembers(r, joined \ X, members)
    <3>1. \A d, n : count \notin Empties(d) /\ count \notin Enters(d, n) /\ count \notin Quits(d, n)
      BY <1>3, EntersAre DEF Empties
    <3>2. QED BY <2>2, <2>4, <3>1, MembersAppend
  <2>9. TellsUnread(r, L, V)
    <3>1. count \in Counts(to, V[to]) /\ \A k, u : k # to => count \notin Recounts(k, u)
      BY <1>3, <1>6, CountsAre
    <3>2. QED BY <2>2, <2>5, <3>1, UnreadAppend
  <2>10. inbox' = r
    BY <1>2, <1>9 DEF q
  <2> HIDE DEF r
  <2>11. QED BY <1>1, <1>4, <1>7, <2>6, <2>7, <2>8, <2>9, <2>10, ViewNext
<1>10. QED BY <1>8, <1>9

\* A clearing: nothing is unread of what is cleared.
LEMMA ClearKeepsView ==
  ASSUME ViewInv, NEW key \in NetKeys, Clear(key) PROVE ViewInv'
<1>1. /\ Types /\ HeldInv' /\ Steady /\ key \in open /\ UNCHANGED <<log, open, joined, members, revived>> /\ key \in Keys
      /\ unread' = [unread EXCEPT ![key] = 0] /\ cleared' = [cleared EXCEPT ![key] = Len(log) + 1]
      /\ missed' = IF up THEN missed ELSE missed \cup {key}
  BY ClearSends, ClearKeepsHeld, KeysAre DEF ViewInv, HeldInv
<1>2. PICK clear \in Frames, count \in Frames :
        /\ clear = Cleared(key, Len(log) + 1) /\ count = ReadState(key, 0)
        /\ inbox' = IF up THEN Append(Append(inbox, clear), count) ELSE inbox
  BY <1>1, ClearSends
<1>3. /\ clear.kind = "buffer-cleared"
      /\ count.kind = "read-state" /\ count.key = key /\ count.unread = 0
  BY <1>2 DEF Cleared, ReadState
<1>4. PICK V, X : V = unread' /\ X = Excused'
  OBVIOUS
<1>5. /\ unread \in [Keys -> Nat] /\ cleared \in [Keys -> Nat] /\ joined \subseteq Channels
      /\ \A k \in NetKeys \ open : unread[k] = 0
      /\ \A k \in NetKeys : unread[k] > 0 => RowsOf(k) # {}
  BY <1>1, SteadyView DEF Types, ServerTypes
<1>6. V[key] = 0 /\ \A k \in NetKeys : k # key => V[k] = unread[k] /\ cleared'[k] = cleared[k]
  BY <1>1, <1>4, <1>5, KeysAre
<1>7. UnreadIsThere'
  <2>1. ASSUME NEW k \in NetKeys, k # key PROVE RowsOf(k)' = RowsOf(k)
    BY <1>1, <1>6, <2>1, KeysAre DEF RowsOf
  <2>2. QED BY <1>1, <1>4, <1>5, <1>6, <2>1 DEF UnreadIsThere
<1>8. CASE ~up
  <2>1. inbox' = inbox
    BY <1>2, <1>8
  <2>2. QED BY <1>1, <1>7, <1>8, <2>1, DownKeepsView
<1>9. CASE up
  <2> DEFINE q == Append(inbox, clear)
             r == Append(q, count)
             K == (Channels \cap open) \ X
  <2>1. /\ SlicesFollow(inbox) /\ NewRows(inbox) /\ inbox \in Seq(Frames)
        /\ TellsJoined(inbox, K, joined) /\ TellsMembers(inbox, joined \ X, members)
        /\ TellsUnread(inbox, NetKeys \ X, unread)
    <3>1. X = Excused
      BY <1>1, <1>4, <1>9 DEF Excused
    <3>2. QED BY <1>1, <1>9, <3>1, SteadyView
  <2>2. q \in Seq(Frames) /\ SlicesFollow(q) /\ NewRows(q)
    BY <1>3, <2>1, SlicesAppend, RowsAppend
  <2>3. TellsJoined(q, K, joined) /\ TellsMembers(q, joined \ X, members) /\ TellsUnread(q, NetKeys \ X, unread)
    <3>1. \A k \in Keys : Silent(clear, k)
      BY <1>3, SilentIs
    <3>2. K \subseteq Keys /\ joined \ X \subseteq Keys /\ NetKeys \ X \subseteq Keys
      BY <1>5, KeysAre
    <3> HIDE DEF K
    <3>3. QED BY <1>3, <2>1, <3>1, <3>2, SilentAppend
  <2> HIDE DEF q
  <2>4. SlicesFollow(r) /\ NewRows(r)
    BY <1>3, <2>2, SlicesAppend, RowsAppend
  <2>5. TellsJoined(r, K, joined)
    <3>1. \A d : count \notin Joins(d) /\ count \notin Parts(d)
      BY <1>3, JoinsAre
    <3>2. QED BY <2>2, <2>3, <3>1, JoinedAppend
  <2>6. TellsMembers(r, joined \ X, members)
    <3>1. \A d, n : count \notin Empties(d) /\ count \notin Enters(d, n) /\ count \notin Quits(d, n)
      BY <1>3, EntersAre DEF Empties
    <3>2. QED BY <2>2, <2>3, <3>1, MembersAppend
  <2>7. TellsUnread(r, NetKeys \ X, V)
    <3>1. count \in Counts(key, 0) /\ \A k, u : k # key => count \notin Recounts(k, u)
      BY <1>3, CountsAre
    <3>2. QED BY <1>6, <2>2, <2>3, <3>1, UnreadAppend
  <2>8. inbox' = r
    BY <1>2, <1>9 DEF q
  <2> HIDE DEF r
  <2>9. QED BY <1>1, <1>4, <1>7, <2>4, <2>5, <2>6, <2>7, <2>8, ViewNext
<1>10. QED BY <1>8, <1>9
\* Frames that follow q
LEMMA FollowsIs ==
  ASSUME NEW q \in Seq(Frames), NEW s \in Seq(Frames)
  PROVE  /\ Len(q) \in Nat /\ Len(q \o s) \in Nat /\ Len(q) <= Len(q \o s)
         /\ \A i \in 1..Len(q) : i \in 1..Len(q \o s) /\ (q \o s)[i] = q[i]
         /\ \A i \in 1..Len(q \o s) : i > Len(q) => \E j \in 1..Len(s) : (q \o s)[i] = s[j]
         /\ \A j \in 1..Len(s) : \E i \in 1..Len(q \o s) : i > Len(q) /\ (q \o s)[i] = s[j]
<1> DEFINE n == Len(q)
           m == Len(s)
           r == q \o s
           l == Len(q \o s)
<1>1. n \in Nat /\ m \in Nat /\ l = n + m
  BY ConcatProperties
<1>2. \A i \in 1..Len(q) + Len(s) : r[i] = IF i <= Len(q) THEN q[i] ELSE s[i - Len(q)]
  BY ConcatProperties
<1>3. \A i \in 1..n + m : r[i] = IF i <= n THEN q[i] ELSE s[i - n]
  BY Zenon, <1>2
<1> HIDE DEF n, m, r, l
<1>4. ASSUME NEW i \in 1..n PROVE i \in 1..l /\ r[i] = q[i]
  BY <1>1, <1>3
<1>5. ASSUME NEW i \in 1..l, i > n PROVE \E j \in 1..m : r[i] = s[j]
  <2>1. i - n \in 1..m /\ r[i] = s[i - n]
    BY <1>1, <1>3, <1>5
  <2>2. QED BY <2>1
<1>6. ASSUME NEW j \in 1..m PROVE \E i \in 1..l : i > n /\ r[i] = s[j]
  <2>1. n + j \in 1..l /\ n + j \in 1..n + m /\ n + j > n /\ ~(n + j <= n) /\ (n + j) - n = j
    BY <1>1
  <2>2. r[n + j] = s[j]
    BY <1>3, <2>1
  <2>3. QED BY <2>1, <2>2
<1>7. n \in Nat /\ l \in Nat /\ n <= l
  BY <1>1
<1>8. QED BY Zenon, <1>4, <1>5, <1>6, <1>7 DEF n, m, r, l

\* If they neither put p in nor take it out, they change nothing.
LEMMA EndsFollowed ==
  ASSUME NEW q \in Seq(Frames), NEW s \in Seq(Frames), NEW on, NEW off, NEW p, NEW B,
         \A j \in 1..Len(s) : s[j] \notin on \cup off
  PROVE  Ends(q \o s, on, off, p, B) <=> Ends(q, on, off, p, B)
<1> DEFINE r == q \o s
<1>1. /\ Len(q) \in Nat /\ Len(r) \in Nat /\ Len(q) <= Len(r)
      /\ \A i \in 1..Len(q) : r[i] = q[i]
      /\ \A i \in 1..Len(r) : i > Len(q) => r[i] \notin on \cup off
  BY FollowsIs
<1> HIDE DEF r
<1>2. EndsAt(r, Len(r), on, off, p, B) <=> EndsAt(r, Len(q), on, off, p, B)
  BY <1>1, EndsIdle
<1>3. EndsAt(r, Len(q), on, off, p, B) <=> EndsAt(q, Len(q), on, off, p, B)
  BY <1>1, EndsSame
<1>4. QED BY <1>2, <1>3 DEF Ends, r

\* All is marked read: whatever has rows is told so, and nothing else was unread.
LEMMA MarkKeepsView ==
  ASSUME ViewInv, MarkAllRead PROVE ViewInv'
<1>1. /\ Types /\ HeldInv' /\ Steady /\ UNCHANGED <<log, open, joined, members, cleared, missed, revived>>
      /\ \A k \in Keys : unread'[k] = 0
  BY MarkSends, MarkKeepsHeld DEF ViewInv, HeldInv
<1>2. PICK s \in Seq(Frames) :
        /\ inbox' = (IF up THEN inbox \o s ELSE inbox)
        /\ \A i \in 1..Len(s) : \E k \in NetKeys : s[i] = ReadState(k, 0)
        /\ \A k \in NetKeys : RowsOf(k) # {} => \E i \in 1..Len(s) : s[i] = ReadState(k, 0)
  BY <1>1, MarkSends
<1>3. \A i \in 1..Len(s) : s[i] \in Frames /\ s[i].kind = "read-state" /\ s[i].unread = 0
  <2>1. \A k : ReadState(k, 0).kind = "read-state" /\ ReadState(k, 0).unread = 0
    BY DEF ReadState
  <2>2. QED BY <1>2, <2>1
<1>4. PICK V, X : V = unread' /\ X = Excused' /\ X = Excused
  BY <1>1 DEF Excused
<1>5. \A k \in NetKeys : V[k] = 0
  BY <1>1, <1>4, KeysAre
<1>6. UnreadIsThere'
  BY <1>1, <1>4, <1>5 DEF UnreadIsThere
<1>7. CASE ~up
  BY <1>1, <1>2, <1>6, <1>7, DownKeepsView
<1>8. CASE up
  <2> DEFINE q == inbox \o s
             K == (Channels \cap open) \ X
  <2>1. /\ SlicesFollow(inbox) /\ NewRows(inbox) /\ inbox \in Seq(Frames)
        /\ TellsJoined(inbox, K, joined) /\ TellsMembers(inbox, joined \ X, members)
        /\ TellsUnread(inbox, NetKeys \ X, unread)
        /\ unread \in [Keys -> Nat] /\ \A k \in NetKeys : unread[k] > 0 => RowsOf(k) # {}
    BY <1>1, <1>4, <1>8, SteadyView
  <2>2. /\ Len(inbox) \in Nat /\ Len(q) \in Nat /\ Len(inbox) <= Len(q)
        /\ \A i \in 1..Len(inbox) : i \in 1..Len(q) /\ q[i] = inbox[i]
        /\ \A i \in 1..Len(q) : i > Len(inbox) => \E j \in 1..Len(s) : q[i] = s[j]
        /\ \A j \in 1..Len(s) : \E i \in 1..Len(q) : i > Len(inbox) /\ q[i] = s[j]
    BY <2>1, FollowsIs
  <2>3. SlicesFollow(q)
    <3>1. \A c : \A i \in 1..Len(s) : s[i] \notin Describes(c) \cup Slices(c)
      BY <1>3 DEF Describes, Slices
    <3>2. QED BY <2>1, <3>1, EndsFollowed DEF SlicesFollow
  <2>4. TellsJoined(q, K, joined)
    <3>1. \A c : \A i \in 1..Len(s) : s[i] \notin Joins(c) \cup Parts(c)
      BY <1>3, JoinsAre
    <3>2. QED BY <2>1, <3>1, EndsFollowed DEF TellsJoined
  <2>5. TellsMembers(q, joined \ X, members)
    <3>1. \A c, n : \A i \in 1..Len(s) : s[i] \notin Enters(c, n) \cup Quits(c, n)
      BY <1>3, EntersAre
    <3>2. \A c : \A i \in 1..Len(s) : s[i] \notin Empties(c) \cup NamesOf(c)
      BY <1>3 DEF Empties, NamesOf
    <3>3. QED BY <2>1, <3>1, <3>2, EndsFollowed DEF TellsMembers
  <2>6. ASSUME NEW k \in NetKeys \ X PROVE Ends(q, Counts(k, V[k]), Recounts(k, V[k]), k, Counted(V[k]))
    <3>1. V[k] = 0 /\ \A i \in 1..Len(s) : s[i] \notin Recounts(k, 0)
      BY <1>3, <1>5, CountsAre
    <3>2. CASE RowsOf(k) # {}
      <4>1. PICK j \in 1..Len(s) : s[j] = ReadState(k, 0)
        BY <1>2, <3>2
      <4>2. s[j] \in Counts(k, 0)
        <5>1. s[j].key = k
          BY <4>1 DEF ReadState
        <5>2. QED BY <1>3, <5>1, CountsAre
      <4>3. PICK i \in 1..Len(q) : i > Len(inbox) /\ q[i] = s[j]
        BY <2>2
      <4>4. \A l \in 1..Len(q) : l > i => q[l] \notin Recounts(k, 0)
        <5> HIDE DEF q
        <5>1. \A l \in 1..Len(q) : l > i => l > Len(inbox)
          BY <2>2, <4>3
        <5>2. ASSUME NEW l \in 1..Len(q), l > i PROVE q[l] \notin Recounts(k, 0)
          <6>1. l > Len(inbox)
            BY <5>1, <5>2
          <6>2. PICK t \in 1..Len(s) : q[l] = s[t]
            BY <2>2, <6>1
          <6>3. QED BY Zenon, <3>1, <6>2
        <5>3. QED BY Zenon, <5>2
      <4>5. QED BY <3>1, <4>2, <4>3, <4>4 DEF Ends, EndsAt
    <3>3. CASE RowsOf(k) = {}
      <4>1. unread[k] = 0
        BY <2>1, <3>3, KeysAre
      <4>2. Ends(inbox, Counts(k, 0), Recounts(k, 0), k, Counted(0))
        BY <2>1, <4>1 DEF TellsUnread
      <4>3. \A i \in 1..Len(inbox) : q[i] = inbox[i]
        BY <2>2
      <4>4. EndsAt(q, Len(inbox), Counts(k, 0), Recounts(k, 0), k, Counted(0))
        BY <2>2, <4>2, <4>3, EndsSame DEF Ends
      <4>5. \A i \in 1..Len(q) : i > Len(inbox) => q[i] \notin Recounts(k, 0)
        BY <2>2, <3>1
      <4>6. Ends(q, Counts(k, 0), Recounts(k, 0), k, Counted(0))
        <5> HIDE DEF q
        <5>1. \A i \in 1..Len(inbox) : i \in 1..Len(q)
          BY <2>2
        <5>2. \A i \in 1..Len(q) : i \in 1..Len(inbox) \/ i > Len(inbox)
          BY <2>2
        <5>3. QED BY <4>4, <4>5, <5>1, <5>2 DEF Ends, EndsAt
      <4>7. QED BY <3>1, <4>6
    <3>4. QED BY <3>2, <3>3
  <2>7. TellsUnread(q, NetKeys \ X, V)
    BY <2>6 DEF TellsUnread
  <2>8. NewRows(q)
    <3>1. ASSUME NEW m \in 1..Len(q), q[m].kind = "irc", q[m].key # System
          PROVE  /\ \A k \in NetKeys : Seen(k).newest < q[m].id
                 /\ \A l \in 1..Len(q) : l < m => \A id \in Ids(q[l]) : id < q[m].id
      <4>1. ~(m > Len(inbox))
        BY <1>3, <2>2, <3>1
      <4> HIDE DEF q
      <4>2. m \in 1..Len(inbox) /\ q[m] = inbox[m] /\ \A l \in 1..Len(q) : l < m => l \in 1..Len(inbox) /\ q[l] = inbox[l]
        BY <2>2, <4>1
      <4>3. QED BY <2>1, <3>1, <4>2 DEF NewRows
    <3>2. QED BY <3>1 DEF NewRows
  <2>9. inbox' = q
    BY <1>2, <1>8
  <2> HIDE DEF q, K
  <2>10. Channels \cap open' = Channels \cap open /\ K = (Channels \cap open) \ X
    BY <1>1 DEF K
  <2>11. PICK O : O = open' /\ (Channels \cap O) \ X = K
    BY <1>1, <2>10
  <2>12. QED BY <1>1, <1>4, <1>6, <2>3, <2>4, <2>5, <2>7, <2>8, <2>9, <2>11, ViewNext
<1>9. QED BY <1>7, <1>8
\* With the store left alone, all is seen as before.
LEMMA SameStore ==
  ASSUME UNCHANGED <<buffers, snapshotChannels>>
  PROVE  /\ \A k : Seen(k)' = Seen(k)
         /\ JoinedHeld' = JoinedHeld /\ \A u : Counted(u)' = Counted(u)
<1>1. \A k : Seen(k)' = Seen(k)
  BY DEF Seen, Touch
<1>2. JoinedHeld' = JoinedHeld
  BY DEF JoinedHeld, Held
<1>3. \A u : Counted(u)' = Counted(u)
  BY <1>1 DEF Counted
<1>4. QED BY <1>1, <1>2, <1>3

\* A burst tells all that there is to tell of what is open, and the rest was never held.
LEMMA ConnectKeepsView ==
  ASSUME ViewInv, Connect PROVE ViewInv'
<1>1. /\ Types /\ HeldInv' /\ ~up /\ UNCHANGED <<client, server, deleting, missed, revived>>
  BY ConnectSends, ConnectKeepsHeld DEF ViewInv, HeldInv
<1>2. /\ UNCHANGED <<buffers, snapshotChannels, log, cleared, open, joined, members, unread>>
      /\ Excused' = Excused
  BY <1>1 DEF client, server, Excused
<1>3. (\A k : Seen(k)' = Seen(k)) /\ JoinedHeld' = JoinedHeld /\ \A u : Counted(u)' = Counted(u)
  BY <1>2, SameStore
<1>4. PICK q : q = inbox'
  OBVIOUS
<1>5. PICK snap \in Frames, at \in 1..Len(q) :
        /\ q[at] = snap /\ snap.kind = "snapshot"
        /\ DOMAIN snap.channels = joined /\ \A c \in joined : snap.channels[c] = members[c]
        /\ \A i \in 1..Len(q) : \/ i = at
                                \/ Mark(q[i])
                                \/ i > at /\ \E k \in open \cup {System} : Tells(q[i], k)
        /\ \A k \in open \cup {System} : \E i \in 1..Len(q) : i > at /\ Tells(q[i], k)
  BY <1>1, <1>4, ConnectSends
<1>6. joined \subseteq Channels \cap open /\ open \subseteq NetKeys
  BY <1>1 DEF Types, ServerTypes
<1>7. ASSUME NEW i \in 1..Len(q)
      PROVE  /\ q[i] \in Frames /\ q[i].kind \in {"snapshot", "lost", "backlog-complete", "backlog"}
             /\ q[i].kind = "snapshot" => i = at
             /\ q[i].kind = "backlog" => q[i].joined = (q[i].key \in joined) /\ q[i].unread = unread[q[i].key]
  BY <1>5 DEF Mark, Tells
<1>8. \A k \in open : \E i \in 1..Len(q) :
        i > at /\ q[i] \in Frames /\ q[i].kind = "backlog" /\ q[i].key = k /\ q[i].joined = (k \in joined) /\ q[i].unread = unread[k]
  BY <1>5 DEF Tells
<1>9. UnreadIsThere'
  <2>1. \A k \in NetKeys : RowsOf(k)' = RowsOf(k)
    BY <1>2, KeysAre DEF RowsOf
  <2>2. QED BY <1>1, <1>2, <2>1 DEF ViewInv, UnreadIsThere
<1>10. JoinedComes'
  <2>1. ASSUME NEW c \in Channels PROVE ~Ends(q, Describes(c), Slices(c), c, {})
    <3>1. SUFFICES ASSUME NEW i \in 1..Len(q), q[i] \in Describes(c), \A j \in 1..Len(q) : j > i => q[j] \notin Slices(c)
                   PROVE  FALSE
      BY DEF Ends, EndsAt
    <3>2. i = at /\ c \in open
      BY <1>5, <1>6, <1>7, <3>1 DEF Describes
    <3>3. QED BY <1>8, <3>1, <3>2 DEF Slices
  <2>2. ASSUME NEW c \in Channels \cap open
        PROVE  Ends(q, Joins(c), Parts(c), c, JoinedHeld) <=> c \in joined
    <3>1. PICK i \in 1..Len(q) : q[i] \in Frames /\ q[i].kind = "backlog" /\ q[i].key = c /\ q[i].joined = (c \in joined)
      BY <1>8
    <3>2. \A j \in 1..Len(q) : (q[j] \in Joins(c) => c \in joined) /\ (q[j] \in Parts(c) => c \notin joined)
      <4>1. ASSUME NEW j \in 1..Len(q) PROVE (q[j] \in Joins(c) => c \in joined) /\ (q[j] \in Parts(c) => c \notin joined)
        <5>1. CASE q[j].kind = "backlog"
          <6>1. (q[j] \in Joins(c) => q[j].key = c /\ q[j].joined) /\ (q[j] \in Parts(c) => q[j].key = c /\ ~q[j].joined)
            BY <1>7, <5>1, JoinsAre
          <6>2. QED BY <1>7, <5>1, <6>1
        <5>2. CASE q[j].kind # "backlog"
          BY <1>7, <5>2, JoinsAre
        <5>3. QED BY <5>1, <5>2
      <4>2. QED BY <4>1
    <3>3. IF c \in joined THEN q[i] \in Joins(c) ELSE q[i] \in Parts(c)
      BY <3>1, JoinsAre
    <3>4. QED BY <3>2, <3>3 DEF Ends, EndsAt
  <2>3. QED BY <1>2, <1>3, <1>4, <2>1, <2>2 DEF JoinedComes, JoinedAt
<1>11. MembersCome'
  <2>1. ASSUME NEW c \in joined
        PROVE  /\ ~Ends(q, Empties(c), NamesOf(c), c, {})
               /\ \A n \in Nicks : Ends(q, Enters(c, n), Quits(c, n), n, Seen(c).members) <=> n \in members[c]
    <3>1. ~Ends(q, Empties(c), NamesOf(c), c, {})
      <4>1. \A i \in 1..Len(q) : q[i] \notin Empties(c)
        BY <1>7 DEF Empties
      <4>2. QED BY <4>1 DEF Ends, EndsAt
    <3>2. ASSUME NEW n \in Nicks
          PROVE  Ends(q, Enters(c, n), Quits(c, n), n, Seen(c).members) <=> n \in members[c]
      <4>1. \A i \in 1..Len(q) : (q[i] \in Enters(c, n) => n \in members[c]) /\ (q[i] \in Quits(c, n) => n \notin members[c])
        <5>1. ASSUME NEW i \in 1..Len(q)
              PROVE  (q[i] \in Enters(c, n) => n \in members[c]) /\ (q[i] \in Quits(c, n) => n \notin members[c])
          <6>1. CASE i = at
            BY <1>5, <2>1, <6>1, EntersAre
          <6>2. CASE i # at
            BY <1>7, <6>2, EntersAre
          <6>3. QED BY <6>1, <6>2
        <5>2. QED BY <5>1
      <4>2. IF n \in members[c] THEN q[at] \in Enters(c, n) ELSE q[at] \in Quits(c, n)
        BY <1>5, <2>1, EntersAre
      <4>3. QED BY <4>1, <4>2 DEF Ends, EndsAt
    <3>3. QED BY <3>1, <3>2
  <2>2. QED BY <1>2, <1>3, <1>4, <2>1 DEF MembersCome, MembersAt
<1>12. UnreadComes'
  <2>1. ASSUME deleting = "no", NEW k \in NetKeys \ Excused
        PROVE  Ends(q, Counts(k, unread[k]), Recounts(k, unread[k]), k, Counted(unread[k]))
    <3>1. \A i \in 1..Len(q) : q[i] \notin Recounts(k, unread[k])
      <4>1. ASSUME NEW i \in 1..Len(q) PROVE q[i] \notin Recounts(k, unread[k])
        BY <1>7, CountsAre
      <4>2. QED BY <4>1
    <3>2. CASE k \in open
      <4>1. PICK i \in 1..Len(q) : q[i] \in Frames /\ q[i].kind = "backlog" /\ q[i].key = k /\ q[i].unread = unread[k]
        BY <1>8, <3>2
      <4>2. q[i] \in Counts(k, unread[k])
        BY <4>1, CountsAre
      <4>3. QED BY <3>1, <4>2 DEF Ends, EndsAt
    <3>3. CASE k \notin open
      <4>1. unread[k] = 0 /\ ~Stays(k)
        BY <2>1, <3>3 DEF ViewInv, UnreadIsThere, HeldInv, ClosedGo
      <4>2. \A i \in 1..Len(inbox) : inbox[i] \notin Drops(k)
        <5>1. inbox \in {<<>>, <<SocketLost>>}
          BY <1>1 DEF Types, LinkTypes
        <5>2. SocketLost \notin Drops(k)
          BY DEF SocketLost, Drops
        <5>3. QED BY <5>1, <5>2
      <4>3. k \notin Held
        BY <4>1, <4>2 DEF Stays, Ends, EndsAt
      <4>4. k \in Counted(0)
        BY <1>1, <4>3, SeenIs, KeysAre DEF Counted, Types, ServerTypes
      <4>5. QED BY <3>1, <4>1, <4>4 DEF Ends, EndsAt
    <3>4. QED BY <3>2, <3>3
  <2>2. QED BY <1>1, <1>2, <1>3, <1>4, <2>1 DEF UnreadComes, UnreadAt
<1>13. RowsAreNew'
  <2>1. \A i \in 1..Len(q) : q[i].kind # "irc"
    BY <1>7
  <2>2. QED BY <1>4, <2>1 DEF RowsAreNew
<1>14. QED BY <1>1, <1>9, <1>10, <1>11, <1>12, <1>13 DEF ViewInv

\* With the connection lost there is nothing to be told.
LEMMA LoseKeepsView ==
  ASSUME ViewInv, Lose PROVE ViewInv'
<1>1. HeldInv' /\ ~up' /\ UNCHANGED <<client, server, deleting, revived>> /\ inbox' = <<SocketLost>>
  BY LoseDoes, LoseKeepsHeld DEF ViewInv, HeldInv
<1>2. PICK q : q = inbox' /\ Len(q) = 1 /\ q[1] = SocketLost /\ SocketLost.kind = "lost"
  BY <1>1 DEF SocketLost
<1>3. \A i \in 1..Len(q) : q[i].kind = "lost"
  BY <1>2
<1>4. UnreadIsThere'
  <2>1. UNCHANGED <<log, cleared, unread, open>>
    BY <1>1 DEF server
  <2>2. \A k \in NetKeys : RowsOf(k)' = RowsOf(k)
    BY <2>1, KeysAre DEF RowsOf
  <2>3. QED BY <1>1, <2>1, <2>2 DEF ViewInv, UnreadIsThere
<1>5. \A c : ~Ends(q, Describes(c), Slices(c), c, {})
  <2>1. \A c : \A i \in 1..Len(q) : q[i] \notin Describes(c)
    BY <1>3 DEF Describes
  <2>2. QED BY <2>1 DEF Ends, EndsAt
<1>6. JoinedComes' /\ MembersCome' /\ UnreadComes' /\ RowsAreNew'
  BY <1>1, <1>2, <1>3, <1>5 DEF JoinedComes, MembersCome, UnreadComes, RowsAreNew
<1>7. QED BY <1>1, <1>4, <1>6 DEF ViewInv

\* A reply has rows, and says nothing else.
LEMMA AnswerKeepsView ==
  ASSUME ViewInv, NEW key \in NetKeys, Answer(key) PROVE ViewInv'
<1>1. /\ Types /\ HeldInv' /\ up /\ deleting = "no" /\ UNCHANGED <<client, server, up, deleting, missed>>
      /\ revived' = IF key \in open THEN revived ELSE revived \cup {key}
  BY AnswerSends, AnswerKeepsHeld DEF ViewInv, HeldInv
<1>2. PICK h \in Frames : h.kind = "history" /\ inbox' = Append(inbox, h)
  BY <1>1, AnswerSends
<1>3. /\ UNCHANGED <<buffers, snapshotChannels, log, cleared, open, joined, members, unread>>
      /\ Held' = Held
  BY <1>1 DEF client, server, Held
<1>4. Steady
  BY <1>1, <1>3, SameStore DEF Steady
<1>5. PICK X : X = Excused' /\ Excused \subseteq X
  BY <1>1 DEF Excused
<1>6. UnreadIsThere'
  BY <1>3, <1>4, SteadyView, UnreadStays
<1> DEFINE q == Append(inbox, h)
           K == (Channels \cap open) \ X
<1>7. /\ SlicesFollow(inbox) /\ NewRows(inbox) /\ inbox \in Seq(Frames) /\ joined \subseteq Channels
      /\ TellsJoined(inbox, K, joined) /\ TellsMembers(inbox, joined \ X, members)
      /\ TellsUnread(inbox, NetKeys \ X, unread)
  BY <1>1, <1>4, <1>5, SteadyView DEF TellsJoined, TellsMembers, TellsUnread
<1>8. SlicesFollow(q) /\ NewRows(q)
  BY <1>2, <1>7, SlicesAppend, RowsAppend
<1>9. TellsJoined(q, K, joined) /\ TellsMembers(q, joined \ X, members) /\ TellsUnread(q, NetKeys \ X, unread)
  <2>1. \A k \in Keys : Silent(h, k)
    BY <1>2, SilentIs
  <2>2. K \subseteq Keys /\ joined \ X \subseteq Keys /\ NetKeys \ X \subseteq Keys
    BY <1>7, KeysAre
  <2> HIDE DEF K
  <2>3. QED BY <1>2, <1>7, <2>1, <2>2, SilentAppend
<1>10. inbox' = q
  BY <1>2
<1> HIDE DEF q
<1>11. QED BY <1>1, <1>3, <1>4, <1>5, <1>6, <1>8, <1>9, <1>10, ViewNext
\* What changes neither the store nor what is on its way nor the server tells nothing.
LEMMA SameView ==
  ASSUME ViewInv, HeldInv', UNCHANGED <<buffers, snapshotChannels, log, cleared, open, joined, members, unread,
                                        up, inbox, deleting, missed, revived>>
  PROVE  ViewInv'
<1>1. (\A k : Seen(k)' = Seen(k)) /\ JoinedHeld' = JoinedHeld /\ \A u : Counted(u)' = Counted(u)
  BY SameStore
<1>2. Excused' = Excused
  BY DEF Excused
<1>3. UnreadIsThere'
  <2>1. \A k \in NetKeys : RowsOf(k)' = RowsOf(k)
    BY KeysAre DEF RowsOf
  <2>2. QED BY <2>1 DEF ViewInv, UnreadIsThere
<1>4. JoinedComes'
  BY <1>1, <1>2 DEF ViewInv, JoinedComes, JoinedAt
<1>5. MembersCome'
  BY <1>1, <1>2 DEF ViewInv, MembersCome, MembersAt
<1>6. UnreadComes'
  BY <1>1, <1>2 DEF ViewInv, UnreadComes, UnreadAt
<1>7. RowsAreNew'
  BY <1>1 DEF ViewInv, RowsAreNew
<1>8. QED BY <1>3, <1>4, <1>5, <1>6, <1>7 DEF ViewInv

\* While the network is being deleted, nothing in it counts but the order of its rows.
LEMMA DeleteKeepsView ==
  ASSUME ViewInv, DeleteNetwork PROVE ViewInv'
<1>1. HeldInv' /\ deleting' = "asked" /\ joined' = {} /\ UNCHANGED <<client, inbox>>
  BY DeleteDoes, DeleteKeepsHeld DEF ViewInv, HeldInv
<1>2. UNCHANGED <<buffers, snapshotChannels>>
  BY <1>1 DEF client
<1>3. \A k : Seen(k)' = Seen(k)
  BY <1>2, SameStore
<1>4. UnreadIsThere' /\ MembersCome' /\ UnreadComes'
  BY <1>1 DEF UnreadIsThere, MembersCome, UnreadComes
<1>5. JoinedComes'
  BY <1>1 DEF ViewInv, JoinedComes
<1>6. RowsAreNew'
  BY <1>1, <1>3 DEF ViewInv, RowsAreNew
<1>7. QED BY <1>1, <1>4, <1>5, <1>6 DEF ViewInv

\* When it has been removed nothing of it is seen.
LEMMA RemoveKeepsView ==
  ASSUME ViewInv, RemoveNetwork PROVE ViewInv'
<1>1. /\ Types /\ HeldInv' /\ deleting' = "done" /\ deleting # "no" /\ Held' = Held \ NetKeys
      /\ UNCHANGED <<server, link>>
  BY RemoveDoes, RemoveKeepsHeld DEF ViewInv, HeldInv, RemoveNetwork
<1>2. UNCHANGED <<inbox, joined>>
  BY <1>1 DEF server, link
<1>3. joined = {}
  BY <1>1 DEF Types, LinkTypes
<1>4. UnreadIsThere' /\ MembersCome' /\ UnreadComes'
  BY <1>1, <1>2, <1>3 DEF UnreadIsThere, MembersCome, UnreadComes
<1>5. JoinedComes'
  BY <1>1, <1>2 DEF ViewInv, JoinedComes
<1>6. \A k \in NetKeys : Seen(k)'.newest = 0
  <2>1. \A k \in NetKeys : k \notin DOMAIN buffers'
    BY <1>1 DEF Held
  <2>2. QED BY <2>1 DEF Seen, Touch, Put, NoId
<1>7. RowsAreNew'
  <2>1. ASSUME NEW m \in 1..Len(inbox), inbox[m].kind = "irc", inbox[m].key # System
        PROVE  /\ 0 < inbox[m].id
               /\ \A l \in 1..Len(inbox) : l < m => \A id \in Ids(inbox[l]) : id < inbox[m].id
    <3>1. Sound(inbox[m]) /\ inbox[m] \in Frames
      BY <1>1 DEF Types, LinkTypes
    <3>2. inbox[m].id \in 1..Limit(inbox[m].key) /\ inbox[m].id \in Nat
      BY <2>1, <3>1, KindTells DEF Sound, IrcRows
    <3>3. 0 < inbox[m].id
      <4>1. PICK x : x = Limit(inbox[m].key)
        OBVIOUS
      <4>2. QED BY <3>2, <4>1
    <3>4. QED BY <2>1, <3>3 DEF ViewInv, RowsAreNew
  <2>2. QED BY <1>2, <1>6, <2>1 DEF RowsAreNew
<1>8. QED BY <1>1, <1>4, <1>5, <1>7 DEF ViewInv

\* At the start the one row that there is is unread, in what is open.
LEMMA InitView ==
  ASSUME Init PROVE ViewInv
<1>1. PICK first \in {CHOOSE c \in Channels : TRUE, CHOOSE q \in Queries : TRUE}, nick \in Nicks :
        /\ log = <<[key |-> first, type |-> "message", nick |-> nick]>>
        /\ open = Channels \cup {first}
        /\ unread = [key \in Keys |-> IF key = first THEN 1 ELSE 0]
  BY DEF Init
<1>2. cleared = [key \in Keys |-> 0] /\ ~up /\ inbox = <<>>
  BY DEF Init, NoId
<1>3. HeldInv
  BY InitHeld
<1>4. UnreadIsThere
  <2>1. first \in NetKeys /\ first # System /\ first \in Keys
    BY BuffersAssumption, KeysAre
  <2>2. 1 \in DOMAIN log /\ log[1].key = first /\ cleared[first] = 0
    BY <1>1, <1>2, <2>1
  <2>3. 1 \in RowsOf(first)
    BY <2>1, <2>2 DEF RowsOf
  <2>4. QED BY <1>1, <2>3, KeysAre DEF UnreadIsThere
<1>5. \A on, off, p : ~Ends(inbox, on, off, p, {})
  BY <1>2 DEF Ends, EndsAt
<1>6. QED BY <1>2, <1>3, <1>4, <1>5 DEF ViewInv, JoinedComes, MembersCome, UnreadComes, RowsAreNew

\* Every step keeps what is seen right.
LEMMA NextKeepsView ==
  ASSUME ViewInv, [Next]_vars PROVE ViewInv'
<1>0. HeldInv' /\ Types
  BY NextKeepsHeld DEF ViewInv, HeldInv
<1>1. CASE ApplyFrame
  BY <1>0, <1>1, ApplyKeepsView DEF ViewInv
<1>2. ASSUME NEW key \in NetKeys, Say(key) PROVE ViewInv'
  <2>1. PICK nick \in Nicks : AddRow(key, "message", nick) /\ members' = members /\ (key \in Channels => key \in joined)
    BY <1>2 DEF Say
  <2>2. members' \in [Channels -> SUBSET Nicks]
    BY <1>0, <2>1 DEF Types, ServerTypes
  <2>3. QED BY <2>1, <2>2, RowKeepsView
<1>3. ASSUME NEW c \in Channels, MemberJoins(c) \/ MemberLeaves(c) PROVE ViewInv'
  <2>1. members \in [Channels -> SUBSET Nicks] /\ c \in NetKeys
    BY <1>0, KeysAre DEF Types, ServerTypes
  <2>2. CASE MemberJoins(c)
    <3>1. PICK nick \in Nicks : AddRow(c, "join", nick) /\ members' = [members EXCEPT ![c] = members[c] \cup {nick}]
                                /\ c \in joined
      BY <2>2 DEF MemberJoins
    <3>2. /\ members' \in [Channels -> SUBSET Nicks]
          /\ \A d \in Channels, n \in Nicks : n \in members'[d] <=> n \in members[d] \/ (d = c /\ n = nick)
      BY <2>1, <3>1
    <3>3. QED BY <2>1, <3>1, <3>2, RowKeepsView
  <2>3. CASE MemberLeaves(c)
    <3>1. PICK nick \in members[c] : AddRow(c, "part", nick) /\ members' = [members EXCEPT ![c] = members[c] \ {nick}]
                                     /\ c \in joined
      BY <2>3 DEF MemberLeaves
    <3>2. /\ members' \in [Channels -> SUBSET Nicks] /\ nick \in Nicks
          /\ \A d \in Channels, n \in Nicks : n \in members'[d] <=> n \in members[d] /\ ~(d = c /\ n = nick)
      BY <2>1, <3>1
    <3>3. QED BY <2>1, <3>1, <3>2, RowKeepsView
  <2>4. QED BY <1>3, <2>2, <2>3
<1>4. ASSUME NEW key \in NetKeys, Close(key) \/ Open(key) \/ Clear(key) PROVE ViewInv'
  BY <1>4, CloseKeepsView, OpenKeepsView, ClearKeepsView
<1>5. ASSUME NEW c \in Channels, SelfJoin(c) \/ SelfPart(c) PROVE ViewInv'
  BY <1>5, SelfJoinKeepsView, SelfPartKeepsView
<1>6. ASSUME NEW from \in Queries, NEW to \in Queries, Rename(from, to) PROVE ViewInv'
  BY <1>6, RenameKeepsView
<1>7. CASE MarkAllRead \/ SystemRow \/ Connect \/ Lose
  BY <1>7, MarkKeepsView, SystemKeepsView, ConnectKeepsView, LoseKeepsView
<1>8. ASSUME NEW key \in NetKeys, Hydrate(key) PROVE ViewInv'
  <2>1. UNCHANGED <<client, server, up, inbox, deleting, missed, revived>>
    BY <1>0, <1>8, HydrateDoes
  <2>2. UNCHANGED <<buffers, snapshotChannels, log, cleared, open, joined, members, unread>>
    BY <2>1 DEF client, server
  <2>3. QED BY <1>0, <2>1, <2>2, SameView
<1>9. ASSUME NEW key \in NetKeys, Answer(key) PROVE ViewInv'
  BY <1>9, AnswerKeepsView
<1>10. CASE DeleteNetwork \/ RemoveNetwork
  BY <1>10, DeleteKeepsView, RemoveKeepsView
<1>11. CASE UNCHANGED vars
  BY <1>0, <1>11, StutterIs, SameView
<1>12. QED BY Zenon, <1>1, <1>2, <1>3, <1>4, <1>5, <1>6, <1>7, <1>8, <1>9, <1>10, <1>11 DEF Next, Network, User

\* What is seen is right at every moment, with all that is on its way.
THEOREM ViewSafe == Spec => []ViewInv
<1>1. Init => ViewInv
  BY InitView
<1>2. ViewInv /\ [Next]_vars => ViewInv'
  BY NextKeepsView
<1>3. QED BY <1>1, <1>2, PTL DEF Spec

\* Once nothing is on its way, a buffer says of itself what the server says of it:
\* whether it is joined, who is in it, and how much of it is unread.
THEOREM ViewIsRight == Spec => []ViewAgrees
<1>1. ViewInv => ViewAgrees
  <2>1. SUFFICES ASSUME ViewInv, up, inbox = <<>>, deleting # "asked", NEW key \in Shared
                 PROVE  /\ buffers[key].joined = (key \in joined)
                        /\ key \in joined => buffers[key].members = members[key]
                        /\ buffers[key].unread = unread[key]
    <3>1. ViewInv => TypeOK
      BY HeldTypes DEF ViewInv
    <3>2. QED BY <3>1 DEF ViewAgrees, Quiet
  <2>2. /\ Types /\ key \in Held /\ key \in open /\ key \notin Excused /\ open \subseteq NetKeys
        /\ joined \subseteq Channels /\ members \in [Channels -> SUBSET Nicks]
    BY <2>1 DEF ViewInv, HeldInv, Types, ServerTypes, Shared, Excused
  <2>3. deleting = "no" /\ key \in NetKeys /\ key \in Keys
    BY <2>1, <2>2, KeysAre DEF Types, LinkTypes
  <2>4. Seen(key) = buffers[key] /\ Fits(key, buffers[key]) /\ buffers[key] \in Buffer
    BY <2>2, <2>3, SeenIs DEF Types, StoreTypes, ServerTypes
  <2>5. \A on, off, p, B : Ends(inbox, on, off, p, B) <=> p \in B
    BY <2>1, EndsNone DEF Ends
  <2>6. buffers[key].joined = (key \in joined)
    <3>1. buffers[key].joined \in BOOLEAN /\ (key \in JoinedHeld <=> buffers[key].joined)
      BY <2>2, <2>4 DEF JoinedHeld, Buffer
    <3>2. key \in Channels => (key \in JoinedHeld <=> key \in joined)
      BY <2>1, <2>2, <2>3, <2>5 DEF ViewInv, JoinedComes, JoinedAt
    <3>3. key \notin Channels => ~buffers[key].joined /\ key \notin joined
      BY <2>2, <2>4 DEF Fits
    <3>4. QED BY <3>1, <3>2, <3>3
  <2>7. ASSUME key \in joined PROVE buffers[key].members = members[key]
    <3>1. \A n \in Nicks : n \in Seen(key).members <=> n \in members[key]
      BY <2>1, <2>2, <2>5, <2>7 DEF ViewInv, MembersCome, MembersAt
    <3>2. buffers[key].members \subseteq Nicks /\ members[key] \subseteq Nicks
      BY <2>2, <2>4, <2>7 DEF Buffer
    <3>3. QED BY <2>4, <3>1, <3>2
  <2>8. buffers[key].unread = unread[key]
    <3>1. key \in Counted(unread[key])
      BY <2>1, <2>2, <2>3, <2>5 DEF ViewInv, UnreadComes, UnreadAt
    <3>2. QED BY <2>4, <3>1 DEF Counted
  <2>9. QED BY <2>6, <2>7, <2>8
<1>2. QED BY <1>1, ViewSafe, PTL
===============================================================================
