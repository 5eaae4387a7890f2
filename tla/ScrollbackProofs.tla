--------------------------- MODULE ScrollbackProofs ---------------------------
(***************************************************************************)
(* Proofs about Scrollback, and first about the ring it keeps: whatever     *)
(* slices, live rows and lines without an id are merged into it, it stays   *)
(* in order and holds no row twice.                                         *)
(***************************************************************************)
EXTENDS Scrollback, FiniteSetTheorems, SequenceTheorems, WellFoundedInduction, TLAPS

--------------------------------------------------------------------------------
(* The ring *)

\* No row is there twice, and each is below the one that follows it, unless one of
\* the two has no id.
Ordered(r) ==
  /\ \A i, j \in DOMAIN r : r[i] = r[j] /\ r[i] # LocalRow => i = j
  /\ \A i \in 1..(Len(r) - 1) : r[i] # LocalRow /\ r[i + 1] # LocalRow => r[i] < r[i + 1]

\* The rings that hold no id above h, and the slices a server whose newest row is h sends
Rings(h) == {r \in Seq(0..h) : Ordered(r)}
Rising(h) == {s \in Seq(1..h) : \A i, j \in 1..Len(s) : i < j => s[i] < s[j]}

\* A ring of n rows, row by row
LEMMA RingIs ==
  ASSUME NEW h \in Nat, NEW r \in Seq(0..h),
         \A i, j \in 1..Len(r) : r[i] = r[j] /\ r[i] # 0 => i = j,
         \A i \in 1..Len(r) : \A j \in 1..Len(r) : j = i + 1 /\ r[i] # 0 /\ r[j] # 0 => r[i] < r[j]
  PROVE  r \in Rings(h)
<1>1. DOMAIN r = 1..Len(r) /\ Len(r) \in Nat
  OBVIOUS
<1>2. \A i \in 1..(Len(r) - 1) : i \in 1..Len(r) /\ i + 1 \in 1..Len(r)
  BY <1>1
<1>3. \A i \in 1..(Len(r) - 1) : r[i] # 0 /\ r[i + 1] # 0 => r[i] < r[i + 1]
  BY <1>2
<1>4. QED BY <1>1, <1>3 DEF Rings, Ordered, LocalRow

LEMMA RingHas ==
  ASSUME NEW h, NEW r \in Rings(h)
  PROVE  /\ r \in Seq(0..h) /\ Len(r) \in Nat /\ DOMAIN r = 1..Len(r)
         /\ \A i, j \in 1..Len(r) : r[i] = r[j] /\ r[i] # 0 => i = j
         /\ \A i \in 1..Len(r) : \A j \in 1..Len(r) : j = i + 1 /\ r[i] # 0 /\ r[j] # 0 => r[i] < r[j]
<1>1. r \in Seq(0..h) /\ Ordered(r)
  BY DEF Rings
<1>2. DOMAIN r = 1..Len(r) /\ Len(r) \in Nat
  BY <1>1
<1>3. \A i \in 1..Len(r) : \A j \in 1..Len(r) : j = i + 1 => i \in 1..(Len(r) - 1)
  BY <1>2
<1>4. QED BY <1>1, <1>2, <1>3 DEF Ordered, LocalRow

\* A slice is a ring.
LEMMA SliceIsRing ==
  ASSUME NEW h \in Nat, NEW s \in Rising(h)
  PROVE  s \in Rings(h) /\ s \in Seq(0..h) /\ s \in Seq(1..h)
<1>1. s \in Seq(1..h) /\ \A i, j \in 1..Len(s) : i < j => s[i] < s[j]
  BY DEF Rising
<1>2. s \in Seq(0..h)
  BY <1>1, SeqMonotonic, 1..h \subseteq 0..h
<1>3. \A i \in 1..Len(s) : s[i] \in Nat /\ s[i] # 0 /\ i \in Nat
  BY <1>1
<1>4. \A i, j \in 1..Len(s) : s[i] = s[j] => i = j
  BY <1>1, <1>3
<1>5. \A i \in 1..Len(s) : \A j \in 1..Len(s) : j = i + 1 => s[i] < s[j]
  BY <1>1, <1>3
<1>6. QED BY <1>1, <1>2, <1>4, <1>5, RingIs

\* A part of a ring is a ring, and a part of a slice is a slice.
LEMMA PartIs ==
  ASSUME NEW h \in Nat, NEW n \in Nat, NEW m \in Nat, NEW r, n >= 1
  PROVE  /\ r \in Rings(h) /\ m <= Len(r) => SubSeq(r, n, m) \in Rings(h)
         /\ r \in Seq(0..h) /\ m <= Len(r) => SubSeq(r, n, m) \in Seq(0..h)
                        /\ Len(SubSeq(r, n, m)) = IF n <= m THEN m - n + 1 ELSE 0
<1> DEFINE s == SubSeq(r, n, m)
<1>1. ASSUME r \in Seq(0..h), m <= Len(r)
      PROVE  /\ s \in Seq(0..h) /\ Len(s) = IF n <= m THEN m - n + 1 ELSE 0
             /\ \A i \in 1..Len(s) : s[i] = r[n + i - 1] /\ n + i - 1 \in 1..Len(r)
  <2>1. \A i \in n..m : r[i] \in 0..h
    BY <1>1
  <2>2. /\ s \in Seq(0..h) /\ Len(s) = IF n <= m THEN m - n + 1 ELSE 0
        /\ \A i \in 1..(m - n + 1) : s[i] = r[n + i - 1]
    BY <2>1, SubSeqProperties
  <2>3. QED BY <1>1, <2>2
<1>2. ASSUME r \in Rings(h), m <= Len(r) PROVE s \in Rings(h)
  <2>1. /\ r \in Seq(0..h)
        /\ \A i, j \in 1..Len(r) : r[i] = r[j] /\ r[i] # 0 => i = j
        /\ \A i \in 1..Len(r) : \A j \in 1..Len(r) : j = i + 1 /\ r[i] # 0 /\ r[j] # 0 => r[i] < r[j]
    BY <1>2, RingHas
  <2>2. /\ s \in Seq(0..h)
        /\ \A i \in 1..Len(s) : s[i] = r[n + i - 1] /\ n + i - 1 \in 1..Len(r)
    BY <1>1, <1>2, <2>1
  <2> HIDE DEF s
  <2>3. Len(s) \in Nat
    BY <2>2
  <2>4. \A i, j \in 1..Len(s) : s[i] = s[j] /\ s[i] # 0 => i = j
    <3>1. TAKE i, j \in 1..Len(s)
    <3>2. n + i - 1 = n + j - 1 => i = j
      BY <2>3
    <3>3. QED BY <2>1, <2>2, <3>2
  <2>5. \A i \in 1..Len(s) : \A j \in 1..Len(s) : j = i + 1 /\ s[i] # 0 /\ s[j] # 0 => s[i] < s[j]
    <3>1. TAKE i \in 1..Len(s)
    <3>2. TAKE j \in 1..Len(s)
    <3>3. j = i + 1 => n + j - 1 = (n + i - 1) + 1
      BY <2>3
    <3>4. QED BY <2>1, <2>2, <3>3
  <2>6. QED BY <2>2, <2>4, <2>5, RingIs
<1>3. QED BY <1>1, <1>2

\* The greatest and the least of numbers up to a bound are among them.
LEMMA Least ==
  ASSUME NEW S \in SUBSET Nat, S # {}
  PROVE  Min(S) \in S /\ \A x \in S : Min(S) <= x
<1>1. PICK m \in S : \A y \in S : ~(<<y, m>> \in OpToRel(<, Nat))
  BY WFMin, NatLessThanWellFounded
<1>2. \A y \in S : ~(y < m)
  BY <1>1 DEF OpToRel
<1>3. \A x \in S : m <= x
  BY <1>2
<1>4. QED BY Zenon, <1>3 DEF Min

LEMMA Greatest ==
  ASSUME NEW n \in Nat, NEW S \in SUBSET (0..n), S # {}
  PROVE  Max(S) \in S /\ \A x \in S : x <= Max(S)
<1> DEFINE T == {n - x : x \in S}
<1>1. \A x \in S : x \in Nat /\ x <= n /\ n - x \in Nat /\ n - x \in T
  OBVIOUS
<1>2. T \in SUBSET Nat /\ T # {}
  <2>1. ASSUME NEW y \in T PROVE y \in Nat
    BY <1>1
  <2>2. PICK x \in S : n - x \in T
    BY <1>1
  <2>3. QED BY <2>1, <2>2
<1>3. PICK d \in T : \A y \in T : d <= y
  BY <1>2, Least
<1>4. PICK m \in S : d = n - m
  BY <1>3
<1>5. ASSUME NEW x \in S PROVE m >= x
  <2>1. n - m <= n - x /\ x \in Nat /\ m \in Nat
    BY <1>1, <1>3, <1>4
  <2>2. QED BY <2>1
<1>6. Max(S) \in S /\ \A x \in S : Max(S) >= x
  BY Zenon, <1>5 DEF Max
<1>7. ASSUME NEW x \in S PROVE x <= Max(S)
  <2>1. Max(S) >= x /\ x \in Nat /\ Max(S) \in Nat
    BY <1>1, <1>6
  <2>2. QED BY <2>1
<1>8. QED BY <1>6, <1>7

\* The newest id is of a row held, and none is above it.
LEMMA NewestIs ==
  ASSUME NEW h \in Nat, NEW r \in Seq(0..h)
  PROVE  /\ NewestId(r) \in 0..h /\ r \in Seq(0..NewestId(r))
         /\ NewestId(r) # 0 => NewestId(r) \in Ids(r)
         /\ \A x \in Ids(r) : x <= NewestId(r) /\ NewestId(r) # 0
<1>1. Ids(r) \in SUBSET (0..h) /\ \A x \in Ids(r) : x # 0
  BY DEF Ids, Range, LocalRow
<1>2. /\ NewestId(r) \in 0..h
      /\ NewestId(r) # 0 => NewestId(r) \in Ids(r)
      /\ \A x \in Ids(r) : x <= NewestId(r) /\ NewestId(r) # 0
  <2>1. CASE Ids(r) = {}
    BY <2>1 DEF NewestId, NoId
  <2>2. CASE Ids(r) # {}
    <3>1. NewestId(r) = Max(Ids(r))
      BY <2>2 DEF NewestId
    <3>2. Max(Ids(r)) \in Ids(r) /\ \A x \in Ids(r) : x <= Max(Ids(r))
      BY Zenon, <1>1, <2>2, Greatest
    <3>3. QED BY <1>1, <3>1, <3>2
  <2>3. QED BY <2>1, <2>2
<1>3. r \in Seq(0..NewestId(r))
  <2> DEFINE n == NewestId(r)
  <2>1. ASSUME NEW i \in 1..Len(r) PROVE r[i] \in 0..n
    <3>1. r[i] \in 0..h /\ (r[i] # 0 => r[i] \in Ids(r))
      BY DEF Ids, Range, LocalRow
    <3>2. QED BY <1>2, <3>1
  <2> HIDE DEF n
  <2>2. SubSeq(r, 1, Len(r)) \in Seq(0..n)
    BY <2>1, SubSeqProperties
  <2>3. r \in Seq(0..n)
    BY <2>2, SubSeqFull
  <2>4. QED BY <2>3 DEF n
<1>4. QED BY <1>2, <1>3

\* So is the oldest.
LEMMA OldestIs ==
  ASSUME NEW h \in Nat, NEW r \in Seq(0..h)
  PROVE  /\ OldestId(r) \in 0..h
         /\ OldestId(r) # 0 => OldestId(r) \in Ids(r)
<1> DEFINE held == {i \in DOMAIN r : r[i] # LocalRow}
<1>1. CASE held = {}
  BY <1>1 DEF OldestId, NoId
<1>2. CASE held # {}
  <2>1. held \in SUBSET Nat
    OBVIOUS
  <2>2. Min(held) \in held
    BY Zenon, <1>2, <2>1, Least
  <2>3. OldestId(r) = r[Min(held)]
    BY <1>2 DEF OldestId
  <2>4. Min(held) \in DOMAIN r /\ r[Min(held)] # 0
    BY <2>2 DEF LocalRow
  <2> HIDE DEF held
  <2>5. r[Min(held)] \in Range(r) /\ r[Min(held)] \in 0..h
    BY <2>4 DEF Range
  <2>6. r[Min(held)] \in Ids(r)
    BY <2>4, <2>5 DEF Ids, LocalRow
  <2>7. QED BY <2>3, <2>5, <2>6
<1>3. QED BY <1>1, <1>2

\* A row that is not held, or has no id, may follow a smaller one.
LEMMA AppendIs ==
  ASSUME NEW h \in Nat, NEW r \in Rings(h), NEW row \in 0..h,
         row = 0 \/ (row \notin Ids(r) /\ (r = <<>> \/ Last(r) < row))
  PROVE  Append(r, row) \in Rings(h) /\ Len(Append(r, row)) = Len(r) + 1
<1> DEFINE s == Append(r, row)
           n == Len(r)
<1>1. /\ r \in Seq(0..h) /\ n \in Nat
      /\ \A i, j \in 1..n : r[i] = r[j] /\ r[i] # 0 => i = j
      /\ \A i \in 1..n : \A j \in 1..n : j = i + 1 /\ r[i] # 0 /\ r[j] # 0 => r[i] < r[j]
  BY RingHas
<1>2. /\ s \in Seq(0..h) /\ Len(s) = n + 1
      /\ \A i \in 1..n : s[i] = r[i]
      /\ s[n + 1] = row
  BY <1>1, AppendProperties
<1>3. \A i \in 1..n : r[i] # 0 => r[i] # row
  BY <1>1 DEF Ids, Range, LocalRow
<1>4. n = 0 \/ row = 0 \/ r[n] < row
  BY <1>1 DEF Last
<1> HIDE DEF s, n
<1>5. \A i \in 1..(n + 1) : i \in 1..n \/ i = n + 1
  BY <1>1
<1>6. \A i, j \in 1..Len(s) : s[i] = s[j] /\ s[i] # 0 => i = j
  BY <1>1, <1>2, <1>3, <1>5
<1>7. \A i \in 1..Len(s) : \A j \in 1..Len(s) : j = i + 1 /\ s[i] # 0 /\ s[j] # 0 => s[i] < s[j]
  <2>1. TAKE i \in 1..Len(s)
  <2>2. TAKE j \in 1..Len(s)
  <2>3. HAVE j = i + 1 /\ s[i] # 0 /\ s[j] # 0
  <2>4. i \in 1..n
    BY <1>1, <1>2, <2>3
  <2>5. CASE j \in 1..n
    BY <1>1, <1>2, <2>3, <2>4, <2>5
  <2>6. CASE j = n + 1
    BY <1>1, <1>2, <1>4, <2>3, <2>4, <2>6
  <2>7. QED BY <1>2, <1>5, <2>5, <2>6
<1>8. QED BY <1>2, <1>6, <1>7, RingIs DEF s, n

\* s is r with a row put at the p-th place.
Placed(r, s, p, row) ==
  /\ Len(s) = Len(r) + 1
  /\ \A i \in 1..(Len(r) + 1) : i < p => s[i] = r[i]
  /\ s[p] = row
  /\ \A i \in 1..(Len(r) + 1) : i > p => s[i] = r[i - 1]

LEMMA InsertAtPlaces ==
  ASSUME NEW h \in Nat, NEW r \in Seq(0..h), NEW row \in 0..h, NEW p \in 1..Len(r)
  PROVE  InsertAt(r, p, row) \in Seq(0..h) /\ Placed(r, InsertAt(r, p, row), p, row)
<1> DEFINE s == InsertAt(r, p, row)
           n == Len(r)
           a == SubSeq(r, 1, p - 1)
           b == SubSeq(r, p, n)
<1>1. r \in Seq(0..h) /\ n \in Nat /\ p \in 1..n
  OBVIOUS
<1>2. /\ a \in Seq(0..h) /\ Len(a) = p - 1
      /\ \A i \in 1..(p - 1) : a[i] = r[i]
  <2>1. \A i \in 1..(p - 1) : r[i] \in 0..h
    BY <1>1
  <2>2. /\ a \in Seq(0..h) /\ Len(a) = IF 1 <= p - 1 THEN p - 1 - 1 + 1 ELSE 0
        /\ \A i \in 1..(p - 1 - 1 + 1) : a[i] = r[1 + i - 1]
    BY <1>1, <2>1, SubSeqProperties
  <2>3. QED BY <1>1, <2>2
<1>3. /\ b \in Seq(0..h) /\ Len(b) = n - p + 1
      /\ \A i \in 1..(n - p + 1) : b[i] = r[p + i - 1]
  <2>1. \A i \in p..n : r[i] \in 0..h
    BY <1>1
  <2>2. /\ b \in Seq(0..h) /\ Len(b) = IF p <= n THEN n - p + 1 ELSE 0
        /\ \A i \in 1..(n - p + 1) : b[i] = r[p + i - 1]
    BY <1>1, <2>1, SubSeqProperties
  <2>3. QED BY <1>1, <2>2
<1>4. s = (a \o <<row>>) \o b
  BY <1>1 DEF InsertAt
<1> HIDE DEF s, a, b, n
<1>5. /\ a \o <<row>> \in Seq(0..h) /\ Len(a \o <<row>>) = p
      /\ \A i \in 1..(p - 1) : (a \o <<row>>)[i] = r[i]
      /\ (a \o <<row>>)[p] = row
  <2> DEFINE e == <<row>>
  <2>1. e \in Seq(0..h) /\ Len(e) = 1 /\ e[1] = row
    OBVIOUS
  <2> HIDE DEF e
  <2>2. a \in Seq(0..h) /\ e \in Seq(0..h)
    BY <1>2, <2>1
  <2>3. /\ a \o e \in Seq(0..h) /\ Len(a \o e) = Len(a) + Len(e)
        /\ \A i \in 1..(Len(a) + Len(e)) :
             (a \o e)[i] = IF i <= Len(a) THEN a[i] ELSE e[i - Len(a)]
    BY Zenon, <2>2, ConcatProperties
  <2>4. /\ a \o e \in Seq(0..h) /\ Len(a \o e) = p
        /\ \A i \in 1..(p - 1) : (a \o e)[i] = r[i]
        /\ (a \o e)[p] = row
    BY <1>1, <1>2, <2>1, <2>3
  <2>5. QED BY <2>4 DEF e
<1>6. /\ s \in Seq(0..h) /\ Len(s) = n + 1
      /\ \A i \in 1..(n + 1) : i < p => s[i] = r[i]
      /\ s[p] = row
      /\ \A i \in 1..(n + 1) : i > p => s[i] = r[i - 1]
  <2> DEFINE c == a \o <<row>>
  <2> HIDE DEF c
  <2>1. /\ c \in Seq(0..h) /\ Len(c) = p
        /\ \A i \in 1..(p - 1) : c[i] = r[i]
        /\ c[p] = row
    BY <1>5 DEF c
  <2>2. /\ c \o b \in Seq(0..h) /\ Len(c \o b) = Len(c) + Len(b)
        /\ \A i \in 1..(Len(c) + Len(b)) :
             (c \o b)[i] = IF i <= Len(c) THEN c[i] ELSE b[i - Len(c)]
    BY Zenon, <1>3, <2>1, ConcatProperties
  <2>3. s = c \o b
    BY <1>4 DEF c
  <2>4. Len(c) + Len(b) = n + 1
    BY <1>1, <1>3, <2>1
  <2>5. \A i \in 1..(n + 1) : i < p => s[i] = r[i]
    BY <1>1, <2>1, <2>2, <2>3, <2>4
  <2>6. s[p] = row
    BY <1>1, <2>1, <2>2, <2>3, <2>4
  <2>7. \A i \in 1..(n + 1) : i > p => s[i] = r[i - 1]
    <3>1. TAKE i \in 1..(n + 1)
    <3>2. HAVE i > p
    <3>3. i - p \in 1..(n - p + 1) /\ p + (i - p) - 1 = i - 1
      BY <1>1, <3>2
    <3>4. s[i] = b[i - p]
      <4>1. i \in 1..(Len(c) + Len(b)) /\ ~(i <= Len(c)) /\ Len(c) = p
        BY <1>1, <2>1, <2>4, <3>2
      <4>2. QED BY <2>2, <2>3, <4>1
    <3>5. QED BY <1>3, <3>3, <3>4
  <2>8. QED BY <2>2, <2>3, <2>4, <2>5, <2>6, <2>7
<1>7. QED BY <1>6 DEF s, n, Placed

\* Nor is the order broken where it is put before the first greater one.
LEMMA InsertAtIs ==
  ASSUME NEW h \in Nat, NEW r \in Rings(h), NEW row \in 0..h, row # 0, row \notin Ids(r),
         NEW p \in 1..Len(r), r[p] > row, \A i \in 1..Len(r) : r[i] > row => p <= i
  PROVE  InsertAt(r, p, row) \in Rings(h) /\ Len(InsertAt(r, p, row)) = Len(r) + 1
<1> DEFINE s == InsertAt(r, p, row)
           n == Len(r)
<1>1. /\ r \in Seq(0..h) /\ n \in Nat /\ p \in 1..n
      /\ \A i, j \in 1..n : r[i] = r[j] /\ r[i] # 0 => i = j
      /\ \A i \in 1..n : \A j \in 1..n : j = i + 1 /\ r[i] # 0 /\ r[j] # 0 => r[i] < r[j]
      /\ \A i \in 1..n : r[i] > row => p <= i
  BY RingHas
<1>2. \A i \in 1..n : r[i] \in 0..h /\ (r[i] # 0 => r[i] # row)
  BY SMTT(30), <1>1 DEF Ids, Range, LocalRow
<1>3. /\ s \in Seq(0..h) /\ Len(s) = n + 1
      /\ \A i \in 1..(n + 1) : i < p => s[i] = r[i]
      /\ s[p] = row
      /\ \A i \in 1..(n + 1) : i > p => s[i] = r[i - 1]
  <2>1. s \in Seq(0..h) /\ Placed(r, s, p, row)
    BY <1>1, InsertAtPlaces
  <2> HIDE DEF s
  <2>2. QED BY <2>1 DEF Placed
<1> HIDE DEF s, n
<1>4. \A i \in 1..(n + 1) : \/ i < p /\ i \in 1..n /\ s[i] = r[i]
                            \/ i = p /\ s[i] = row
                            \/ i > p /\ i - 1 \in 1..n /\ s[i] = r[i - 1]
  <2>1. SUFFICES ASSUME NEW i \in 1..(n + 1)
                 PROVE  \/ i < p /\ i \in 1..n /\ s[i] = r[i]
                        \/ i = p /\ s[i] = row
                        \/ i > p /\ i - 1 \in 1..n /\ s[i] = r[i - 1]
    OBVIOUS
  <2>2. CASE i < p
    <3>1. i \in 1..n
      BY <1>1, <2>2
    <3>2. QED BY <1>3, <2>2, <3>1
  <2>3. CASE i = p
    BY <1>3, <2>3
  <2>4. CASE i > p
    <3>1. i - 1 \in 1..n
      BY <1>1, <2>4
    <3>2. QED BY <1>3, <2>4, <3>1
  <2>5. QED BY <1>1, <2>2, <2>3, <2>4
<1>5. \A i, j \in 1..Len(s) : s[i] = s[j] /\ s[i] # 0 => i = j
  <2>1. TAKE i, j \in 1..Len(s)
  <2>2. HAVE s[i] = s[j] /\ s[i] # 0
  <2>3. i \in 1..(n + 1) /\ j \in 1..(n + 1)
    BY <1>3
  <2>4. CASE i = p \/ j = p
    BY SMTT(30), <1>2, <1>4, <2>2, <2>3, <2>4
  <2>5. CASE i < p /\ j < p
    BY SMTT(30), <1>1, <1>4, <2>2, <2>3, <2>5
  <2>6. CASE i > p /\ j > p
    <3>1. i - 1 \in 1..n /\ j - 1 \in 1..n /\ s[i] = r[i - 1] /\ s[j] = r[j - 1]
      BY <1>1, <1>4, <2>3, <2>6
    <3>2. i - 1 = j - 1
      BY <1>1, <2>2, <3>1
    <3>3. QED BY <2>3, <3>2
  <2>7. CASE i < p /\ j > p
    <3>1. i \in 1..n /\ j - 1 \in 1..n /\ s[i] = r[i] /\ s[j] = r[j - 1] /\ i # j - 1
      BY <1>1, <1>4, <2>3, <2>7
    <3>2. QED BY <1>1, <2>2, <3>1
  <2>8. CASE i > p /\ j < p
    <3>1. j \in 1..n /\ i - 1 \in 1..n /\ s[j] = r[j] /\ s[i] = r[i - 1] /\ j # i - 1
      BY <1>1, <1>4, <2>3, <2>8
    <3>2. QED BY <1>1, <2>2, <3>1
  <2>9. QED BY <1>1, <2>3, <2>4, <2>5, <2>6, <2>7, <2>8
<1>6. \A i \in 1..Len(s) : \A j \in 1..Len(s) : j = i + 1 /\ s[i] # 0 /\ s[j] # 0 => s[i] < s[j]
  <2>1. TAKE i \in 1..Len(s)
  <2>2. TAKE j \in 1..Len(s)
  <2>3. HAVE j = i + 1 /\ s[i] # 0 /\ s[j] # 0
  <2>4. i \in 1..(n + 1) /\ j \in 1..(n + 1)
    BY <1>3
  <2>5. CASE j < p
    <3>1. i \in 1..n /\ j \in 1..n /\ s[i] = r[i] /\ s[j] = r[j]
      BY <1>1, <1>4, <2>3, <2>4, <2>5
    <3>2. QED BY <1>1, <2>3, <3>1
  <2>6. CASE j = p
    <3>1. i < p /\ i \in 1..n /\ s[i] = r[i] /\ s[j] = row
      BY <1>1, <1>4, <2>3, <2>4, <2>6
    <3>2. ~(r[i] > row)
      BY <1>1, <3>1
    <3>3. QED BY <1>2, <2>3, <3>1, <3>2
  <2>7. CASE i = p
    <3>1. s[i] = row /\ s[j] = r[p]
      <4>1. j > p /\ j - 1 = p /\ j \in 1..(n + 1)
        BY <1>1, <2>3, <2>4, <2>7
      <4>2. QED BY <1>3, <2>7, <4>1
    <3>2. QED BY <1>2, <3>1
  <2>8. CASE i > p
    <3>1. i - 1 \in 1..n /\ j - 1 \in 1..n /\ j - 1 = (i - 1) + 1 /\ s[i] = r[i - 1] /\ s[j] = r[j - 1]
      BY <1>1, <1>4, <2>3, <2>4, <2>8
    <3>2. QED BY <1>1, <2>3, <3>1
  <2>9. QED BY <1>1, <2>3, <2>4, <2>5, <2>6, <2>7, <2>8
<1>7. QED BY <1>3, <1>5, <1>6, RingIs DEF s, n

\* p is where the row belongs: behind all the others, or before the first greater one.
Belongs(r, p, row) ==
  \/ p = Len(r) + 1 /\ (row = 0 \/ r = <<>> \/ Last(r) < row)
  \/ /\ p \in 1..Len(r) /\ row # 0 /\ Last(r) > row /\ r[p] > row
     /\ \A i \in 1..Len(r) : r[i] > row => p <= i

\* So a row that is put in its place leaves a ring a ring.
LEMMA InsertIs ==
  ASSUME NEW h \in Nat, NEW r \in Rings(h), NEW row \in 0..h, row = 0 \/ row \notin Ids(r)
  PROVE  /\ InsertOrdered(r, row) \in Rings(h) /\ Len(InsertOrdered(r, row)) = Len(r) + 1
         /\ \E p \in 1..(Len(r) + 1) : Placed(r, InsertOrdered(r, row), p, row) /\ Belongs(r, p, row)
<1>1. CASE row = LocalRow \/ r = <<>> \/ Last(r) < row
  <2> DEFINE s == Append(r, row)
             n == Len(r) + 1
  <2>1. InsertOrdered(r, row) = s
    BY <1>1 DEF InsertOrdered
  <2>2. row = 0 \/ r = <<>> \/ Last(r) < row
    BY Zenon, <1>1 DEF LocalRow
  <2>3. row = 0 \/ (row \notin Ids(r) /\ (r = <<>> \/ Last(r) < row))
    BY Zenon, <2>2
  <2>4. s \in Rings(h) /\ Len(s) = Len(r) + 1
    BY <2>3, AppendIs
  <2>5. r \in Seq(0..h) /\ Len(r) \in Nat
    BY RingHas
  <2>6. /\ \A i \in 1..Len(r) : s[i] = r[i]
        /\ s[Len(r) + 1] = row
    BY <2>5, AppendProperties
  <2> HIDE DEF s
  <2>7. Placed(r, s, n, row) /\ n \in 1..(Len(r) + 1)
    BY <2>4, <2>5, <2>6 DEF Placed
  <2>8. Belongs(r, n, row)
    BY <2>2 DEF Belongs
  <2>9. QED BY <2>1, <2>4, <2>7, <2>8
<1>2. CASE ~(row = LocalRow \/ r = <<>> \/ Last(r) < row)
  <2> DEFINE later == {i \in DOMAIN r : r[i] > row}
  <2>1. r \in Seq(0..h) /\ Len(r) \in Nat /\ DOMAIN r = 1..Len(r) /\ r # <<>> /\ row # 0
    BY <1>2, RingHas DEF LocalRow
  <2>2. Len(r) \in 1..Len(r) /\ r[Len(r)] \in 0..h /\ ~(r[Len(r)] < row)
    BY <1>2, <2>1 DEF Last
  <2>3. r[Len(r)] # row
    BY <2>1, <2>2 DEF Ids, Range, LocalRow
  <2>4. Len(r) \in later /\ Last(r) > row
    BY <2>1, <2>2, <2>3 DEF Last
  <2>5. later \in SUBSET Nat
    BY <2>1
  <2>6. Min(later) \in later /\ \A i \in later : Min(later) <= i
    <3> HIDE DEF later
    <3>1. QED BY <2>4, <2>5, Least
  <2>7. InsertOrdered(r, row) = InsertAt(r, Min(later), row)
    BY <1>2, <2>4 DEF InsertOrdered
  <2> DEFINE p == Min(later)
             s == InsertAt(r, p, row)
  <2>8. p \in 1..Len(r) /\ r[p] > row /\ \A i \in 1..Len(r) : r[i] > row => p <= i
    BY <2>1, <2>6
  <2>9. InsertOrdered(r, row) = s
    BY <2>7
  <2> HIDE DEF p, later
  <2>10. s \in Rings(h) /\ Len(s) = Len(r) + 1
    BY <2>1, <2>8, InsertAtIs
  <2>11. Placed(r, s, p, row)
    BY <2>1, <2>8, InsertAtPlaces
  <2> HIDE DEF s
  <2>12. Belongs(r, p, row) /\ p \in 1..(Len(r) + 1)
    BY <2>1, <2>4, <2>8 DEF Belongs
  <2>13. QED BY <2>9, <2>10, <2>11, <2>12
<1>3. QED BY <1>1, <1>2

\* Rows that are merged in one by one are put in their places.
LEMMA AbsorbRowIs ==
  ASSUME NEW h \in Nat, NEW r \in Rings(h), NEW row \in 0..h, NEW wanted
  PROVE  AbsorbRow(r, row, wanted) \in Rings(h)
<1>1. CASE row \in Ids(r) \/ row \notin wanted
  BY <1>1 DEF AbsorbRow
<1>2. CASE ~(row \in Ids(r) \/ row \notin wanted)
  <2>1. AbsorbRow(r, row, wanted) = InsertOrdered(r, row)
    BY Zenon, <1>2 DEF AbsorbRow
  <2>2. row \notin Ids(r)
    BY Zenon, <1>2
  <2>3. QED BY <2>1, <2>2, InsertIs
<1>3. QED BY <1>1, <1>2

\* What a merge has made of a ring after each of the rows up to the n-th
Merging(f, n, ring, rows, wanted) ==
  f = [k \in 0..n |-> IF k = 0 THEN ring ELSE AbsorbRow(f[k - 1], rows[k], wanted)]

\* A function on the first n numbers and zero
Counts(f, n) == f = [k \in 0..n |-> f[k]]
\* Each step of which is the one a merge takes
Steps(f, n, rows, wanted) == \A k \in 1..n : f[k] = AbsorbRow(f[k - 1], rows[k], wanted)

LEMMA MergingIs ==
  ASSUME NEW f, NEW n \in Nat, NEW ring, NEW rows, NEW wanted
  PROVE  Merging(f, n, ring, rows, wanted)
           <=> Counts(f, n) /\ f[0] = ring /\ Steps(f, n, rows, wanted)
<1> DEFINE g == [k \in 0..n |-> IF k = 0 THEN ring ELSE AbsorbRow(f[k - 1], rows[k], wanted)]
<1>1. ASSUME f = g
      PROVE  Counts(f, n) /\ f[0] = ring /\ Steps(f, n, rows, wanted)
  BY <1>1 DEF Counts, Steps
<1>2. ASSUME Counts(f, n), f[0] = ring, Steps(f, n, rows, wanted)
      PROVE  f = g
  <2>1. \A k \in 0..n : k = 0 \/ k \in 1..n
    OBVIOUS
  <2>2. \A k \in 0..n : f[k] = IF k = 0 THEN ring ELSE AbsorbRow(f[k - 1], rows[k], wanted)
    BY <1>2, <2>1 DEF Steps
  <2>3. QED BY <1>2, <2>2 DEF Counts
<1>3. QED BY Zenon, <1>1, <1>2 DEF Merging

LEMMA MergingExists ==
  ASSUME NEW ring, NEW rows, NEW wanted, NEW n \in Nat
  PROVE  \E f : Merging(f, n, ring, rows, wanted)
<1> DEFINE Bad == {m \in Nat : ~\E f : Merging(f, m, ring, rows, wanted)}
<1>1. SUFFICES ASSUME Bad # {} PROVE FALSE
  OBVIOUS
<1>2. Bad \in SUBSET Nat
  OBVIOUS
<1>3. PICK m \in Bad : \A y \in Bad : m <= y
  <2> HIDE DEF Bad
  <2>1. QED BY <1>1, <1>2, Least
<1>4. m \in Nat /\ ~\E f : Merging(f, m, ring, rows, wanted)
  OBVIOUS
<1>5. CASE m = 0
  <2> DEFINE f == [k \in 0..m |-> ring]
  <2>1. Counts(f, m) /\ f[0] = ring /\ Steps(f, m, rows, wanted)
    BY <1>4, <1>5 DEF Counts, Steps
  <2> HIDE DEF f
  <2>2. Merging(f, m, ring, rows, wanted)
    BY Zenon, <1>4, <2>1, MergingIs
  <2>3. QED BY <1>4, <2>2
<1>6. CASE m # 0
  <2>1. m - 1 \in Nat /\ ~(m <= m - 1)
    BY <1>4, <1>6
  <2>2. m - 1 \notin Bad
    BY Zenon, <1>3, <2>1
  <2>3. PICK e : Merging(e, m - 1, ring, rows, wanted)
    BY <2>1, <2>2
  <2>4. e[0] = ring /\ Steps(e, m - 1, rows, wanted)
    BY <2>1, <2>3, MergingIs
  <2> DEFINE f == [k \in 0..m |-> IF k = m THEN AbsorbRow(e[m - 1], rows[m], wanted) ELSE e[k]]
  <2>5. Counts(f, m) /\ f[0] = ring
    BY <1>4, <1>6, <2>4 DEF Counts
  <2>6. Steps(f, m, rows, wanted)
    <3>1. SUFFICES ASSUME NEW k \in 1..m
                   PROVE  f[k] = AbsorbRow(f[k - 1], rows[k], wanted)
      BY Zenon DEF Steps
    <3>2. k - 1 \in 0..m /\ k - 1 # m /\ k \in 0..m
      BY <1>4
    <3>3. f[k - 1] = e[k - 1]
      BY <3>2
    <3>4. CASE k = m
      BY <3>2, <3>3, <3>4
    <3>5. CASE k # m
      <4>1. k \in 1..(m - 1)
        BY <1>4, <3>5
      <4>2. f[k] = e[k]
        BY <3>2, <3>5
      <4>3. QED BY <2>4, <3>3, <4>1, <4>2 DEF Steps
    <3>6. QED BY <3>4, <3>5
  <2> HIDE DEF f
  <2>7. Merging(f, m, ring, rows, wanted)
    BY Zenon, <1>4, <2>5, <2>6, MergingIs
  <2>8. QED BY <1>4, <2>7
<1>7. QED BY <1>5, <1>6

\* What a merge leaves is what it has made of the ring after the last row.
LEMMA AbsorbMerges ==
  ASSUME NEW ring, NEW rows, Len(rows) \in Nat, NEW wanted
  PROVE  \E f : Merging(f, Len(rows), ring, rows, wanted) /\ Absorb(ring, rows, wanted) = f[Len(rows)]
<1> DEFINE held == CHOOSE f :
             f = [k \in 0..Len(rows) |-> IF k = 0 THEN ring ELSE AbsorbRow(f[k - 1], rows[k], wanted)]
<1>1. \E f : Merging(f, Len(rows), ring, rows, wanted)
  BY MergingExists
<1>2. Merging(held, Len(rows), ring, rows, wanted)
  BY Zenon, <1>1 DEF Merging
<1>3. Absorb(ring, rows, wanted) = held[Len(rows)]
  BY DEF Absorb
<1>4. QED BY <1>2, <1>3

\* It is a ring again.
LEMMA AbsorbIs ==
  ASSUME NEW h \in Nat, NEW ring \in Rings(h), NEW rows \in Seq(0..h), NEW wanted
  PROVE  Absorb(ring, rows, wanted) \in Rings(h)
<1> DEFINE n == Len(rows)
<1>1. n \in Nat /\ \A k \in 1..n : rows[k] \in 0..h
  OBVIOUS
<1>2. PICK f : Merging(f, n, ring, rows, wanted) /\ Absorb(ring, rows, wanted) = f[n]
  BY <1>1, AbsorbMerges
<1> HIDE DEF n
<1>3. f[0] = ring /\ Steps(f, n, rows, wanted)
  BY <1>1, <1>2, MergingIs
<1> DEFINE Bad == {k \in 0..n : f[k] \notin Rings(h)}
<1>4. CASE Bad = {}
  BY <1>1, <1>2, <1>4
<1>5. CASE Bad # {}
  <2>1. Bad \in SUBSET Nat
    BY <1>1
  <2>2. PICK m \in Bad : \A y \in Bad : m <= y
    <3> HIDE DEF Bad
    <3>1. QED BY <1>5, <2>1, Least
  <2>3. m \in 0..n /\ f[m] \notin Rings(h) /\ m # 0
    BY <1>3
  <2>4. m - 1 \in 0..n /\ m \in 1..n /\ ~(m <= m - 1)
    BY <1>1, <2>3
  <2>5. f[m - 1] \in Rings(h)
    BY Zenon, <2>2, <2>4
  <2>6. AbsorbRow(f[m - 1], rows[m], wanted) \in Rings(h)
    BY <1>1, <2>4, <2>5, AbsorbRowIs
  <2>7. QED BY <1>3, <2>3, <2>4, <2>6 DEF Steps
<1>6. QED BY <1>4, <1>5

--------------------------------------------------------------------------------
(* What frames do to the buffer *)

\* The buffers of a client the server's newest row of which is h; those that are
\* trimmed; and those whose newest id is up to date
Buffers(h) == [ring : Rings(h), newest : 0..h, moreOlder : BOOLEAN,
               hydrated : BOOLEAN, detached : BOOLEAN]
Trimmed(h) == {b \in Buffers(h) : Len(b.ring) <= RingCapacity}
Current(h) == {b \in Trimmed(h) : b.ring \in Seq(0..b.newest)}

\* What is said of a buffer's rows, or of its other fields, leaves it a buffer.
LEMMA BufferHas ==
  ASSUME NEW h, NEW b \in Buffers(h)
  PROVE  /\ b.ring \in Rings(h) /\ b.newest \in 0..h
         /\ b.moreOlder \in BOOLEAN /\ b.hydrated \in BOOLEAN /\ b.detached \in BOOLEAN
         /\ \A r \in Rings(h) : [b EXCEPT !.ring = r] \in Buffers(h) /\ [b EXCEPT !.ring = r].ring = r
         /\ \A n \in 0..h : [b EXCEPT !.newest = n] \in Buffers(h) /\ [b EXCEPT !.newest = n].ring = b.ring
                            /\ [b EXCEPT !.newest = n].newest = n
         /\ \A x \in BOOLEAN : /\ [b EXCEPT !.moreOlder = x] \in Buffers(h)
                               /\ [b EXCEPT !.moreOlder = x].ring = b.ring
                               /\ [b EXCEPT !.moreOlder = x].newest = b.newest
         /\ \A x \in BOOLEAN : /\ [b EXCEPT !.hydrated = x] \in Buffers(h)
                               /\ [b EXCEPT !.hydrated = x].ring = b.ring
         /\ \A x \in BOOLEAN : /\ [b EXCEPT !.detached = x] \in Buffers(h)
                               /\ [b EXCEPT !.detached = x].ring = b.ring
                               /\ [b EXCEPT !.detached = x].newest = b.newest
BY DEF Buffers

\* Trimming keeps the newest rows that the ring has room for.
LEMMA TrimIs ==
  ASSUME NEW h \in Nat, NEW b \in Buffers(h)
  PROVE  /\ Trim(b) \in Trimmed(h) /\ Trim(b).newest = b.newest
         /\ \A k \in Nat : b.ring \in Seq(0..k) => Trim(b).ring \in Seq(0..k)
<1>1. b.ring \in Rings(h) /\ b.ring \in Seq(0..h) /\ Len(b.ring) \in Nat
  BY BufferHas, RingHas
<1>2. RingCapacity \in Nat /\ RingCapacity >= 1
  BY RingAssumption
<1>3. CASE Len(b.ring) <= RingCapacity
  <2>1. Trim(b) = b
    BY <1>3 DEF Trim
  <2>2. QED BY <1>3, <2>1 DEF Trimmed
<1>4. CASE ~(Len(b.ring) <= RingCapacity)
  <2> DEFINE n == Len(b.ring)
             e == n - RingCapacity + 1
             s == SubSeq(b.ring, e, n)
  <2>1. Trim(b) = [[b EXCEPT !.ring = s] EXCEPT !.moreOlder = TRUE]
    BY <1>4 DEF Trim, Buffers
  <2>2. n \in Nat /\ e \in Nat /\ e >= 1 /\ e <= n /\ n - e + 1 = RingCapacity
    <3>1. n \in Nat /\ n > RingCapacity
      BY <1>1, <1>2, <1>4
    <3> HIDE DEF n
    <3>2. QED BY <1>2, <3>1
  <2> HIDE DEF e
  <2>3. s \in Rings(h) /\ Len(s) = RingCapacity
    <3>1. s \in Rings(h) /\ Len(s) = IF e <= n THEN n - e + 1 ELSE 0
      BY <1>1, <2>2, PartIs
    <3>2. QED BY <2>2, <3>1
  <2>4. \A k \in Nat : b.ring \in Seq(0..k) => s \in Seq(0..k)
    BY SMTT(30), <1>1, <2>2, PartIs
  <2> HIDE DEF s, n
  <2> DEFINE c == [b EXCEPT !.ring = s]
             d == [c EXCEPT !.moreOlder = TRUE]
  <2>5. c \in Buffers(h) /\ c.ring = s /\ c.newest = b.newest
    BY <2>3, BufferHas DEF Buffers
  <2>6. Trim(b) = d
    BY <2>1
  <2> HIDE DEF c
  <2>7. d \in Buffers(h) /\ d.ring = s /\ d.newest = b.newest
    BY <2>5 DEF Buffers
  <2> HIDE DEF d
  <2>8. d \in Trimmed(h)
    BY <1>2, <2>3, <2>7 DEF Trimmed
  <2>9. QED BY <2>4, <2>6, <2>7, <2>8
<1>5. QED BY <1>3, <1>4

\* The part of a slice that is merged is made of its rows.
LEMMA ClampIs ==
  ASSUME NEW h \in Nat, NEW r, NEW rows \in Seq(0..h)
  PROVE  ClampToAdjacentEnd(r, rows) \in Seq(0..h)
<1>1. Len(rows) \in Nat /\ MaxMerge \in Nat
  BY RingAssumption
<1>2. CASE Len(rows) <= MaxMerge
  BY <1>2 DEF ClampToAdjacentEnd
<1>3. CASE ~(Len(rows) <= MaxMerge)
  <2>1. \A i \in 1..Len(rows) : rows[i] \in 0..h
    OBVIOUS
  <2>2. SubSeq(rows, Len(rows) - MaxMerge + 1, Len(rows)) \in Seq(0..h)
    <3>1. \A i \in (Len(rows) - MaxMerge + 1)..Len(rows) : rows[i] \in 0..h
      BY <1>1, <1>3, <2>1
    <3>2. QED BY <1>1, <3>1, SubSeqProperties
  <2>3. SubSeq(rows, 1, MaxMerge) \in Seq(0..h)
    <3>1. \A i \in 1..MaxMerge : rows[i] \in 0..h
      BY <1>1, <1>3, <2>1
    <3>2. QED BY <1>1, <3>1, SubSeqProperties
  <2>4. QED BY <2>2, <2>3 DEF ClampToAdjacentEnd
<1>4. QED BY <1>2, <1>3

\* A buffer that a slice is merged into, or replaced by, is one again.
LEMMA SpliceIs ==
  ASSUME NEW h \in Nat, NEW b \in Buffers(h), NEW rows \in Seq(0..h)
  PROVE  Splice(b, rows) \in Trimmed(h)
<1> DEFINE slice == ClampToAdjacentEnd(b.ring, rows)
           r == Absorb(b.ring, slice, Range(slice))
<1>1. slice \in Seq(0..h) /\ b.ring \in Rings(h)
  BY ClampIs, BufferHas
<1>2. Splice(b, rows) = Trim([b EXCEPT !.ring = r])
  BY DEF Splice, Buffers
<1> HIDE DEF slice
<1>3. r \in Rings(h)
  BY <1>1, AbsorbIs
<1> HIDE DEF r
<1>4. [b EXCEPT !.ring = r] \in Buffers(h)
  BY <1>3, BufferHas
<1>5. QED BY <1>2, <1>4, TrimIs

LEMMA ReplaceIs ==
  ASSUME NEW h \in Nat, NEW b \in Buffers(h), NEW rows \in Rings(h)
  PROVE  Replace(b, rows) \in Trimmed(h)
<1>1. CASE Overlaps(b, rows)
  <2>1. rows \in Seq(0..h)
    BY RingHas
  <2>2. QED BY <1>1, <2>1, SpliceIs DEF Replace
<1>2. CASE ~Overlaps(b, rows)
  <2> DEFINE r == Absorb(rows, b.ring, Survivors(b.ring, rows))
  <2>1. b.ring \in Seq(0..h)
    BY BufferHas, RingHas
  <2>2. Replace(b, rows) = Trim([b EXCEPT !.ring = r])
    BY <1>2 DEF Replace, Buffers
  <2>3. r \in Rings(h)
    BY <2>1, AbsorbIs
  <2> HIDE DEF r
  <2>4. [b EXCEPT !.ring = r] \in Buffers(h)
    BY <2>3, BufferHas
  <2>5. QED BY <2>2, <2>4, TrimIs
<1>3. QED BY <1>1, <1>2

\* Recomputing the newest id makes it current.
LEMMA RecomputeIs ==
  ASSUME NEW h \in Nat, NEW b \in Trimmed(h)
  PROVE  RecomputeNewest(b) \in Current(h)
<1>1. b \in Buffers(h) /\ Len(b.ring) <= RingCapacity
  BY DEF Trimmed
<1>2. b.ring \in Seq(0..h)
  BY <1>1, BufferHas, RingHas
<1>3. NewestId(b.ring) \in 0..h /\ b.ring \in Seq(0..NewestId(b.ring))
  BY <1>2, NewestIs
<1> DEFINE n == NewestId(b.ring)
           c == [b EXCEPT !.newest = n]
<1>4. RecomputeNewest(b) = c
  BY DEF RecomputeNewest
<1>5. n \in 0..h /\ b.ring \in Seq(0..n)
  BY <1>3
<1> HIDE DEF n
<1>6. c \in Buffers(h) /\ c.ring = b.ring /\ c.newest = n
  BY <1>1, <1>5, BufferHas
<1> HIDE DEF c
<1>7. QED BY <1>1, <1>4, <1>5, <1>6 DEF Current, Trimmed

\* The frames such a server sends, and the requests it is asked
Slices == {"append", "replace", "shell"}
Pages == {"before", "around", "latest"}
Frames(h) ==
  [kind : {"snapshot"}, cursor : 0..h] \cup [kind : {"irc"}, row : 1..h]
  \cup [kind : {"backlog"}, mode : Slices, rows : Rising(h), moreOlder : BOOLEAN]
  \cup [kind : {"history"}, mode : Pages, rows : Rising(h), moreOlder : BOOLEAN]
Asked(h) == [mode : {"latest"}] \cup [mode : {"before"}, before : 1..h]
            \cup [mode : {"around"}, anchor : 1..h]

LEMMA FrameHas ==
  ASSUME NEW h, NEW f \in Frames(h)
  PROVE  /\ f.kind \in {"snapshot", "irc", "backlog", "history"}
         /\ f.kind = "snapshot" => f.cursor \in 0..h
         /\ f.kind = "irc" => f.row \in 1..h
         /\ f.kind = "backlog" => f.mode \in Slices
         /\ f.kind = "history" => f.mode \in Pages
         /\ f.kind \in {"backlog", "history"} => f.rows \in Rising(h) /\ f.moreOlder \in BOOLEAN
BY DEF Frames

\* A slice of the backlog leaves the buffer current.
LEMMA MergeBacklogIs ==
  ASSUME NEW h \in Nat, NEW b \in Trimmed(h), NEW f \in Frames(h), f.kind = "backlog"
  PROVE  MergeBacklog(b, f) \in Current(h)
<1> DEFINE t == [b EXCEPT !.moreOlder = f.moreOlder]
<1>1. f.mode \in Slices /\ f.rows \in Rings(h) /\ f.rows \in Seq(0..h) /\ f.moreOlder \in BOOLEAN
  BY FrameHas, SliceIsRing
<1>2. b \in Buffers(h) /\ Len(b.ring) <= RingCapacity
  BY DEF Trimmed
<1>3. t \in Buffers(h) /\ t.ring = b.ring
  BY <1>1, <1>2, BufferHas
<1>4. t \in Trimmed(h)
  BY <1>2, <1>3 DEF Trimmed
<1> HIDE DEF t
<1>5. ASSUME NEW c \in Trimmed(h) PROVE [c EXCEPT !.hydrated = TRUE] \in Trimmed(h)
  <2> DEFINE d == [c EXCEPT !.hydrated = TRUE]
  <2>1. c \in Buffers(h) /\ Len(c.ring) <= RingCapacity
    BY DEF Trimmed
  <2>2. d \in Buffers(h) /\ d.ring = c.ring
    BY <2>1, BufferHas
  <2> HIDE DEF d
  <2>3. d \in Trimmed(h)
    BY <2>1, <2>2 DEF Trimmed
  <2>4. QED BY <2>3 DEF d
<1>6. CASE f.mode = "shell"
  <2>1. MergeBacklog(b, f) = RecomputeNewest(t)
    BY <1>6 DEF MergeBacklog, t
  <2>2. QED BY <1>4, <2>1, RecomputeIs
<1>7. CASE f.mode = "append"
  <2> DEFINE c == Splice(t, f.rows)
  <2>1. MergeBacklog(b, f) = RecomputeNewest([c EXCEPT !.hydrated = TRUE])
    BY <1>7 DEF MergeBacklog, t
  <2>2. c \in Trimmed(h)
    BY <1>1, <1>3, SpliceIs
  <2> HIDE DEF c
  <2>3. QED BY <1>5, <2>1, <2>2, RecomputeIs
<1>8. CASE f.mode = "replace"
  <2> DEFINE c == Replace(t, f.rows)
  <2>1. MergeBacklog(b, f) = RecomputeNewest([c EXCEPT !.hydrated = TRUE])
    BY <1>8 DEF MergeBacklog, t
  <2>2. c \in Trimmed(h)
    BY <1>1, <1>3, ReplaceIs
  <2> HIDE DEF c
  <2>3. QED BY <1>5, <2>1, <2>2, RecomputeIs
<1>9. QED BY <1>1, <1>6, <1>7, <1>8 DEF Slices

\* So does a page of the history.
LEMMA MergeHistoryIs ==
  ASSUME NEW h \in Nat, NEW b \in Buffers(h), NEW f \in Frames(h), f.kind = "history"
  PROVE  MergeHistory(b, f) \in Current(h)
<1> DEFINE t == [b EXCEPT !.moreOlder = f.moreOlder]
<1>1. f.mode \in Pages /\ f.rows \in Rings(h) /\ f.rows \in Seq(0..h) /\ f.moreOlder \in BOOLEAN
  BY FrameHas, SliceIsRing
<1>2. t \in Buffers(h)
  BY <1>1, BufferHas
<1> HIDE DEF t
<1>3. CASE f.mode = "before"
  <2>1. MergeHistory(b, f) = RecomputeNewest(Splice(t, f.rows))
    BY <1>3 DEF MergeHistory, t
  <2>2. QED BY <1>1, <1>2, <2>1, SpliceIs, RecomputeIs
<1>4. CASE f.mode = "around"
  <2> DEFINE d == [t EXCEPT !.detached = TRUE]
  <2>1. MergeHistory(b, f) = RecomputeNewest(Replace(d, f.rows))
    BY <1>4 DEF MergeHistory, t
  <2>2. d \in Buffers(h)
    BY <1>2, BufferHas
  <2> HIDE DEF d
  <2>3. QED BY <1>1, <2>1, <2>2, ReplaceIs, RecomputeIs
<1>5. CASE f.mode = "latest"
  <2> DEFINE d == [t EXCEPT !.detached = FALSE]
             c == Replace(d, f.rows)
             e == [c EXCEPT !.hydrated = TRUE]
  <2>1. MergeHistory(b, f) = RecomputeNewest(e)
    BY <1>5 DEF MergeHistory, t
  <2>2. d \in Buffers(h)
    BY <1>2, BufferHas
  <2> HIDE DEF d
  <2>3. c \in Buffers(h) /\ Len(c.ring) <= RingCapacity
    BY <1>1, <2>2, ReplaceIs DEF Trimmed
  <2> HIDE DEF c
  <2>4. e \in Buffers(h) /\ e.ring = c.ring
    BY <2>3, BufferHas
  <2> HIDE DEF e
  <2>5. e \in Trimmed(h)
    BY <2>3, <2>4 DEF Trimmed
  <2>6. QED BY <2>1, <2>5, RecomputeIs
<1>6. QED BY <1>1, <1>3, <1>4, <1>5 DEF Pages

\* A live row that is no replay is put in its place, and the newest id keeps up.
LEMMA AddLiveIs ==
  ASSUME NEW h \in Nat, NEW b \in Current(h), NEW row \in 1..h, ~Replayed(b, row)
  PROVE  AddLive(b, row) \in Current(h)
<1>1. b \in Buffers(h) /\ Len(b.ring) <= RingCapacity /\ b.ring \in Seq(0..b.newest)
  BY DEF Current, Trimmed
<1>2. b.ring \in Rings(h) /\ b.newest \in 0..h
  BY <1>1, BufferHas
<1>3. row \notin Ids(b.ring)
  <2>1. CASE row > b.newest
    <3>1. \A x \in Ids(b.ring) : x \in 0..b.newest
      BY <1>1, RangeOfSeq DEF Ids
    <3>2. QED BY <1>2, <2>1, <3>1
  <2>2. CASE ~(row > b.newest)
    BY <2>2 DEF Replayed, Fresh
  <2>3. QED BY <2>1, <2>2
<1> DEFINE r == InsertOrdered(b.ring, row)
           n == IF row > b.newest THEN row ELSE b.newest
           c == [b EXCEPT !.ring = r]
           s == IF b.detached THEN b ELSE Trim(c)
<1>4. n \in 0..h /\ b.newest <= n /\ row <= n
  BY <1>2
<1>5. b.ring \in Seq(0..n) /\ b.ring \in Rings(n)
  <2>1. b.newest \in Nat /\ 0..b.newest \subseteq 0..n
    BY <1>2, <1>4
  <2>2. b.ring \in Seq(0..n)
    BY <1>1, <2>1, SeqMonotonic
  <2>3. QED BY <1>2, <2>2 DEF Rings
<1>6. r \in Rings(n) /\ r \in Rings(h)
  <2>1. n \in Nat /\ row \in 0..n /\ row \in 0..h
    BY <1>4
  <2> HIDE DEF n
  <2>2. QED BY <1>2, <1>3, <1>5, <2>1, InsertIs
<1>7. s \in Trimmed(h) /\ s.ring \in Seq(0..n) /\ s.newest = b.newest
  <2>1. CASE b.detached
    BY <1>1, <1>5, <2>1 DEF Trimmed
  <2>2. CASE ~b.detached
    <3> HIDE DEF r
    <3>1. c \in Buffers(h) /\ c.ring = r /\ c.newest = b.newest
      BY <1>1, <1>6, BufferHas DEF Buffers
    <3> HIDE DEF c
    <3>2. n \in Nat /\ r \in Seq(0..n)
      BY <1>4, <1>6, RingHas
    <3> HIDE DEF n
    <3>3. Trim(c) \in Trimmed(h) /\ Trim(c).ring \in Seq(0..n) /\ Trim(c).newest = b.newest
      BY <3>1, <3>2, TrimIs
    <3>4. QED BY <2>2, <3>3
  <2>3. QED BY <2>1, <2>2
<1>8. AddLive(b, row) = [s EXCEPT !.newest = n]
  <2>1. AddLive(b, row) = [s EXCEPT !.newest = IF row > s.newest THEN row ELSE s.newest]
    BY DEF AddLive
  <2>2. QED BY <1>7, <2>1
<1> HIDE DEF s, n
<1>9. s \in Buffers(h) /\ Len(s.ring) <= RingCapacity
  BY <1>7 DEF Trimmed
<1> DEFINE d == [s EXCEPT !.newest = n]
<1>10. d \in Buffers(h) /\ d.ring = s.ring /\ d.newest = n
  BY <1>4, <1>9, BufferHas
<1> HIDE DEF d
<1>11. d \in Current(h)
  BY <1>7, <1>9, <1>10 DEF Current, Trimmed
<1>12. QED BY <1>8, <1>11 DEF d

--------------------------------------------------------------------------------
(* The server *)

\* A run of the log is a slice.
LEMMA RunIs ==
  ASSUME NEW h \in Nat, NEW from \in Nat, from >= 1, NEW to \in 0..h
  PROVE  Slice(from, to) \in Rising(h)
<1> DEFINE n == IF to < from THEN 0 ELSE to - from + 1
           s == [i \in 1..n |-> from + i - 1]
<1>1. n \in Nat /\ \A i \in 1..n : from + i - 1 \in 1..h
  OBVIOUS
<1>2. Slice(from, to) = s
  BY DEF Slice
<1> HIDE DEF n
<1>3. s \in [1..n -> 1..h]
  BY <1>1
<1>4. s \in Seq(1..h) /\ Len(s) = n
  BY <1>1, <1>3, SeqDef
<1>5. \A i, j \in 1..n : i < j => s[i] < s[j]
  BY <1>1
<1>6. QED BY <1>2, <1>4, <1>5 DEF Rising

LEMMA EndingIs ==
  ASSUME NEW h \in Nat, NEW to \in 0..h, NEW n \in Nat, n >= 1
  PROVE  Ending(to, n) \in Rising(h)
<1> DEFINE from == IF to > n THEN to - n + 1 ELSE 1
<1>1. from \in Nat /\ from >= 1
  OBVIOUS
<1>2. Ending(to, n) = Slice(from, to)
  BY DEF Ending
<1> HIDE DEF from
<1>3. QED BY <1>1, <1>2, RunIs

\* What a server sends at the start of a session, or in answer, is frames of its log.
LEMMA BurstsAre ==
  ASSUME head \in Nat, NEW since \in 0..head, NEW burst \in Bursts(since)
  PROVE  burst \in Seq(Frames(head))
<1> DEFINE newest == Ending(head, HydrateLimit)
           gap == Slice(since + 1, head)
<1>1. newest \in Rising(head) /\ gap \in Rising(head) /\ <<>> \in Rising(head)
  <2>1. newest \in Rising(head)
    BY LimitAssumption, EndingIs
  <2>2. gap \in Rising(head)
    BY RunIs
  <2>3. <<>> \in Rising(head)
    BY DEF Rising
  <2>4. QED BY <2>1, <2>2, <2>3
<1>2. \A mode \in Slices, rows \in Rising(head), more \in BOOLEAN :
         Backlog(mode, rows, more) \in Frames(head)
  BY DEF Backlog, Frames
<1>3. Snapshot \in Frames(head)
  BY DEF Snapshot, Frames
<1> DEFINE m1 == head > 0
           m2 == newest[1] > 1
<1>4. m1 \in BOOLEAN /\ m2 \in BOOLEAN
  OBVIOUS
<1>5. \/ burst = <<Snapshot, Backlog("shell", <<>>, m1)>>
      \/ burst = <<Backlog("shell", <<>>, TRUE)>>
      \/ burst = <<Backlog("append", gap, TRUE)>>
      \/ burst = <<Backlog("replace", newest, m2)>>
  BY DEF Bursts
<1> HIDE DEF newest, gap, m1, m2
<1> DEFINE a == Backlog("shell", <<>>, m1)
           b == Backlog("shell", <<>>, TRUE)
           c == Backlog("append", gap, TRUE)
           d == Backlog("replace", newest, m2)
<1>6. /\ a \in Frames(head) /\ b \in Frames(head)
      /\ c \in Frames(head) /\ d \in Frames(head)
  BY <1>1, <1>2, <1>4 DEF Slices
<1> HIDE DEF a, b, c, d
<1>7. /\ <<Snapshot, a>> \in Seq(Frames(head)) /\ <<b>> \in Seq(Frames(head))
      /\ <<c>> \in Seq(Frames(head)) /\ <<d>> \in Seq(Frames(head))
  BY <1>3, <1>6
<1>8. QED BY <1>5, <1>7 DEF a, b, c, d

LEMMA AnswersAre ==
  ASSUME head \in Nat, NEW request \in Asked(head), NEW reply \in Answers(request)
  PROVE  reply \in Frames(head)
<1>1. ASSUME NEW mode \in Pages, NEW rows \in Rising(head)
      PROVE  History(mode, rows) \in Frames(head)
  <2> DEFINE more == rows # <<>> /\ rows[1] > 1
  <2>1. more \in BOOLEAN
    OBVIOUS
  <2>2. History(mode, rows) = [kind |-> "history", mode |-> mode, rows |-> rows, moreOlder |-> more]
    BY DEF History
  <2> HIDE DEF more
  <2>3. QED BY <2>1, <2>2 DEF Frames
<1>2. CASE request.mode = "latest"
  <2>1. Ending(head, HydrateLimit) \in Rising(head)
    BY LimitAssumption, EndingIs
  <2>2. reply = History("latest", Ending(head, HydrateLimit))
    BY <1>2 DEF Answers
  <2>3. QED BY <1>1, <2>1, <2>2 DEF Pages
<1>3. CASE request.mode = "before"
  <2>1. request.before \in 1..head
    BY <1>3 DEF Asked
  <2> DEFINE to == request.before - 1
  <2>2. to \in 0..head
    BY <2>1
  <2>3. PICK n \in PageSizes : reply = History("before", Ending(to, n))
    BY <1>3 DEF Answers
  <2>4. n \in Nat /\ n >= 1
    BY LimitAssumption
  <2> HIDE DEF to
  <2>5. Ending(to, n) \in Rising(head)
    BY <2>2, <2>4, EndingIs
  <2>6. QED BY <1>1, <2>3, <2>5 DEF Pages
<1>4. CASE request.mode = "around"
  <2>1. request.anchor \in 1..head
    BY <1>4 DEF Asked
  <2> DEFINE from == Higher(1, request.anchor - AroundReach)
             ends == {head, request.anchor + AroundReach}
             to == Min(ends)
  <2>2. from \in Nat /\ from >= 1
    BY <2>1, LimitAssumption DEF Higher
  <2>3. to \in 0..head
    <3>1. ends \in SUBSET Nat /\ ends # {} /\ head \in ends
      BY <2>1, LimitAssumption
    <3> HIDE DEF ends
    <3>2. to \in ends /\ to <= head
      BY <3>1, Least
    <3>3. to \in Nat
      BY <3>1, <3>2
    <3> HIDE DEF to
    <3>4. QED BY <3>2, <3>3
  <2>4. reply = History("around", Slice(from, to))
    BY <1>4 DEF Answers
  <2> HIDE DEF from, to
  <2>5. Slice(from, to) \in Rising(head)
    BY <2>2, <2>3, RunIs
  <2>6. QED BY <1>1, <2>4, <2>5 DEF Pages
<1>5. QED BY <1>2, <1>3, <1>4 DEF Asked

\* Nothing that was so of a shorter log is not so of a longer one.
LEMMA LogGrows ==
  ASSUME NEW h \in Nat, NEW n \in Nat, h <= n
  PROVE  /\ Frames(h) \subseteq Frames(n) /\ Asked(h) \subseteq Asked(n)
         /\ Current(h) \subseteq Current(n)
<1>1. Rings(h) \subseteq Rings(n) /\ Rising(h) \subseteq Rising(n)
  <2>1. 0..h \subseteq 0..n /\ 1..h \subseteq 1..n
    OBVIOUS
  <2>2. \A r \in Seq(0..h) : r \in Seq(0..n)
    BY <2>1, SeqMonotonic
  <2>3. \A r \in Seq(1..h) : r \in Seq(1..n)
    BY <2>1, SeqMonotonic
  <2>4. QED BY <2>2, <2>3 DEF Rings, Rising
<1>2. Frames(h) \subseteq Frames(n)
  BY <1>1 DEF Frames
<1>3. Asked(h) \subseteq Asked(n)
  BY DEF Asked
<1>4. Buffers(h) \subseteq Buffers(n)
  BY <1>1 DEF Buffers
<1>5. Current(h) \subseteq Current(n)
  BY <1>4 DEF Current, Trimmed
<1>6. QED BY <1>2, <1>3, <1>5

--------------------------------------------------------------------------------
(* The inductive invariant *)

\* Nothing the client holds, and nothing on its way to it or asked for, is above the
\* server's newest row, and the newest id is up to date with the ring.
Stock ==
  /\ head \in 0..MaxRows
  /\ buf \in Current(head)
  /\ cursor \in 0..head
  /\ frames \in Seq(Frames(head))
  /\ requests \in Seq(Asked(head)) /\ Len(requests) <= MaxRequests

Flags == known \in BOOLEAN /\ paging \in BOOLEAN /\ up \in BOOLEAN

Notes ==
  /\ effects \in [Row -> Nat] /\ spoiled \subseteq Hazards
  /\ locals \in 0..MaxLocal /\ jumps \in 0..MaxJumps /\ drops \in 0..MaxDrops

RingInv == Stock /\ Flags /\ Notes

\* The head of the queue is a frame, and what remains is a queue.
LEMMA QueueHas ==
  ASSUME Stock
  PROVE  /\ head \in Nat /\ buf \in Buffers(head) /\ buf \in Trimmed(head)
         /\ buf.ring \in Rings(head) /\ buf.ring \in Seq(0..head)
         /\ frames # <<>> => Head(frames) \in Frames(head) /\ Tail(frames) \in Seq(Frames(head))
         /\ requests # <<>> => /\ Head(requests) \in Asked(head) /\ Tail(requests) \in Seq(Asked(head))
                               /\ Len(Tail(requests)) = Len(requests) - 1
<1>1. head \in Nat /\ buf \in Buffers(head) /\ buf \in Trimmed(head)
  BY BoundAssumption DEF Stock, Current, Trimmed
<1>2. buf.ring \in Rings(head) /\ buf.ring \in Seq(0..head)
  BY <1>1, BufferHas, RingHas
<1>3. frames \in Seq(Frames(head)) /\ requests \in Seq(Asked(head))
  BY DEF Stock
<1>4. frames # <<>> => Head(frames) \in Frames(head) /\ Tail(frames) \in Seq(Frames(head))
  BY <1>3, HeadTailProperties
<1>5. requests # <<>> => /\ Head(requests) \in Asked(head) /\ Tail(requests) \in Seq(Asked(head))
                         /\ Len(Tail(requests)) = Len(requests) - 1
  BY <1>3, HeadTailProperties
<1>6. QED BY <1>1, <1>2, <1>4, <1>5

LEMMA HigherIs ==
  ASSUME NEW n \in Nat, NEW a \in 0..n, NEW b \in 0..n PROVE Higher(a, b) \in 0..n
BY DEF Higher

\* Applying a slice
LEMMA ApplySliceKeeps ==
  ASSUME RingInv, Takes, ApplySlice(Head(frames)), Head(frames).kind \in {"backlog", "history"},
         UNCHANGED <<server, counts>>
  PROVE  RingInv'
<1>1. PICK h : h = head
  OBVIOUS
<1>2. PICK f : f = Head(frames)
  OBVIOUS
<1>3. PICK b : b = IF f.kind = "backlog" THEN MergeBacklog(buf, f) ELSE MergeHistory(buf, f)
  OBVIOUS
<1>4. /\ h \in Nat /\ h \in 0..MaxRows /\ head' = h /\ requests' = requests /\ up' = up
      /\ locals' = locals /\ jumps' = jumps /\ drops' = drops /\ effects' = effects
      /\ known' = TRUE /\ paging' = FALSE
      /\ requests \in Seq(Asked(h)) /\ Len(requests) <= MaxRequests
  BY <1>1, QueueHas DEF RingInv, Stock, ApplySlice, server, counts
<1>5. f \in Frames(h) /\ f.kind \in {"backlog", "history"} /\ frames' \in Seq(Frames(h))
  BY <1>1, <1>2, QueueHas DEF RingInv, Takes
<1>6. b \in Current(h)
  <2>1. buf \in Trimmed(h) /\ buf \in Buffers(h)
    BY <1>1, QueueHas DEF RingInv
  <2>2. CASE f.kind = "backlog"
    BY <1>3, <1>4, <1>5, <2>1, <2>2, MergeBacklogIs
  <2>3. CASE f.kind = "history"
    <3>1. b = MergeHistory(buf, f)
      BY <1>3, <2>3
    <3>2. QED BY <1>4, <1>5, <2>1, <2>3, <3>1, MergeHistoryIs
  <2>4. QED BY <1>5, <2>2, <2>3
<1>7. buf' = b /\ spoiled' = spoiled \cup StruckBy(f, b) /\ cursor' = Higher(cursor, NewestId(f.rows))
  BY <1>2, <1>3 DEF ApplySlice
<1>8. cursor' \in 0..h
  <2>1. f.rows \in Seq(0..h)
    BY <1>4, <1>5, FrameHas, SliceIsRing
  <2>2. NewestId(f.rows) \in 0..h /\ cursor \in 0..h
    BY <1>1, <1>4, <2>1, NewestIs DEF RingInv, Stock
  <2>3. QED BY <1>4, <1>7, <2>2, HigherIs
<1>9. spoiled' \subseteq Hazards
  BY <1>7 DEF RingInv, Notes, StruckBy
<1>10. Stock'
  BY <1>4, <1>5, <1>6, <1>7, <1>8 DEF Stock
<1>11. Flags' /\ Notes'
  BY <1>4, <1>9 DEF RingInv, Flags, Notes
<1>12. QED BY <1>10, <1>11 DEF RingInv

\* Applying a live row
LEMMA ApplyLiveKeeps ==
  ASSUME RingInv, Takes, ApplyLive(Head(frames).row), Head(frames).kind = "irc",
         UNCHANGED <<server, counts>>
  PROVE  RingInv'
<1>1. PICK h : h = head
  OBVIOUS
<1>2. PICK row : row = Head(frames).row
  OBVIOUS
<1>3. /\ h \in Nat /\ h \in 0..MaxRows /\ head' = h /\ requests' = requests /\ up' = up
      /\ locals' = locals /\ jumps' = jumps /\ drops' = drops /\ known' = TRUE
      /\ requests \in Seq(Asked(h)) /\ Len(requests) <= MaxRequests
  BY <1>1, QueueHas DEF RingInv, Stock, ApplyLive, server, counts
<1>4. row \in 1..h /\ frames' \in Seq(Frames(h))
  BY <1>1, <1>2, QueueHas, FrameHas DEF RingInv, Takes
<1>5. buf \in Current(h) /\ cursor \in 0..h
  BY <1>1 DEF RingInv, Stock
<1>6. /\ buf' \in Current(h) /\ cursor' \in 0..h /\ paging' \in BOOLEAN
      /\ effects' \in [Row -> Nat] /\ spoiled' \subseteq Hazards
  <2>1. CASE Replayed(buf, row)
    <3>1. UNCHANGED <<buf, cursor, paging, effects, spoiled>>
      BY <1>2, <2>1 DEF ApplyLive
    <3>2. QED BY <1>5, <3>1 DEF RingInv, Flags, Notes
  <2>2. CASE ~Replayed(buf, row)
    <3>1. /\ cursor' = Higher(cursor, row) /\ buf' = AddLive(buf, row) /\ paging' = FALSE
          /\ effects' = effects \/ effects' = [effects EXCEPT ![row] = effects[row] + 1]
          /\ spoiled' = spoiled \cup {"late"} \/ spoiled' = spoiled
      BY <1>2, <2>2 DEF ApplyLive
    <3>2. buf' \in Current(h)
      BY <1>3, <1>4, <1>5, <2>2, <3>1, AddLiveIs
    <3>3. cursor' \in 0..h
      BY <1>3, <1>4, <1>5, <3>1, HigherIs
    <3>4. effects' \in [Row -> Nat]
      BY <3>1 DEF RingInv, Notes
    <3>5. spoiled' \subseteq Hazards
      BY <3>1 DEF RingInv, Notes, Hazards
    <3>6. QED BY <3>1, <3>2, <3>3, <3>4, <3>5
  <2>3. QED BY <2>1, <2>2
<1>7. Stock'
  BY <1>3, <1>4, <1>6 DEF Stock
<1>8. Flags' /\ Notes'
  BY <1>3, <1>6 DEF RingInv, Flags, Notes
<1>9. QED BY <1>7, <1>8 DEF RingInv

LEMMA ApplyFrameKeeps ==
  ASSUME RingInv, ApplyFrame PROVE RingInv'
<1>1. Takes /\ UNCHANGED <<server, counts>>
  BY DEF ApplyFrame
<1>2. CASE Head(frames).kind = "snapshot" /\ ApplySnapshot(Head(frames))
  <2>1. PICK h : h = head
    OBVIOUS
  <2>2. Head(frames) \in Frames(h) /\ frames' \in Seq(Frames(h)) /\ h \in Nat
    BY <1>1, <2>1, QueueHas DEF RingInv, Takes
  <2>3. Head(frames).cursor \in 0..h
    BY <1>2, <2>2, FrameHas
  <2>4. cursor' = Higher(cursor, Head(frames).cursor) /\ cursor \in 0..h
    BY <1>2, <2>1 DEF ApplySnapshot, RingInv, Stock
  <2>5. cursor' \in 0..h
    BY <2>2, <2>3, <2>4, HigherIs
  <2>6. /\ head' = head /\ requests' = requests /\ up' = up
        /\ locals' = locals /\ jumps' = jumps /\ drops' = drops
        /\ buf' = buf /\ known' = known /\ paging' = paging
        /\ effects' = effects /\ (spoiled' = spoiled \/ spoiled' = spoiled \cup {"skip"})
    BY <1>1, <1>2 DEF ApplySnapshot, server, counts
  <2>7. Stock'
    BY <2>1, <2>2, <2>5, <2>6 DEF RingInv, Stock
  <2>8. Flags' /\ Notes'
    BY <2>6 DEF RingInv, Flags, Notes, Hazards
  <2>9. QED BY <2>7, <2>8 DEF RingInv
<1>3. CASE Head(frames).kind \in {"backlog", "history"} /\ ApplySlice(Head(frames))
  BY <1>1, <1>3, ApplySliceKeeps
<1>4. CASE Head(frames).kind = "irc" /\ ApplyLive(Head(frames).row)
  BY <1>1, <1>4, ApplyLiveKeeps
<1>5. QED BY <1>2, <1>3, <1>4 DEF ApplyFrame

\* What is asked for joins the queue, which stays within its bound.
LEMMA AskKeeps ==
  ASSUME Stock, NEW asked \in Seq(Asked(head)), Ask(asked)
  PROVE  requests' \in Seq(Asked(head)) /\ Len(requests') <= MaxRequests
<1> DEFINE pages == {i \in DOMAIN frames : frames[i].kind = "history"}
<1>1. /\ frames \in Seq(Frames(head)) /\ DOMAIN frames = 1..Len(frames) /\ Len(frames) \in Nat
      /\ requests \in Seq(Asked(head))
  BY LenProperties DEF Stock
<1>2. pages \in SUBSET (1..Len(frames))
  BY <1>1
<1>3. Cardinality(pages) \in Nat
  <2> HIDE DEF pages
  <2>1. IsFiniteSet(1..Len(frames))
    BY <1>1, FS_Interval
  <2>2. QED BY <1>2, <2>1, FS_Subset, FS_CardinalityType
<1>4. /\ Len(requests) + Cardinality(pages) + Len(asked) <= MaxRequests
      /\ requests' = requests \o asked
  BY DEF Ask, Outstanding
<1> HIDE DEF pages
<1>5. requests \o asked \in Seq(Asked(head)) /\ Len(requests \o asked) = Len(requests) + Len(asked)
  BY Zenon, <1>1, ConcatProperties
<1>6. Len(requests) \in Nat /\ Len(asked) \in Nat /\ MaxRequests \in Nat
  BY <1>1, BoundAssumption
<1>7. QED BY <1>3, <1>4, <1>5, <1>6

LEMMA HydrationIs == Hydration \in Seq(Asked(head))
<1>1. Latest \in Asked(head)
  BY DEF Latest, Asked
<1>2. <<Latest>> \in Seq(Asked(head)) /\ <<>> \in Seq(Asked(head))
  BY <1>1
<1>3. QED BY <1>2 DEF Hydration

\* What the user does to the window
LEMMA ActivateKeeps == ASSUME RingInv, Activate PROVE RingInv'
<1>1. requests' \in Seq(Asked(head)) /\ Len(requests') <= MaxRequests
  BY AskKeeps, HydrationIs DEF RingInv, Activate
<1>2. /\ buf' = buf /\ known' = known /\ cursor' = cursor /\ head' = head /\ up' = up
      /\ frames' = frames /\ effects' = effects /\ spoiled' = spoiled /\ paging' = FALSE
      /\ locals' = locals /\ jumps' = jumps /\ drops' = drops
  BY DEF Activate, counts
<1>3. Stock' /\ Flags' /\ Notes'
  BY <1>1, <1>2 DEF RingInv, Stock, Flags, Notes
<1>4. QED BY <1>3 DEF RingInv

LEMMA ScrollToTopKeeps == ASSUME RingInv, ScrollToTop PROVE RingInv'
<1> DEFINE asked == <<Before(OldestId(buf.ring))>>
<1>1. asked \in Seq(Asked(head))
  <2>1. OldestId(buf.ring) \in 0..head /\ OldestId(buf.ring) # 0
    BY QueueHas, OldestIs DEF RingInv, ScrollToTop, NoId
  <2>2. Before(OldestId(buf.ring)) \in Asked(head)
    BY <2>1, QueueHas DEF Before, Asked, RingInv
  <2>3. QED BY <2>2
<1>2. Ask(asked)
  BY DEF ScrollToTop
<1> HIDE DEF asked
<1>3. requests' \in Seq(Asked(head)) /\ Len(requests') <= MaxRequests
  BY <1>1, <1>2, AskKeeps DEF RingInv
<1>4. /\ buf' = buf /\ known' = known /\ cursor' = cursor /\ head' = head /\ up' = up
      /\ frames' = frames /\ effects' = effects /\ spoiled' = spoiled /\ paging' = TRUE
      /\ locals' = locals /\ jumps' = jumps /\ drops' = drops
  BY DEF ScrollToTop, counts
<1>5. Stock' /\ Flags' /\ Notes'
  BY <1>3, <1>4 DEF RingInv, Stock, Flags, Notes
<1>6. QED BY <1>5 DEF RingInv

LEMMA OpenResultKeeps == ASSUME RingInv, OpenResult PROVE RingInv'
<1>1. PICK row \in 1..head : Ask(Append(Hydration, Around(row)))
  BY DEF OpenResult
<1>2. Around(row) \in Asked(head)
  BY DEF Around, Asked
<1>3. Append(Hydration, Around(row)) \in Seq(Asked(head))
  BY <1>2, HydrationIs, AppendProperties
<1>4. requests' \in Seq(Asked(head)) /\ Len(requests') <= MaxRequests
  BY <1>1, <1>3, AskKeeps DEF RingInv
<1>5. /\ buf' = buf /\ known' = known /\ cursor' = cursor /\ head' = head /\ up' = up
      /\ frames' = frames /\ effects' = effects /\ spoiled' = spoiled /\ paging' = FALSE
      /\ locals' = locals /\ jumps < MaxJumps /\ jumps' = jumps + 1 /\ drops' = drops
  BY DEF OpenResult
<1>6. jumps' \in 0..MaxJumps
  BY <1>5, BoundAssumption DEF RingInv, Notes
<1>7. Stock' /\ Flags' /\ Notes'
  BY <1>4, <1>5, <1>6 DEF RingInv, Stock, Flags, Notes
<1>8. QED BY <1>7 DEF RingInv

LEMMA ReturnKeeps == ASSUME RingInv, ReturnToPresent PROVE RingInv'
<1>1. <<Latest>> \in Seq(Asked(head)) /\ Ask(<<Latest>>)
  BY DEF Latest, Asked, ReturnToPresent
<1>2. requests' \in Seq(Asked(head)) /\ Len(requests') <= MaxRequests
  BY <1>1, AskKeeps DEF RingInv
<1>3. /\ buf' = buf /\ known' = known /\ cursor' = cursor /\ head' = head /\ up' = up
      /\ frames' = frames /\ effects' = effects /\ spoiled' = spoiled /\ paging' = paging
      /\ locals' = locals /\ jumps' = jumps /\ drops' = drops
  BY DEF ReturnToPresent, counts
<1>4. Stock' /\ Flags' /\ Notes'
  BY <1>2, <1>3 DEF RingInv, Stock, Flags, Notes
<1>5. QED BY <1>4 DEF RingInv

LEMMA InjectKeeps == ASSUME RingInv, InjectLine PROVE RingInv'
<1>1. PICK h : h = head
  OBVIOUS
<1>2. PICK b : b = buf
  OBVIOUS
<1>3. h \in Nat /\ b \in Buffers(h) /\ b.ring \in Rings(h) /\ b.ring \in Seq(0..b.newest) /\ b.newest \in Nat
  BY <1>1, <1>2, QueueHas, BufferHas DEF RingInv, Stock, Current
<1> DEFINE r == Append(b.ring, 0)
           c == [b EXCEPT !.ring = r]
<1>4. r \in Rings(h) /\ r \in Seq(0..b.newest)
  <2>1. 0 \in 0..h /\ 0 \in 0..b.newest
    BY <1>3
  <2>2. r \in Rings(h)
    BY <1>3, <2>1, AppendIs
  <2>3. r \in Seq(0..b.newest)
    BY <1>3, <2>1, AppendProperties
  <2>4. QED BY <2>2, <2>3
<1>5. Inject(b) = Trim(c)
  BY DEF Inject, LocalRow
<1> HIDE DEF r
<1>6. c \in Buffers(h) /\ c.ring = r /\ c.newest = b.newest
  BY <1>3, <1>4, BufferHas DEF Buffers
<1> HIDE DEF c
<1>7. Trim(c) \in Current(h)
  <2> DEFINE k == b.newest
             d == Trim(c)
  <2>1. k \in Nat /\ c.ring \in Seq(0..k)
    BY <1>3, <1>4, <1>6
  <2> HIDE DEF k
  <2>2. d \in Trimmed(h) /\ d.newest = c.newest /\ d.ring \in Seq(0..k)
    BY <1>3, <1>6, <2>1, TrimIs
  <2> HIDE DEF d
  <2>3. d.newest = k
    BY <1>6, <2>2 DEF k
  <2>4. d \in Current(h)
    BY <2>2, <2>3 DEF Current
  <2>5. QED BY <2>4 DEF d
<1>8. buf' \in Current(h)
  BY <1>2, <1>5, <1>7 DEF InjectLine
<1>9. /\ known' = known /\ cursor' = cursor /\ head' = head /\ up' = up /\ requests' = requests
      /\ frames' = frames /\ effects' = effects /\ paging' = FALSE
      /\ locals < MaxLocal /\ locals' = locals + 1 /\ jumps' = jumps /\ drops' = drops
      /\ spoiled' = spoiled \/ spoiled' = spoiled \cup {"late"}
  BY DEF InjectLine, server
<1>10. locals' \in 0..MaxLocal /\ spoiled' \subseteq Hazards
  <2>1. locals' \in 0..MaxLocal
    BY <1>9, BoundAssumption DEF RingInv, Notes
  <2>2. spoiled' \subseteq Hazards
    BY <1>9 DEF RingInv, Notes, Hazards
  <2>3. QED BY <2>1, <2>2
<1>11. Stock' /\ Flags' /\ Notes'
  BY <1>1, <1>8, <1>9, <1>10 DEF RingInv, Stock, Flags, Notes
<1>12. QED BY <1>11 DEF RingInv

\* What happens at the server, and on the way to it
LEMMA PostKeeps == ASSUME RingInv, Post PROVE RingInv'
<1>1. PICK h : h = head
  OBVIOUS
<1>2. h \in Nat /\ h < MaxRows /\ h + 1 \in 0..MaxRows /\ head' = h + 1 /\ MaxRows \in Nat
  BY <1>1, BoundAssumption DEF RingInv, Stock, Post
<1>3. /\ Frames(h) \subseteq Frames(h + 1) /\ Asked(h) \subseteq Asked(h + 1)
      /\ Current(h) \subseteq Current(h + 1)
  <2>1. h + 1 \in Nat /\ h <= h + 1
    BY <1>2
  <2>2. QED BY <1>2, <2>1, LogGrows
<1>4. /\ buf' = buf /\ known' = known /\ cursor' = cursor /\ up' = up /\ requests' = requests
      /\ effects' = effects /\ spoiled' = spoiled /\ paging' = paging
      /\ locals' = locals /\ jumps' = jumps /\ drops' = drops
  BY DEF Post, counts
<1>5. frames \in Seq(Frames(h + 1)) /\ requests \in Seq(Asked(h + 1))
  BY <1>1, <1>3, SeqMonotonic DEF RingInv, Stock
<1>6. Live(h + 1) \in Frames(h + 1)
  BY <1>2 DEF Live, Frames
<1>7. Append(frames, Live(h + 1)) \in Seq(Frames(h + 1))
  BY <1>5, <1>6, AppendProperties
<1>8. frames' = frames \/ frames' = Append(frames, Live(h + 1))
  BY <1>1 DEF Post
<1>9. frames' \in Seq(Frames(h + 1))
  BY <1>5, <1>7, <1>8
<1>10. buf \in Current(h + 1) /\ cursor \in 0..(h + 1) /\ Len(requests) <= MaxRequests
  BY <1>1, <1>2, <1>3 DEF RingInv, Stock
<1> DEFINE k == h + 1
<1>11. k \in 0..MaxRows /\ head' = k
  BY <1>2
<1>12. /\ buf' \in Current(k) /\ cursor' \in 0..k /\ frames' \in Seq(Frames(k))
       /\ requests' \in Seq(Asked(k)) /\ Len(requests') <= MaxRequests
  BY <1>4, <1>5, <1>9, <1>10
<1> HIDE DEF k
<1>13. Stock'
  BY <1>11, <1>12 DEF Stock
<1>14. Flags' /\ Notes'
  BY <1>4 DEF RingInv, Flags, Notes
<1>15. QED BY <1>13, <1>14 DEF RingInv

LEMMA ConnectKeeps == ASSUME RingInv, Connect PROVE RingInv'
<1>1. /\ buf' = buf /\ known' = known /\ cursor' = cursor /\ head' = head /\ up' = TRUE
      /\ requests' = requests /\ effects' = effects /\ spoiled' = spoiled /\ paging' = paging
      /\ locals' = locals /\ jumps' = jumps /\ drops' = drops
  BY DEF Connect, counts
<1>2. PICK burst \in Bursts(cursor) :
         \/ frames' = frames \o burst
         \/ cursor < head /\ frames' = frames \o <<Live(head)>> \o burst
  BY DEF Connect
<1>3. head \in Nat /\ cursor \in 0..head
  BY QueueHas DEF RingInv, Stock
<1>4. burst \in Seq(Frames(head)) /\ frames \in Seq(Frames(head))
  BY <1>3, BurstsAre DEF RingInv, Stock
<1>5. frames \o burst \in Seq(Frames(head))
  BY <1>4, ConcatProperties
<1>6. cursor < head => frames \o <<Live(head)>> \o burst \in Seq(Frames(head))
  <2>1. SUFFICES ASSUME cursor < head PROVE frames \o <<Live(head)>> \o burst \in Seq(Frames(head))
    OBVIOUS
  <2>2. Live(head) \in Frames(head)
    BY <1>3, <2>1 DEF Live, Frames
  <2> DEFINE one == <<Live(head)>>
  <2>3. one \in Seq(Frames(head))
    BY <2>2
  <2> HIDE DEF one
  <2>4. frames \o one \in Seq(Frames(head))
    BY Zenon, <1>4, <2>3, ConcatProperties
  <2>5. (frames \o one) \o burst \in Seq(Frames(head))
    BY Zenon, <1>4, <2>4, ConcatProperties
  <2>6. QED BY <2>5 DEF one
<1>7. frames' \in Seq(Frames(head))
  BY <1>2, <1>5, <1>6
<1>8. Stock' /\ Flags' /\ Notes'
  BY <1>1, <1>7 DEF RingInv, Stock, Flags, Notes
<1>9. QED BY <1>8 DEF RingInv

LEMMA AnswerKeeps == ASSUME RingInv, Answer PROVE RingInv'
<1>1. /\ buf' = buf /\ known' = known /\ cursor' = cursor /\ head' = head /\ up' = up
      /\ effects' = effects /\ spoiled' = spoiled /\ paging' = paging
      /\ locals' = locals /\ jumps' = jumps /\ drops' = drops
      /\ requests # <<>> /\ requests' = Tail(requests)
  BY DEF Answer, counts
<1>2. PICK reply \in Answers(Head(requests)) : frames' = Append(frames, reply)
  BY DEF Answer
<1>3. /\ head \in Nat /\ Head(requests) \in Asked(head) /\ Tail(requests) \in Seq(Asked(head))
      /\ Len(Tail(requests)) = Len(requests) - 1
  BY <1>1, QueueHas DEF RingInv
<1>4. reply \in Frames(head)
  BY <1>3, AnswersAre
<1>5. frames' \in Seq(Frames(head))
  BY <1>2, <1>4, AppendProperties DEF RingInv, Stock
<1>6. Len(Tail(requests)) <= MaxRequests
  BY <1>3, LenProperties, BoundAssumption DEF RingInv, Stock
<1>7. Stock' /\ Flags' /\ Notes'
  BY <1>1, <1>3, <1>5, <1>6 DEF RingInv, Stock, Flags, Notes
<1>8. QED BY <1>7 DEF RingInv

LEMMA LoseKeeps == ASSUME RingInv, Lose PROVE RingInv'
<1>1. /\ buf' = buf /\ known' = known /\ cursor' = cursor /\ head' = head /\ up' = FALSE
      /\ effects' = effects /\ paging' = paging /\ locals' = locals /\ jumps' = jumps
      /\ drops < MaxDrops /\ drops' = drops + 1
  BY DEF Lose
<1>2. PICK k \in 0..Len(frames) :
        /\ frames' = SubSeq(frames, 1, k)
        /\ spoiled' = IF \E i \in (k + 1)..Len(frames) : frames[i].kind = "backlog"
                      THEN spoiled \cup {"cut"} ELSE spoiled
  BY DEF Lose
<1>3. PICK n \in 0..Len(requests) : requests' = SubSeq(requests, n + 1, Len(requests))
  BY DEF Lose
<1>4. /\ frames \in Seq(Frames(head)) /\ Len(frames) \in Nat
      /\ requests \in Seq(Asked(head)) /\ Len(requests) \in Nat /\ Len(requests) <= MaxRequests
  BY LenProperties DEF RingInv, Stock
<1>5. frames' \in Seq(Frames(head))
  <2>1. \A i \in 1..k : frames[i] \in Frames(head)
    BY <1>4
  <2>2. QED BY <1>2, <1>4, <2>1, SubSeqProperties
<1>6. requests' \in Seq(Asked(head)) /\ Len(requests') <= MaxRequests
  <2> DEFINE m == Len(requests)
             s == SubSeq(requests, n + 1, m)
  <2>1. \A i \in (n + 1)..m : requests[i] \in Asked(head)
    BY <1>4
  <2>2. m \in Nat /\ n + 1 \in Int /\ m \in Int
    BY <1>4
  <2>3. s \in Seq(Asked(head)) /\ Len(s) = IF n + 1 <= m THEN m - (n + 1) + 1 ELSE 0
    <3> HIDE DEF m
    <3>1. QED BY <2>1, <2>2, SubSeqProperties
  <2>4. Len(s) <= m
    BY <1>4, <2>3
  <2>5. QED BY <1>3, <1>4, <2>3, <2>4, BoundAssumption
<1>7. drops' \in 0..MaxDrops /\ spoiled' \subseteq Hazards
  BY <1>1, <1>2, BoundAssumption DEF RingInv, Notes, Hazards
<1>8. Stock' /\ Flags' /\ Notes'
  BY <1>1, <1>5, <1>6, <1>7 DEF RingInv, Stock, Flags, Notes
<1>9. QED BY <1>8 DEF RingInv

\* It holds throughout.
LEMMA RingInvHolds == Spec => []RingInv
<1>1. Init => RingInv
  <2> SUFFICES ASSUME Init PROVE RingInv
    OBVIOUS
  <2>1. head \in Nat /\ head \in 0..MaxRows /\ MaxRequests \in Nat
    BY BoundAssumption DEF Init
  <2>2. <<>> \in Rings(head) /\ <<>> \in Seq(0..0)
    BY DEF Rings, Ordered
  <2>3. EmptyBuffer \in Current(head)
    <3>1. EmptyBuffer \in Buffers(head) /\ EmptyBuffer.ring = <<>> /\ EmptyBuffer.newest = 0
      BY <2>1, <2>2 DEF EmptyBuffer, Buffers, NoId
    <3>2. EmptyBuffer \in Trimmed(head)
      BY <3>1, RingAssumption DEF Trimmed
    <3>3. QED BY <2>2, <3>1, <3>2 DEF Current
  <2>4. Stock
    BY <2>1, <2>3 DEF Init, Stock
  <2>5. Flags /\ Notes
    <3>1. known \in BOOLEAN /\ paging \in BOOLEAN /\ up \in BOOLEAN
      BY DEF Init
    <3>2. effects \in [Row -> Nat] /\ spoiled \subseteq Hazards
      BY DEF Init
    <3>3. locals \in 0..MaxLocal /\ jumps \in 0..MaxJumps /\ drops \in 0..MaxDrops
      BY BoundAssumption DEF Init
    <3>4. QED BY <3>1, <3>2, <3>3 DEF Flags, Notes
  <2>6. QED BY <2>4, <2>5 DEF RingInv
<1>2. RingInv /\ [Next]_vars => RingInv'
  <2> SUFFICES ASSUME RingInv, [Next]_vars PROVE RingInv'
    OBVIOUS
  <2>1. CASE ApplyFrame
    BY <2>1, ApplyFrameKeeps
  <2>2. CASE Window
    BY <2>2, ActivateKeeps, ScrollToTopKeeps, OpenResultKeeps, ReturnKeeps, InjectKeeps DEF Window
  <2>3. CASE Server
    BY <2>3, PostKeeps, ConnectKeeps, AnswerKeeps, LoseKeeps DEF Server
  <2>4. CASE UNCHANGED vars
    <3>1. Stock' /\ Flags' /\ Notes'
      BY <2>4 DEF vars, counts, RingInv, Stock, Flags, Notes
    <3>2. QED BY <3>1 DEF RingInv
  <2>5. QED BY <2>1, <2>2, <2>3, <2>4 DEF Next
<1>3. QED BY <1>1, <1>2, PTL DEF Spec

\* However live rows, resume gap-fills, pages and replays overlap, and for every limit
\* the client sets to its ring and to a merge, no row is held twice, and each row is
\* below the one that follows it unless one of the two has no id.
THEOREM RingIsOrdered == Spec => []RowsInOrder
<1>1. RingInv => RowsInOrder
  <2> SUFFICES ASSUME RingInv PROVE RowsInOrder
    OBVIOUS
  <2>1. /\ buf \in Buffers(head) /\ head \in 0..MaxRows /\ MaxRows \in Nat
        /\ buf.ring \in Rings(head) /\ buf.ring \in Seq(0..head) /\ Len(buf.ring) <= RingCapacity
    BY QueueHas, BoundAssumption DEF RingInv, Stock, Trimmed
  <2>2. buf.newest \in 0..head /\ buf.moreOlder \in BOOLEAN /\ buf.hydrated \in BOOLEAN /\ buf.detached \in BOOLEAN
    BY <2>1, BufferHas
  <2>3. buf.ring \in Seq(Row \cup {LocalRow})
    <3>1. 0..head \subseteq Row \cup {LocalRow}
      BY <2>1 DEF Row, LocalRow
    <3>2. QED BY <2>1, <3>1, SeqMonotonic
  <2>4. buf.newest \in Row \cup {NoId}
    BY <2>1, <2>2 DEF Row, NoId
  <2>5. requests \in Seq(Request) /\ Len(requests) <= MaxRequests
    <3>1. Asked(head) \subseteq Request
      BY <2>1 DEF Asked, Request, Row
    <3>2. QED BY <3>1, SeqMonotonic DEF RingInv, Stock
  <2>6. {buf.moreOlder, buf.hydrated, buf.detached, known, paging, up} \subseteq BOOLEAN
    <3>1. known \in BOOLEAN /\ paging \in BOOLEAN /\ up \in BOOLEAN
      BY DEF RingInv, Flags
    <3>2. QED BY Zenon, <2>2, <3>1
  <2>7. TypeOK
    BY <2>1, <2>3, <2>4, <2>5, <2>6 DEF TypeOK, RingInv, Stock, Notes
  <2>8. Ordered(buf.ring)
    BY <2>1 DEF Rings
  <2>9. QED BY <2>7, <2>8 DEF RowsInOrder, Ordered
<1>2. QED BY <1>1, RingInvHolds, PTL

--------------------------------------------------------------------------------
(* What a merge loses *)

\* The ids ascend, whatever stands between them, and at most d lines follow the last.
Ascending(r) == \A i, j \in 1..Len(r) : i < j /\ r[i] # 0 /\ r[j] # 0 => r[i] < r[j]
LastId(r, i) == i \in 1..Len(r) /\ r[i] # 0 /\ \A j \in 1..Len(r) : j > i => r[j] = 0
Near(r, d) == \A i \in 1..Len(r) : LastId(r, i) => Len(r) - i <= d
Tidy(r, d) == Ascending(r) /\ Near(r, d)

\* No row without an id stands between this row and the greater ids.
Clear(r, row) == r = <<>> \/ Last(r) # 0 \/ row \in Ids(r) \/ \A x \in Ids(r) : x < row

LEMMA IdsAre ==
  ASSUME NEW h \in Nat, NEW r \in Seq(0..h)
  PROVE  \A x : x \in Ids(r) <=> x # 0 /\ \E i \in 1..Len(r) : r[i] = x
BY DEF Ids, Range, LocalRow

\* The newest id is the last one.
LEMMA NewestIsLast ==
  ASSUME NEW h \in Nat, NEW d \in Nat, NEW r \in Seq(0..h), Tidy(r, d), Ids(r) # {}
  PROVE  \E i \in 1..Len(r) : r[i] = NewestId(r) /\ NewestId(r) \in Ids(r) /\ Len(r) - i <= d
<1>1. NewestId(r) \in Ids(r) /\ \A x \in Ids(r) : x <= NewestId(r)
  BY NewestIs
<1>2. PICK i \in 1..Len(r) : r[i] = NewestId(r) /\ r[i] # 0
  BY <1>1, IdsAre
<1>3. \A j \in 1..Len(r) : r[j] \in Nat /\ (r[j] # 0 => r[j] <= r[i])
  <2>1. \A j \in 1..Len(r) : r[j] \in Nat
    OBVIOUS
  <2>2. \A j \in 1..Len(r) : r[j] # 0 => r[j] \in Ids(r)
    BY IdsAre
  <2>3. QED BY <1>1, <1>2, <2>1, <2>2
<1>4. \A j \in 1..Len(r) : j > i => r[j] = 0
  BY <1>2, <1>3 DEF Tidy, Ascending
<1>5. LastId(r, i)
  BY <1>2, <1>4 DEF LastId
<1>6. Len(r) - i <= d
  BY <1>5 DEF Tidy, Near
<1>7. QED BY <1>1, <1>2, <1>6

\* A row put in its place where the way is clear loses nothing.
LEMMA InsertTidy ==
  ASSUME NEW h \in Nat, NEW d \in Nat, NEW r \in Rings(h), NEW row \in 0..h,
         row # 0, row \notin Ids(r), Tidy(r, d), Clear(r, row)
  PROVE  LET s == InsertOrdered(r, row)
         IN  Tidy(s, d) /\ s # <<>> /\ Last(s) # 0 /\ Ids(s) = Ids(r) \cup {row}
<1> DEFINE s == InsertOrdered(r, row)
           n == Len(r)
<1>1. PICK p \in 1..(n + 1) : Placed(r, s, p, row) /\ Belongs(r, p, row)
  BY InsertIs
<1>2. s \in Seq(0..h) /\ Len(s) = n + 1 /\ n \in Nat /\ r \in Seq(0..h)
  BY InsertIs, RingHas
<1>3. row \in Nat /\ \A i \in 1..n : r[i] \in Nat /\ (r[i] # 0 => r[i] \in Ids(r) /\ r[i] # row)
  BY SMTT(30), <1>2 DEF Ids, Range, LocalRow
<1>4. \A i, j \in 1..n : i < j /\ r[i] # 0 /\ r[j] # 0 => r[i] < r[j]
  BY DEF Tidy, Ascending
<1>5. p = n + 1 => \A i \in 1..n : r[i] # 0 => r[i] < row
  <2>1. SUFFICES ASSUME p = n + 1, NEW i \in 1..n, r[i] # 0 PROVE r[i] < row
    OBVIOUS
  <2>2. r # <<>> /\ n \in 1..n /\ Last(r) = r[n]
    BY <1>2 DEF Last
  <2>3. r[n] < row
    BY <1>1, <1>2, <2>1, <2>2 DEF Belongs
  <2>4. CASE r[n] = 0
    BY <1>3, <2>1, <2>2, <2>4 DEF Clear
  <2>5. CASE r[n] # 0
    <3>1. i = n \/ r[i] < r[n]
      BY SMTT(30), <1>2, <1>4, <2>1, <2>2, <2>5
    <3>2. QED BY <1>3, <2>2, <2>3, <3>1
  <2>6. QED BY <2>4, <2>5
<1>6. p # n + 1 => /\ n \in 1..n /\ r[n] # 0 /\ p \in 1..n /\ r[p] > row
                   /\ \A i \in 1..n : i < p /\ r[i] # 0 => r[i] < row
  <2>1. SUFFICES ASSUME p # n + 1
                 PROVE  /\ n \in 1..n /\ r[n] # 0 /\ p \in 1..n /\ r[p] > row
                        /\ \A i \in 1..n : i < p /\ r[i] # 0 => r[i] < row
    OBVIOUS
  <2>2. p \in 1..n /\ r[p] > row /\ r[n] > row /\ \A i \in 1..n : r[i] > row => p <= i
    BY <1>1, <2>1 DEF Belongs, Last
  <2>3. ASSUME NEW i \in 1..n, i < p, r[i] # 0 PROVE r[i] < row
    <3>1. ~(p <= i)
      BY <1>2, <2>2, <2>3
    <3>2. ~(r[i] > row)
      BY <2>2, <3>1
    <3>3. QED BY <1>3, <2>3, <3>2
  <2>4. n \in 1..n /\ r[n] # 0
    BY SMTT(30), <1>2, <1>3, <2>2
  <2>5. QED BY <2>2, <2>3, <2>4
<1>7. /\ \A i \in 1..(n + 1) : i < p => s[i] = r[i]
      /\ s[p] = row
      /\ \A i \in 1..(n + 1) : i > p => s[i] = r[i - 1]
  BY <1>1 DEF Placed
<1> HIDE DEF s, n
<1>8. \A i \in 1..(n + 1) : \/ i < p /\ i \in 1..n /\ s[i] = r[i]
                            \/ i = p /\ s[i] = row
                            \/ i > p /\ i - 1 \in 1..n /\ s[i] = r[i - 1]
  BY <1>2, <1>7
<1>9. Ascending(s)
  <2>1. SUFFICES ASSUME NEW i \in 1..(n + 1), NEW j \in 1..(n + 1), i < j, s[i] # 0, s[j] # 0
                 PROVE  s[i] < s[j]
    BY <1>2 DEF Ascending
  <2>2. CASE j < p
    <3>1. i \in 1..n /\ j \in 1..n /\ s[i] = r[i] /\ s[j] = r[j]
      BY <1>2, <1>8, <2>1, <2>2
    <3>2. QED BY <1>4, <2>1, <3>1
  <2>3. CASE j = p
    <3>1. i \in 1..n /\ s[i] = r[i] /\ i < p /\ s[j] = row
      BY <1>2, <1>8, <2>1, <2>3
    <3>2. QED BY <1>5, <1>6, <2>1, <3>1
  <2>4. CASE i = p
    <3>1. j - 1 \in 1..n /\ s[j] = r[j - 1] /\ p # n + 1 /\ s[i] = row /\ j - 1 >= p
      BY <1>2, <1>8, <2>1, <2>4
    <3>2. r[p] > row /\ p \in 1..n
      BY <1>6, <3>1
    <3>3. r[p] # 0 /\ r[j - 1] # 0
      BY <1>3, <2>1, <3>1, <3>2
    <3>4. j - 1 = p \/ r[p] < r[j - 1]
      <4>1. j - 1 = p \/ p < j - 1
        BY <3>1, <3>2
      <4>2. QED BY <1>4, <3>1, <3>2, <3>3, <4>1
    <3>5. QED BY <1>3, <3>1, <3>2, <3>4
  <2>5. CASE i < p /\ j > p
    <3>1. i \in 1..n /\ j - 1 \in 1..n /\ s[i] = r[i] /\ s[j] = r[j - 1] /\ i < j - 1
      BY <1>2, <1>8, <2>1, <2>5
    <3>2. QED BY <1>4, <2>1, <3>1
  <2>6. CASE i > p
    <3>1. i - 1 \in 1..n /\ j - 1 \in 1..n /\ s[i] = r[i - 1] /\ s[j] = r[j - 1] /\ i - 1 < j - 1
      BY <1>2, <1>8, <2>1, <2>6
    <3>2. QED BY <1>4, <2>1, <3>1
  <2>7. QED BY <1>2, <2>2, <2>3, <2>4, <2>5, <2>6
<1>10. n + 1 \in 1..(n + 1) /\ s[n + 1] # 0
  <2>1. CASE p = n + 1
    BY <1>2, <1>7, <2>1
  <2>2. CASE p # n + 1
    <3>1. s[n + 1] = r[n]
      BY <1>2, <1>7, <2>2
    <3>2. QED BY <1>2, <1>6, <2>2, <3>1
  <2>3. QED BY <2>1, <2>2
<1>11. Near(s, d)
  <2>1. SUFFICES ASSUME NEW i \in 1..(n + 1), LastId(s, i) PROVE (n + 1) - i <= d
    BY <1>2 DEF Near
  <2>2. i = n + 1
    BY <1>2, <1>10, <2>1 DEF LastId
  <2>3. QED BY <1>2, <2>2
<1>12. Ids(s) = Ids(r) \cup {row}
  <2>1. ASSUME NEW x, x \in Ids(s) PROVE x \in Ids(r) \/ x = row
    <3>1. PICK i \in 1..(n + 1) : s[i] = x /\ x # 0
      BY <1>2, <2>1, IdsAre
    <3>2. QED BY <1>3, <1>8, <3>1
  <2>2. ASSUME NEW x, x \in Ids(r) PROVE x \in Ids(s)
    <3>1. PICK i \in 1..n : r[i] = x /\ x # 0
      BY <1>2, <2>2, IdsAre DEF n
    <3>2. \E j \in 1..(n + 1) : s[j] = x
      <4>1. CASE i < p
        BY <1>2, <1>7, <3>1, <4>1
      <4>2. CASE ~(i < p)
        <5>1. i + 1 \in 1..(n + 1) /\ i + 1 > p /\ (i + 1) - 1 = i
          BY <1>2, <4>2
        <5>2. s[i + 1] = r[i]
          BY <1>7, <5>1
        <5>3. QED BY <3>1, <5>1, <5>2
      <4>3. QED BY <4>1, <4>2
    <3>3. QED BY <1>2, <3>1, <3>2, IdsAre
  <2>3. row \in Ids(s)
    BY <1>2, <1>7, IdsAre
  <2>4. QED BY <2>1, <2>2, <2>3
<1>13. s # <<>> /\ Last(s) # 0
  BY <1>2, <1>10 DEF Last
<1>14. QED BY <1>9, <1>11, <1>12, <1>13 DEF Tidy, s

LEMMA AbsorbRowTidy ==
  ASSUME NEW h \in Nat, NEW d \in Nat, NEW r \in Rings(h), NEW row \in 0..h,
         NEW wanted, 0 \notin wanted, Tidy(r, d), Clear(r, row)
  PROVE  LET s == AbsorbRow(r, row, wanted)
         IN  /\ Tidy(s, d) /\ Ids(s) = Ids(r) \cup ({row} \cap wanted)
             /\ s = r \/ (s # <<>> /\ Last(s) # 0)
<1>1. CASE row \in Ids(r) \/ row \notin wanted
  <2>1. AbsorbRow(r, row, wanted) = r
    BY Zenon, <1>1 DEF AbsorbRow
  <2>2. Ids(r) \cup ({row} \cap wanted) = Ids(r)
    BY <1>1
  <2>3. QED BY <2>1, <2>2
<1>2. CASE ~(row \in Ids(r) \/ row \notin wanted)
  <2>1. AbsorbRow(r, row, wanted) = InsertOrdered(r, row) /\ row \notin Ids(r) /\ row # 0
    BY Zenon, <1>2 DEF AbsorbRow
  <2>2. {row} \cap wanted = {row}
    BY <1>2
  <2> DEFINE s == InsertOrdered(r, row)
  <2>3. Tidy(s, d) /\ s # <<>> /\ Last(s) # 0 /\ Ids(s) = Ids(r) \cup {row}
    BY <2>1, InsertTidy
  <2> HIDE DEF s
  <2>4. AbsorbRow(r, row, wanted) = s
    BY <2>1 DEF s
  <2>5. QED BY <2>2, <2>3, <2>4
<1>3. QED BY <1>1, <1>2

\* What has been said up to the k-th row
Said(rows, k) == {rows[i] : i \in 1..k}

\* A merge adds to the ids exactly the rows that are wanted.
LEMMA AbsorbTidy ==
  ASSUME NEW h \in Nat, NEW d \in Nat, NEW ring \in Rings(h), NEW rows \in Seq(0..h),
         NEW wanted, 0 \notin wanted, Tidy(ring, d), \A i \in 1..Len(rows) : Clear(ring, rows[i])
  PROVE  /\ Tidy(Absorb(ring, rows, wanted), d)
         /\ Ids(Absorb(ring, rows, wanted)) = Ids(ring) \cup (Range(rows) \cap wanted)
<1> DEFINE n == Len(rows)
<1>1. n \in Nat /\ \A k \in 1..n : rows[k] \in 0..h
  OBVIOUS
<1>2. PICK f : Merging(f, n, ring, rows, wanted) /\ Absorb(ring, rows, wanted) = f[n]
  BY <1>1, AbsorbMerges
<1>3. Said(rows, n) = Range(rows)
  BY DEF Said, Range
<1> HIDE DEF n
<1>4. f[0] = ring /\ Steps(f, n, rows, wanted)
  BY <1>1, <1>2, MergingIs
<1> DEFINE Good(k) == /\ f[k] \in Rings(h) /\ Tidy(f[k], d)
                      /\ Ids(f[k]) = Ids(ring) \cup (Said(rows, k) \cap wanted)
                      /\ f[k] = ring \/ (f[k] # <<>> /\ Last(f[k]) # 0)
           Bad == {k \in 0..n : ~Good(k)}
<1>5. Good(0)
  <2>1. Said(rows, 0) = {}
    BY DEF Said
  <2>2. Ids(ring) = Ids(ring) \cup (Said(rows, 0) \cap wanted)
    BY <2>1
  <2>3. QED BY <1>4, <2>2
<1>6. ASSUME NEW k \in 1..n, Good(k - 1) PROVE Good(k)
  <2> DEFINE r == f[k - 1]
             s == f[k]
             row == rows[k]
  <2>1. /\ r \in Rings(h) /\ Tidy(r, d) /\ row \in 0..h
        /\ Ids(r) = Ids(ring) \cup (Said(rows, k - 1) \cap wanted)
        /\ r = ring \/ (r # <<>> /\ Last(r) # 0)
    BY <1>1, <1>6
  <2>2. Clear(r, row)
    BY <2>1 DEF Clear, n
  <2>3. s = AbsorbRow(r, row, wanted)
    BY <1>4 DEF Steps
  <2>4. Said(rows, k) = Said(rows, k - 1) \cup {row}
    <3>1. \A i \in 1..k : i \in 1..(k - 1) \/ i = k
      BY <1>1
    <3>2. \A i \in 1..(k - 1) : i \in 1..k
      BY <1>1
    <3>3. k \in 1..k
      BY <1>1
    <3>4. QED BY <3>1, <3>2, <3>3 DEF Said
  <2> HIDE DEF r, s, row
  <2>5. s \in Rings(h)
    BY <2>1, <2>3, AbsorbRowIs
  <2>6. /\ Tidy(s, d) /\ Ids(s) = Ids(r) \cup ({row} \cap wanted)
        /\ s = r \/ (s # <<>> /\ Last(s) # 0)
    BY <2>1, <2>2, <2>3, AbsorbRowTidy
  <2>7. Ids(s) = Ids(ring) \cup (Said(rows, k) \cap wanted)
    BY <2>1, <2>4, <2>6
  <2>8. s = ring \/ (s # <<>> /\ Last(s) # 0)
    BY Zenon, <2>1, <2>6
  <2>9. QED BY <2>5, <2>6, <2>7, <2>8 DEF s
<1>7. Good(n)
  <2>1. CASE Bad = {}
    BY <1>1, <2>1
  <2>2. CASE Bad # {}
    <3>1. Bad \in SUBSET Nat
      BY <1>1
    <3>2. PICK m \in Bad : \A y \in Bad : m <= y
      <4> HIDE DEF Bad
      <4>1. QED BY <2>2, <3>1, Least
    <3>3. m \in 0..n /\ ~Good(m)
      OBVIOUS
    <3> HIDE DEF Good
    <3>4. m # 0
      BY <1>5, <3>3
    <3>5. m - 1 \in 0..n /\ m \in 1..n /\ ~(m <= m - 1)
      BY <1>1, <3>3, <3>4
    <3>6. m - 1 \notin Bad
      <4> HIDE DEF Bad
      <4>1. QED BY Zenon, <3>2, <3>5
    <3>7. Good(m - 1)
      BY <3>5, <3>6
    <3>8. QED BY <1>6, <3>3, <3>5, <3>7
  <2>3. QED BY <2>1, <2>2
<1>8. QED BY <1>2, <1>3, <1>7

\* Nor does eviction lose the newest id, as long as fewer lines follow it than remain.
LEMMA PartTidy ==
  ASSUME NEW h \in Nat, NEW d \in Nat, NEW r \in Seq(0..h), NEW e \in 1..Len(r),
         d <= Len(r) - e, Tidy(r, d)
  PROVE  Tidy(SubSeq(r, e, Len(r)), d) /\ NewestId(SubSeq(r, e, Len(r))) = NewestId(r)
<1> DEFINE n == Len(r)
           s == SubSeq(r, e, n)
<1>1. n \in Nat /\ e \in 1..n /\ e \in Int /\ n \in Int /\ \A i \in 1..n : r[i] \in 0..h
  OBVIOUS
<1>2. /\ s \in Seq(0..h) /\ Len(s) = n - e + 1
      /\ \A i \in 1..(n - e + 1) : s[i] = r[e + i - 1]
  <2>1. \A i \in e..n : r[i] \in 0..h
    BY <1>1
  <2> HIDE DEF n
  <2>2. /\ s \in Seq(0..h) /\ Len(s) = IF e <= n THEN n - e + 1 ELSE 0
        /\ \A i \in 1..(n - e + 1) : s[i] = r[e + i - 1]
    BY <1>1, <2>1, SubSeqProperties
  <2>3. QED BY <1>1, <2>2
<1>3. /\ \A i, j \in 1..n : i < j /\ r[i] # 0 /\ r[j] # 0 => r[i] < r[j]
      /\ \A i \in 1..n : LastId(r, i) => n - i <= d
      /\ d <= n - e
  BY DEF Tidy, Ascending, Near
<1>4. Ids(r) # {} => \E i \in 1..n : r[i] = NewestId(r) /\ NewestId(r) \in Ids(r) /\ n - i <= d
  BY NewestIsLast
<1> HIDE DEF s
<1>5. \A x \in Ids(s) : x \in Ids(r)
  <2>1. SUFFICES ASSUME NEW x \in Ids(s) PROVE x \in Ids(r)
    OBVIOUS
  <2>2. PICK i \in 1..(n - e + 1) : s[i] = x /\ x # 0
    BY <1>2, IdsAre
  <2> DEFINE k == e + i - 1
  <2>3. k \in 1..n /\ r[k] = x
    <3> HIDE DEF n
    <3>1. k \in 1..n
      BY <1>1
    <3>2. r[k] = x
      BY <1>2, <2>2
    <3>3. QED BY <3>1, <3>2
  <2> HIDE DEF k
  <2>4. QED BY <2>2, <2>3, IdsAre
<1>6. NewestId(r) # 0 => NewestId(r) \in Ids(s)
  <2>1. SUFFICES ASSUME NewestId(r) # 0 PROVE NewestId(r) \in Ids(s)
    OBVIOUS
  <2>2. Ids(r) # {}
    BY <2>1, NewestIs
  <2>3. PICK i \in 1..n : r[i] = NewestId(r) /\ n - i <= d
    BY <1>4, <2>2
  <2> HIDE DEF n
  <2>4. i - e + 1 \in 1..(n - e + 1) /\ e + (i - e + 1) - 1 = i
    BY <1>1, <1>3, <2>3
  <2>5. s[i - e + 1] = NewestId(r)
    BY <1>2, <2>3, <2>4
  <2>6. QED BY <1>2, <2>1, <2>4, <2>5, IdsAre
<1>7. NewestId(s) = NewestId(r)
  <2>1. /\ NewestId(s) \in Nat /\ NewestId(r) \in Nat
        /\ NewestId(s) # 0 => NewestId(s) \in Ids(s)
        /\ \A x \in Ids(s) : x <= NewestId(s)
        /\ \A x \in Ids(r) : x <= NewestId(r)
    <3>1. /\ NewestId(s) \in Nat /\ (NewestId(s) # 0 => NewestId(s) \in Ids(s))
          /\ \A x \in Ids(s) : x <= NewestId(s)
      BY <1>2, NewestIs
    <3>2. NewestId(r) \in Nat /\ \A x \in Ids(r) : x <= NewestId(r)
      BY NewestIs
    <3>3. QED BY <3>1, <3>2
  <2>2. CASE NewestId(r) = 0
    <3>1. NewestId(s) # 0 => NewestId(s) <= NewestId(r)
      BY <1>5, <2>1
    <3>2. QED BY <2>1, <2>2, <3>1
  <2>3. CASE NewestId(r) # 0
    <3>1. NewestId(r) <= NewestId(s)
      BY <1>6, <2>1, <2>3
    <3>2. NewestId(s) # 0
      BY <2>1, <2>3, <3>1
    <3>3. NewestId(s) <= NewestId(r)
      BY <1>5, <2>1, <3>2
    <3>4. QED BY <2>1, <3>1, <3>3
  <2>4. QED BY <2>2, <2>3
<1> HIDE DEF n
<1>8. Ascending(s)
  <2>1. SUFFICES ASSUME NEW i \in 1..(n - e + 1), NEW j \in 1..(n - e + 1), i < j, s[i] # 0, s[j] # 0
                 PROVE  s[i] < s[j]
    BY <1>2 DEF Ascending
  <2>2. /\ e + i - 1 \in 1..n /\ e + j - 1 \in 1..n /\ e + i - 1 < e + j - 1
        /\ s[i] = r[e + i - 1] /\ s[j] = r[e + j - 1]
    <3>1. s[i] = r[e + i - 1] /\ s[j] = r[e + j - 1]
      BY <1>2, <2>1
    <3>2. e + i - 1 \in 1..n /\ e + j - 1 \in 1..n /\ e + i - 1 < e + j - 1
      BY <1>1, <2>1
    <3>3. QED BY <3>1, <3>2
  <2>3. QED BY <1>3, <2>1, <2>2
<1>9. Near(s, d)
  <2>1. SUFFICES ASSUME NEW i \in 1..(n - e + 1), LastId(s, i) PROVE (n - e + 1) - i <= d
    BY <1>2 DEF Near
  <2>2. e + i - 1 \in 1..n /\ r[e + i - 1] = s[i] /\ s[i] # 0
    BY <1>1, <1>2, <2>1 DEF LastId
  <2>3. ASSUME NEW j \in 1..n, j > e + i - 1 PROVE r[j] = 0
    <3>1. j - e + 1 \in 1..(n - e + 1) /\ j - e + 1 > i /\ e + (j - e + 1) - 1 = j
      BY <1>1, <2>3
    <3>2. s[j - e + 1] = r[j]
      BY <1>2, <3>1
    <3>3. s[j - e + 1] = 0
      BY <1>2, <2>1, <3>1 DEF LastId
    <3>4. QED BY <3>2, <3>3
  <2>4. LastId(r, e + i - 1)
    BY <2>2, <2>3 DEF LastId, n
  <2>5. n - (e + i - 1) <= d
    BY <1>3, <2>2, <2>4
  <2>6. QED BY <1>1, <2>5
<1>10. QED BY <1>7, <1>8, <1>9 DEF Tidy, s, n

\* What is said of the buffer only while no slice has put an old row behind a line
\* without an id, and no jump has detached it
Neat(b, d) == /\ ~b.detached /\ Tidy(b.ring, d) /\ b.newest = NewestId(b.ring)
              /\ d \in Nat /\ d < RingCapacity

LEMMA TrimTidy ==
  ASSUME NEW h \in Nat, NEW b \in Buffers(h), NEW d \in Nat, d < RingCapacity, Tidy(b.ring, d)
  PROVE  /\ Tidy(Trim(b).ring, d) /\ NewestId(Trim(b).ring) = NewestId(b.ring)
         /\ Trim(b).detached = b.detached
<1>1. b.ring \in Seq(0..h) /\ Len(b.ring) \in Nat /\ RingCapacity \in Nat
  BY BufferHas, RingHas, RingAssumption
<1>2. CASE Len(b.ring) <= RingCapacity
  BY <1>2 DEF Trim
<1>3. CASE ~(Len(b.ring) <= RingCapacity)
  <2> DEFINE n == Len(b.ring)
             e == n - RingCapacity + 1
             s == SubSeq(b.ring, e, n)
             t == Trim(b)
  <2>1. t.ring = s /\ t.detached = b.detached
    BY <1>3 DEF Trim, Buffers
  <2>2. e \in 1..n /\ d <= n - e
    <3>1. n \in Nat /\ n > RingCapacity
      BY <1>1, <1>3
    <3> HIDE DEF n
    <3>2. QED BY <1>1, <3>1
  <2> HIDE DEF e, t
  <2>3. Tidy(s, d) /\ NewestId(s) = NewestId(b.ring)
    BY <1>1, <2>2, PartTidy
  <2>4. QED BY <2>1, <2>3 DEF t
<1>4. QED BY <1>2, <1>3

\* A slice is in order by itself.
LEMMA SliceTidy ==
  ASSUME NEW h \in Nat, NEW rows \in Rising(h), NEW d \in Nat
  PROVE  /\ Tidy(rows, d) /\ 0 \notin Range(rows) /\ Ids(rows) = Range(rows)
         /\ rows = <<>> \/ Last(rows) # 0
         /\ rows # <<>> => NewestId(rows) # 0
<1>1. rows \in Seq(1..h) /\ rows \in Seq(0..h) /\ \A i, j \in 1..Len(rows) : i < j => rows[i] < rows[j]
  BY SliceIsRing DEF Rising
<1>2. Len(rows) \in Nat /\ \A i \in 1..Len(rows) : rows[i] \in 1..h
  BY <1>1
<1>3. Ascending(rows)
  BY <1>1 DEF Ascending
<1>4. Near(rows, d)
  <2>1. SUFFICES ASSUME NEW i \in 1..Len(rows), LastId(rows, i) PROVE Len(rows) - i <= d
    BY DEF Near
  <2>2. Len(rows) \in 1..Len(rows) /\ rows[Len(rows)] # 0
    BY <1>2
  <2>3. i = Len(rows)
    BY <1>2, <2>1, <2>2 DEF LastId
  <2>4. QED BY <1>2, <2>3
<1>5. 0 \notin Range(rows)
  BY <1>2 DEF Range
<1>6. rows = <<>> \/ Last(rows) # 0
  BY <1>2 DEF Last
<1>7. Ids(rows) = Range(rows)
  BY <1>5 DEF Ids, LocalRow
<1>8. rows # <<>> => NewestId(rows) # 0
  <2>1. rows # <<>> => rows[1] \in Range(rows)
    BY <1>2 DEF Range
  <2>2. QED BY <1>1, <1>7, <2>1, NewestIs
<1>9. QED BY <1>3, <1>4, <1>5, <1>6, <1>7, <1>8 DEF Tidy

\* The newest id of what holds more
LEMMA NewestGrows ==
  ASSUME NEW h \in Nat, NEW r \in Seq(0..h), NEW s \in Seq(0..h),
         NewestId(r) = 0 \/ \E x \in Ids(s) : x >= NewestId(r)
  PROVE  NewestId(s) >= NewestId(r)
<1>1. NewestId(r) \in Nat /\ NewestId(s) \in Nat /\ \A x \in Ids(s) : x <= NewestId(s)
  BY NewestIs
<1>2. CASE NewestId(r) = 0
  BY <1>1, <1>2
<1>3. CASE \E x \in Ids(s) : x >= NewestId(r)
  <2>1. PICK x \in Ids(s) : x >= NewestId(r)
    BY <1>3
  <2>2. x \in Nat
    BY DEF Ids, Range
  <2>3. QED BY <1>1, <2>1, <2>2
<1>4. QED BY <1>2, <1>3

\* Rows next to the ring's end, or in its middle, leave it in order if the way is clear.
LEMMA SpliceTidy ==
  ASSUME NEW h \in Nat, NEW b \in Buffers(h), NEW d \in Nat, d < RingCapacity, Tidy(b.ring, d),
         NEW rows \in Rising(h), \A x \in Range(rows) : Clear(b.ring, x)
  PROVE  /\ Tidy(Splice(b, rows).ring, d) /\ Splice(b, rows).detached = b.detached
         /\ NewestId(Splice(b, rows).ring) >= NewestId(b.ring)
<1> DEFINE slice == ClampToAdjacentEnd(b.ring, rows)
           r == Absorb(b.ring, slice, Range(slice))
           c == [b EXCEPT !.ring = r]
<1>1. rows \in Seq(0..h) /\ rows \in Seq(1..h) /\ b.ring \in Rings(h) /\ b.ring \in Seq(0..h)
  BY SliceIsRing, BufferHas, RingHas
<1>2. slice \in Seq(0..h)
  BY <1>1, ClampIs
<1>3. Range(slice) \subseteq Range(rows)
  <2> DEFINE n == Len(rows)
  <2>1. n \in Nat /\ MaxMerge \in Nat /\ rows \in Seq(Range(rows))
    BY <1>1, RingAssumption, SeqOfRange
  <2>2. slice \in Seq(Range(rows))
    <3>1. CASE n <= MaxMerge
      BY <2>1, <3>1 DEF ClampToAdjacentEnd
    <3>2. CASE ~(n <= MaxMerge)
      <4> HIDE DEF n
      <4>1. \A i \in 1..n : rows[i] \in Range(rows)
        BY DEF n, Range
      <4>2. \A i \in (n - MaxMerge + 1)..n : rows[i] \in Range(rows)
        BY <2>1, <3>2, <4>1
      <4>3. \A i \in 1..MaxMerge : rows[i] \in Range(rows)
        BY <2>1, <3>2, <4>1
      <4>4. /\ SubSeq(rows, n - MaxMerge + 1, n) \in Seq(Range(rows))
            /\ SubSeq(rows, 1, MaxMerge) \in Seq(Range(rows))
        BY <2>1, <4>2, <4>3, SubSeqProperties
      <4>5. \/ slice = rows \/ slice = SubSeq(rows, n - MaxMerge + 1, n)
            \/ slice = SubSeq(rows, 1, MaxMerge)
        BY DEF ClampToAdjacentEnd, n
      <4>6. QED BY <2>1, <4>4, <4>5
    <3>3. QED BY <3>1, <3>2
  <2> HIDE DEF slice
  <2>3. QED BY <2>2, RangeOfSeq
<1>4. Splice(b, rows) = Trim(c)
  BY DEF Splice, Buffers
<1> HIDE DEF slice
<1>5. 0 \notin Range(slice)
  BY <1>3, SliceTidy
<1>6. \A i \in 1..Len(slice) : Clear(b.ring, slice[i])
  <2>1. \A i \in 1..Len(slice) : slice[i] \in Range(slice)
    BY <1>2 DEF Range
  <2>2. QED BY <1>3, <2>1
<1>7. r \in Rings(h) /\ r \in Seq(0..h)
  BY <1>1, <1>2, AbsorbIs, RingHas
<1>8. Tidy(r, d) /\ Ids(r) = Ids(b.ring) \cup (Range(slice) \cap Range(slice))
  BY <1>1, <1>2, <1>5, <1>6, AbsorbTidy
<1> HIDE DEF r
<1>9. NewestId(r) >= NewestId(b.ring)
  <2>1. NewestId(b.ring) # 0 => NewestId(b.ring) \in Ids(r) /\ NewestId(b.ring) \in Nat
    BY <1>1, <1>8, NewestIs
  <2>2. QED BY <1>1, <1>7, <2>1, NewestGrows
<1>10. c \in Buffers(h) /\ c.ring = r /\ c.detached = b.detached
  BY <1>7, BufferHas DEF Buffers
<1> HIDE DEF c
<1>11. /\ Tidy(Trim(c).ring, d) /\ NewestId(Trim(c).ring) = NewestId(r)
       /\ Trim(c).detached = b.detached
  BY <1>8, <1>10, TrimTidy
<1>12. QED BY <1>4, <1>9, <1>11

\* So does a slice that takes the ring's place: what is newer than it survives.
LEMMA ReplaceTidy ==
  ASSUME NEW h \in Nat, NEW b \in Buffers(h), NEW d \in Nat, d < RingCapacity, Tidy(b.ring, d),
         NEW rows \in Rising(h), \A x \in Range(rows) : Clear(b.ring, x),
         rows = <<>> => NewestId(b.ring) = 0
  PROVE  /\ Tidy(Replace(b, rows).ring, d) /\ Replace(b, rows).detached = b.detached
         /\ NewestId(Replace(b, rows).ring) >= NewestId(b.ring)
<1>1. CASE Overlaps(b, rows)
  <2>1. Replace(b, rows) = Splice(b, rows)
    BY <1>1 DEF Replace
  <2>2. QED BY <2>1, SpliceTidy
<1>2. CASE ~Overlaps(b, rows)
  <2> DEFINE w == Survivors(b.ring, rows)
             r == Absorb(rows, b.ring, w)
             c == [b EXCEPT !.ring = r]
             n == NewestId(b.ring)
             m == NewestId(rows)
  <2>1. rows \in Rings(h) /\ rows \in Seq(0..h) /\ b.ring \in Seq(0..h)
    BY SliceIsRing, BufferHas, RingHas
  <2>2. Replace(b, rows) = Trim(c)
    BY <1>2 DEF Replace, Buffers
  <2>3. 0 \notin w /\ w \subseteq Range(b.ring)
    BY DEF Survivors, Ids, LocalRow
  <2>4. Tidy(rows, d) /\ \A i \in 1..Len(b.ring) : Clear(rows, b.ring[i])
    BY SliceTidy DEF Clear
  <2>5. r \in Rings(h) /\ r \in Seq(0..h)
    BY <2>1, AbsorbIs, RingHas
  <2>6. n \in Nat /\ m \in Nat /\ (n # 0 => n \in Ids(b.ring)) /\ (m # 0 => m \in Ids(rows))
    BY <2>1, NewestIs
  <2>7. n # 0 => m # 0
    BY SliceTidy
  <2>8. n # 0 /\ n > m => n \in w
    BY <2>6, <2>7 DEF Survivors, NoId
  <2> HIDE DEF w
  <2>9. Tidy(r, d) /\ Ids(r) = Ids(rows) \cup (Range(b.ring) \cap w)
    <3> DEFINE g == b.ring
    <3>1. g \in Seq(0..h) /\ 0 \notin w /\ \A i \in 1..Len(g) : Clear(rows, g[i])
      BY <2>1, <2>3, <2>4
    <3> HIDE DEF g
    <3>2. Tidy(Absorb(rows, g, w), d) /\ Ids(Absorb(rows, g, w)) = Ids(rows) \cup (Range(g) \cap w)
      BY <2>1, <2>4, <3>1, AbsorbTidy
    <3>3. QED BY <3>2 DEF g
  <2> HIDE DEF r
  <2>10. n = 0 \/ \E x \in Ids(r) : x >= n
    <3>1. CASE n # 0 /\ n > m
      <4>1. n \in Ids(r) /\ n >= n
        BY <2>3, <2>6, <2>8, <2>9, <3>1
      <4>2. QED BY <4>1
    <3>2. CASE n # 0 /\ ~(n > m)
      <4>1. m \in Ids(r) /\ m >= n
        BY <2>6, <2>7, <2>9, <3>2
      <4>2. QED BY <4>1
    <3>3. QED BY <3>1, <3>2
  <2>11. NewestId(r) >= n
    BY <2>1, <2>5, <2>10, NewestGrows
  <2>12. c \in Buffers(h) /\ c.ring = r /\ c.detached = b.detached
    BY <2>5, BufferHas DEF Buffers
  <2> HIDE DEF c
  <2>13. /\ Tidy(Trim(c).ring, d) /\ NewestId(Trim(c).ring) = NewestId(r)
         /\ Trim(c).detached = b.detached
    BY <2>9, <2>12, TrimTidy
  <2>14. QED BY <2>2, <2>11, <2>13
<1>3. QED BY <1>1, <1>2


\* No row of the slice has a line without an id between it and the greater ids.
Cleared(r, rows) == \A x \in Range(rows) : Clear(r, x)

LEMMA RecomputeTidy ==
  ASSUME NEW h \in Nat, NEW b \in Buffers(h), NEW d \in Nat, d < RingCapacity,
         Tidy(b.ring, d), ~b.detached
  PROVE  Neat(RecomputeNewest(b), d) /\ RecomputeNewest(b).newest = NewestId(b.ring)
<1>1. /\ RecomputeNewest(b).ring = b.ring /\ RecomputeNewest(b).detached = b.detached
      /\ RecomputeNewest(b).newest = NewestId(b.ring)
  BY DEF RecomputeNewest, Buffers
<1>2. QED BY <1>1 DEF Neat

\* Applying a slice that is no jump keeps the buffer neat, and its newest id as new.
LEMMA MergeBacklogTidy ==
  ASSUME NEW h \in Nat, NEW b \in Buffers(h), NEW d \in Nat, Neat(b, d),
         NEW f \in Frames(h), f.kind = "backlog", Cleared(b.ring, f.rows),
         f.mode = "replace" /\ f.rows = <<>> => b.newest = 0
  PROVE  Neat(MergeBacklog(b, f), d) /\ MergeBacklog(b, f).newest >= b.newest
<1> DEFINE t == [b EXCEPT !.moreOlder = f.moreOlder]
<1>1. f.mode \in Slices /\ f.rows \in Rising(h) /\ f.rows \in Rings(h) /\ f.rows \in Seq(0..h) /\ f.moreOlder \in BOOLEAN
  BY FrameHas, SliceIsRing
<1>2. /\ t \in Buffers(h) /\ t.ring = b.ring /\ t.detached = b.detached
  BY <1>1, BufferHas DEF Buffers
<1>3. /\ Tidy(b.ring, d) /\ ~b.detached /\ b.newest = NewestId(b.ring) /\ d < RingCapacity
      /\ NewestId(b.ring) \in Nat
  <2>1. b.newest \in Nat
    BY BufferHas
  <2>2. QED BY <2>1 DEF Neat
<1> HIDE DEF t
<1>4. \A x \in Range(f.rows) : Clear(t.ring, x)
  BY <1>2 DEF Cleared
<1>5. ASSUME NEW c \in Buffers(h), Tidy(c.ring, d), c.detached = b.detached,
             NewestId(c.ring) >= NewestId(b.ring)
      PROVE  /\ Neat(RecomputeNewest([c EXCEPT !.hydrated = TRUE]), d)
             /\ RecomputeNewest([c EXCEPT !.hydrated = TRUE]).newest >= b.newest
  <2> DEFINE e == [c EXCEPT !.hydrated = TRUE]
  <2>1. e \in Buffers(h) /\ e.ring = c.ring /\ e.detached = c.detached
    <3>1. c \in Buffers(h)
      BY <1>5
    <3>2. QED BY <3>1 DEF Buffers
  <2> HIDE DEF e
  <2>2. Neat(RecomputeNewest(e), d) /\ RecomputeNewest(e).newest = NewestId(e.ring)
    BY <1>3, <1>5, <2>1, RecomputeTidy
  <2>3. QED BY <1>3, <1>5, <2>1, <2>2 DEF e
<1>6. CASE f.mode = "shell"
  <2>1. MergeBacklog(b, f) = RecomputeNewest(t)
    BY <1>6 DEF MergeBacklog, t
  <2>2. Neat(RecomputeNewest(t), d) /\ RecomputeNewest(t).newest = NewestId(t.ring)
    BY <1>2, <1>3, RecomputeTidy
  <2>3. QED BY <1>2, <1>3, <2>1, <2>2
<1>7. CASE f.mode = "append"
  <2> DEFINE c == Splice(t, f.rows)
  <2>1. MergeBacklog(b, f) = RecomputeNewest([c EXCEPT !.hydrated = TRUE])
    BY <1>7 DEF MergeBacklog, t
  <2>2. c \in Buffers(h)
    BY <1>1, <1>2, SpliceIs DEF Trimmed
  <2>3. Tidy(c.ring, d) /\ c.detached = t.detached /\ NewestId(c.ring) >= NewestId(t.ring)
    BY <1>1, <1>2, <1>3, <1>4, SpliceTidy
  <2> HIDE DEF c
  <2>4. QED BY <1>2, <1>5, <2>1, <2>2, <2>3
<1>8. CASE f.mode = "replace"
  <2> DEFINE c == Replace(t, f.rows)
  <2>1. MergeBacklog(b, f) = RecomputeNewest([c EXCEPT !.hydrated = TRUE])
    BY <1>8 DEF MergeBacklog, t
  <2>2. c \in Buffers(h)
    BY <1>1, <1>2, ReplaceIs DEF Trimmed
  <2>3. f.rows = <<>> => NewestId(t.ring) = 0
    BY <1>2, <1>3, <1>8
  <2>4. Tidy(c.ring, d) /\ c.detached = t.detached /\ NewestId(c.ring) >= NewestId(t.ring)
    BY <1>1, <1>2, <1>3, <1>4, <2>3, ReplaceTidy
  <2> HIDE DEF c
  <2>5. QED BY <1>2, <1>5, <2>1, <2>2, <2>4
<1>9. QED BY <1>1, <1>6, <1>7, <1>8 DEF Slices

LEMMA MergeHistoryTidy ==
  ASSUME NEW h \in Nat, NEW b \in Buffers(h), NEW d \in Nat, Neat(b, d),
         NEW f \in Frames(h), f.kind = "history", f.mode # "around", Cleared(b.ring, f.rows),
         f.mode = "latest" /\ f.rows = <<>> => b.newest = 0
  PROVE  Neat(MergeHistory(b, f), d) /\ MergeHistory(b, f).newest >= b.newest
<1> DEFINE t == [b EXCEPT !.moreOlder = f.moreOlder]
<1>1. f.mode \in Pages /\ f.rows \in Rising(h) /\ f.rows \in Rings(h) /\ f.rows \in Seq(0..h) /\ f.moreOlder \in BOOLEAN
  BY FrameHas, SliceIsRing
<1>2. /\ t \in Buffers(h) /\ t.ring = b.ring /\ t.detached = b.detached
  BY <1>1, BufferHas DEF Buffers
<1>3. /\ Tidy(b.ring, d) /\ ~b.detached /\ b.newest = NewestId(b.ring) /\ d < RingCapacity
      /\ NewestId(b.ring) \in Nat
  <2>1. b.newest \in Nat
    BY BufferHas
  <2>2. QED BY <2>1 DEF Neat
<1> HIDE DEF t
<1>4. CASE f.mode = "before"
  <2> DEFINE c == Splice(t, f.rows)
  <2>1. MergeHistory(b, f) = RecomputeNewest(c)
    BY <1>4 DEF MergeHistory, t
  <2>2. c \in Buffers(h)
    BY <1>1, <1>2, SpliceIs DEF Trimmed
  <2>3. \A x \in Range(f.rows) : Clear(t.ring, x)
    BY <1>2 DEF Cleared
  <2>4. Tidy(c.ring, d) /\ c.detached = t.detached /\ NewestId(c.ring) >= NewestId(t.ring)
    BY <1>1, <1>2, <1>3, <2>3, SpliceTidy
  <2> HIDE DEF c
  <2>5. Neat(RecomputeNewest(c), d) /\ RecomputeNewest(c).newest = NewestId(c.ring)
    BY <1>2, <1>3, <2>2, <2>4, RecomputeTidy
  <2>6. QED BY <1>2, <1>3, <2>1, <2>4, <2>5
<1>5. CASE f.mode = "latest"
  <2> DEFINE g == [t EXCEPT !.detached = FALSE]
             c == Replace(g, f.rows)
             e == [c EXCEPT !.hydrated = TRUE]
  <2>1. MergeHistory(b, f) = RecomputeNewest(e)
    BY <1>5 DEF MergeHistory, t
  <2>2. g \in Buffers(h) /\ g.ring = b.ring /\ ~g.detached
    <3>1. g \in Buffers(h) /\ g.ring = t.ring
      BY <1>2 DEF Buffers
    <3>2. ~g.detached
      BY <1>2 DEF Buffers
    <3>3. QED BY <1>2, <3>1, <3>2
  <2> HIDE DEF g
  <2>3. c \in Buffers(h)
    BY <1>1, <2>2, ReplaceIs DEF Trimmed
  <2>4. \A x \in Range(f.rows) : Clear(g.ring, x)
    BY <2>2 DEF Cleared
  <2>5. f.rows = <<>> => NewestId(g.ring) = 0
    BY <1>3, <1>5, <2>2
  <2>6. Tidy(c.ring, d) /\ c.detached = g.detached /\ NewestId(c.ring) >= NewestId(g.ring)
    BY <1>1, <1>3, <2>2, <2>4, <2>5, ReplaceTidy
  <2> HIDE DEF c
  <2>7. e \in Buffers(h) /\ e.ring = c.ring /\ e.detached = c.detached
    BY <2>3 DEF Buffers
  <2> HIDE DEF e
  <2>8. Neat(RecomputeNewest(e), d) /\ RecomputeNewest(e).newest = NewestId(e.ring)
    BY <1>3, <2>2, <2>6, <2>7, RecomputeTidy
  <2>9. QED BY <1>3, <2>1, <2>2, <2>6, <2>7, <2>8
<1>6. QED BY <1>1, <1>4, <1>5 DEF Pages

\* A live row newer than all that came before joins the end.
LEMMA AddLiveTidy ==
  ASSUME NEW h \in Nat, NEW b \in Buffers(h), NEW d \in Nat, Neat(b, d),
         NEW row \in 1..h, b.newest < row
  PROVE  Neat(AddLive(b, row), d) /\ AddLive(b, row).newest = row
<1> DEFINE r == InsertOrdered(b.ring, row)
           c == [b EXCEPT !.ring = r]
           t == Trim(c)
<1>1. /\ Tidy(b.ring, d) /\ ~b.detached /\ b.newest = NewestId(b.ring) /\ d < RingCapacity
      /\ b.ring \in Rings(h) /\ b.ring \in Seq(0..h) /\ b.newest \in Nat
  BY BufferHas, RingHas DEF Neat
<1>2. row \in 0..h /\ row # 0 /\ row \in Nat
  OBVIOUS
<1>3. \A x \in Ids(b.ring) : x < row
  <2>1. \A x \in Ids(b.ring) : x <= b.newest /\ x \in Nat
    <3>1. \A x \in Ids(b.ring) : x <= NewestId(b.ring)
      BY <1>1, NewestIs
    <3>2. \A x \in Ids(b.ring) : x \in Nat
      BY <1>1 DEF Ids, Range
    <3>3. QED BY <1>1, <3>1, <3>2
  <2>2. QED BY <1>1, <1>2, <2>1
<1>4. row \notin Ids(b.ring) /\ Clear(b.ring, row)
  <2>1. ~(row < row)
    BY <1>2
  <2>2. QED BY Zenon, <1>3, <2>1 DEF Clear
<1>5. r \in Rings(h) /\ r \in Seq(0..h)
  BY <1>1, <1>2, <1>4, InsertIs, RingHas
<1>6. Tidy(r, d) /\ Ids(r) = Ids(b.ring) \cup {row}
  <2> DEFINE g == b.ring
  <2>1. g \in Rings(h) /\ row \in 0..h /\ row # 0 /\ row \notin Ids(g) /\ Tidy(g, d) /\ Clear(g, row)
    BY <1>1, <1>2, <1>4
  <2> HIDE DEF g
  <2>2. Tidy(InsertOrdered(g, row), d) /\ Ids(InsertOrdered(g, row)) = Ids(g) \cup {row}
    BY <2>1, InsertTidy
  <2>3. QED BY <2>2 DEF g
<1> HIDE DEF r
<1>7. NewestId(r) = row
  <2>1. row \in Ids(r) /\ \A x \in Ids(r) : x < row \/ x = row
    BY <1>3, <1>6
  <2>2. NewestId(r) \in Nat /\ (NewestId(r) # 0 => NewestId(r) \in Ids(r)) /\ row <= NewestId(r)
    BY <1>5, <2>1, NewestIs
  <2>3. QED BY <1>2, <2>1, <2>2
<1>8. c \in Buffers(h) /\ c.ring = r /\ c.detached = b.detached /\ c.newest = b.newest
  BY <1>5, BufferHas DEF Buffers
<1>9. AddLive(b, row) = [t EXCEPT !.newest = IF row > @ THEN row ELSE @]
  BY <1>1 DEF AddLive, r
<1> HIDE DEF c
<1>10. /\ t \in Buffers(h) /\ t.newest = b.newest
       /\ Tidy(t.ring, d) /\ NewestId(t.ring) = row /\ t.detached = b.detached
  BY <1>1, <1>7, <1>6, <1>8, TrimIs, TrimTidy DEF Trimmed
<1> HIDE DEF t
<1>11. /\ AddLive(b, row).ring = t.ring /\ AddLive(b, row).detached = t.detached
       /\ AddLive(b, row).newest = row
  BY <1>1, <1>2, <1>9, <1>10 DEF Buffers
<1>12. QED BY <1>1, <1>10, <1>11 DEF Neat

\* A line without an id joins the end, one more of them.
LEMMA InjectTidy ==
  ASSUME NEW h \in Nat, NEW b \in Buffers(h), NEW d \in Nat, Neat(b, d), d + 1 < RingCapacity
  PROVE  Neat(Inject(b), d + 1) /\ Inject(b).newest = b.newest
<1> DEFINE r == Append(b.ring, 0)
           n == Len(b.ring)
           c == [b EXCEPT !.ring = r]
<1>1. /\ Tidy(b.ring, d) /\ ~b.detached /\ b.newest = NewestId(b.ring) /\ d < RingCapacity
      /\ b.ring \in Rings(h) /\ b.ring \in Seq(0..h) /\ b.newest \in Nat /\ n \in Nat
  BY BufferHas, RingHas DEF Neat
<1>2. r \in Rings(h) /\ r \in Seq(0..h) /\ Len(r) = n + 1
  <2>1. 0 \in 0..h
    OBVIOUS
  <2>2. QED BY <1>1, <2>1, AppendIs, RingHas
<1>3. \A i \in 1..n : r[i] = b.ring[i]
  BY <1>1, AppendProperties
<1>4. r[n + 1] = 0
  BY <1>1, AppendProperties
<1>5. /\ \A i, j \in 1..n : i < j /\ b.ring[i] # 0 /\ b.ring[j] # 0 => b.ring[i] < b.ring[j]
      /\ \A i \in 1..n : LastId(b.ring, i) => n - i <= d
  BY <1>1 DEF Tidy, Ascending, Near
<1>6. Inject(b) = Trim(c)
  BY DEF Inject, LocalRow
<1> HIDE DEF r
<1>7. \A i \in 1..(n + 1) : i \in 1..n \/ i = n + 1
  <2>1. n \in Nat
    BY <1>1
  <2> HIDE DEF n
  <2>2. QED BY <2>1
<1>8. Ascending(r)
  BY <1>2, <1>3, <1>4, <1>5, <1>7 DEF Ascending
<1>9. Near(r, d + 1)
  <2>1. SUFFICES ASSUME NEW i \in 1..(n + 1), LastId(r, i) PROVE (n + 1) - i <= d + 1
    BY <1>2 DEF Near
  <2>2. i \in 1..n /\ r[i] # 0
    BY <1>4, <1>7, <2>1 DEF LastId
  <2>3. \A j \in 1..n : j > i => b.ring[j] = 0
    <3>1. \A j \in 1..n : j \in 1..Len(r)
      BY <1>1, <1>2
    <3>2. QED BY <1>3, <2>1, <3>1 DEF LastId
  <2>4. LastId(b.ring, i)
    BY <1>3, <2>2, <2>3 DEF LastId
  <2>5. n - i <= d
    BY <1>5, <2>2, <2>4
  <2> HIDE DEF n
  <2>6. QED BY <1>1, <2>1, <2>5
<1>10. Ids(r) = Ids(b.ring)
  <2>1. \A x : x \in Ids(r) <=> x # 0 /\ \E i \in 1..(n + 1) : r[i] = x
    BY <1>2, IdsAre
  <2>2. \A x : x \in Ids(b.ring) <=> x # 0 /\ \E i \in 1..n : b.ring[i] = x
    BY <1>1, IdsAre
  <2>3. \A i \in 1..n : i \in 1..(n + 1)
    BY <1>1
  <2> HIDE DEF n
  <2>4. \A x : x \in Ids(r) => x \in Ids(b.ring)
    BY <1>3, <1>4, <1>7, <2>1, <2>2
  <2>5. \A x : x \in Ids(b.ring) => x \in Ids(r)
    BY <1>3, <2>1, <2>2, <2>3
  <2>6. QED BY <2>4, <2>5
<1>11. NewestId(r) = NewestId(b.ring)
  BY <1>10 DEF NewestId
<1>12. c \in Buffers(h) /\ c.ring = r /\ c.detached = b.detached /\ c.newest = b.newest
  BY <1>2, BufferHas DEF Buffers
<1> HIDE DEF c
<1>13. Tidy(c.ring, d + 1) /\ d + 1 \in Nat
  BY <1>8, <1>9, <1>12 DEF Tidy
<1> DEFINE e == d + 1
<1>14. Tidy(c.ring, e) /\ e \in Nat /\ e < RingCapacity
  BY <1>13
<1> HIDE DEF e
<1>15. /\ Trim(c).newest = c.newest /\ Trim(c).detached = c.detached
       /\ Tidy(Trim(c).ring, e) /\ NewestId(Trim(c).ring) = NewestId(c.ring)
  BY <1>12, <1>14, TrimIs, TrimTidy
<1>16. Neat(Trim(c), e)
  BY <1>1, <1>11, <1>12, <1>14, <1>15 DEF Neat
<1>17. QED BY <1>6, <1>12, <1>15, <1>16 DEF e


--------------------------------------------------------------------------------
(* No row's effects run twice *)

\* A live row has the newest id the log had when it was sent, and an empty slice that
\* may take the ring's place is sent while the log is empty: nothing that waits before
\* such a frame is above it, nor is the buffer.
AtTop(f, n) ==
  \/ f.kind = "irc" /\ f.row = n
  \/ f.kind \in {"backlog", "history"} /\ f.mode \in {"replace", "latest"} /\ f.rows = <<>> /\ n = 0

InTurn(q, m) ==
  \A j \in 1..Len(q) : \A n \in Nat :
    AtTop(q[j], n) => m <= n /\ \A i \in 1..Len(q) : i < j => q[i] \in Frames(n)

\* What joins the queue is at the top, or is not said to be.
LEMMA JoinTurn ==
  ASSUME NEW h \in Nat, NEW q \in Seq(Frames(h)), NEW m \in 0..h, InTurn(q, m),
         NEW s \in Seq(Frames(h)), \A i \in 1..Len(s) : \A n \in Nat : AtTop(s[i], n) => n = h
  PROVE  InTurn(q \o s, m)
<1> DEFINE c == q \o s
           a == Len(q)
           b == Len(s)
           W == Frames(h)
<1>1. a \in Nat /\ b \in Nat /\ q \in Seq(W) /\ s \in Seq(W)
  OBVIOUS
<1>2. \A i \in 1..a : q[i] \in W
  BY <1>1
<1>3. \A i \in 1..b : s[i] \in W
  BY <1>1
<1>4. \A j \in 1..a : \A n \in Nat :
        AtTop(q[j], n) => m <= n /\ \A i \in 1..a : i < j => q[i] \in Frames(n)
  BY DEF InTurn
<1>5. \A i \in 1..b : \A n \in Nat : AtTop(s[i], n) => n = h
  OBVIOUS
<1> HIDE DEF W
<1>6. Len(c) = a + b /\ \A i \in 1..(a + b) : c[i] = IF i <= a THEN q[i] ELSE s[i - a]
  BY Zenon, <1>1, ConcatProperties DEF a, b, c
<1> HIDE DEF c, a, b
<1>7. \A i \in 1..(a + b) : \/ i \in 1..a /\ c[i] = q[i]
                            \/ i > a /\ i - a \in 1..b /\ c[i] = s[i - a]
  BY <1>1, <1>6
<1>8. \A i \in 1..(a + b) : c[i] \in Frames(h)
  BY <1>2, <1>3, <1>7 DEF W
<1>9. ASSUME NEW j \in 1..(a + b), NEW n \in Nat, AtTop(c[j], n)
      PROVE  m <= n /\ \A i \in 1..(a + b) : i < j => c[i] \in Frames(n)
  <2>1. CASE j \in 1..a /\ c[j] = q[j]
    <3>1. m <= n /\ \A i \in 1..a : i < j => q[i] \in Frames(n)
      BY <1>4, <1>9, <2>1
    <3>2. \A i \in 1..(a + b) : i < j => i \in 1..a /\ c[i] = q[i]
      BY <1>1, <1>7, <2>1
    <3>3. QED BY <3>1, <3>2
  <2>2. CASE j - a \in 1..b /\ c[j] = s[j - a]
    <3>1. n = h
      BY <1>5, <1>9, <2>2
    <3>2. QED BY <1>8, <3>1
  <2>3. QED BY <1>7, <2>1, <2>2
<1>10. QED BY <1>6, <1>9 DEF InTurn, c

\* What is taken from the queue raises the buffer's newest id no further than to its own.
LEMMA TailTurn ==
  ASSUME NEW h \in Nat, NEW q \in Seq(Frames(h)), q # <<>>, NEW m, InTurn(q, m), NEW k,
         \A n \in Nat : m <= n /\ Head(q) \in Frames(n) => k <= n
  PROVE  InTurn(Tail(q), k)
<1> DEFINE t == Tail(q)
           a == Len(q)
<1>1. /\ a \in Nat /\ a >= 1 /\ Len(t) = a - 1 /\ Head(q) = q[1]
      /\ \A i \in 1..(a - 1) : t[i] = q[i + 1]
  BY HeadTailProperties
<1>2. \A j \in 1..a : \A n \in Nat :
        AtTop(q[j], n) => m <= n /\ \A i \in 1..a : i < j => q[i] \in Frames(n)
  BY DEF InTurn
<1> HIDE DEF t, a
<1>3. ASSUME NEW j \in 1..(a - 1), NEW n \in Nat, AtTop(t[j], n)
      PROVE  k <= n /\ \A i \in 1..(a - 1) : i < j => t[i] \in Frames(n)
  <2>1. j + 1 \in 1..a /\ 1 \in 1..a /\ 1 < j + 1 /\ t[j] = q[j + 1]
    BY <1>1
  <2>2. AtTop(q[j + 1], n)
    BY <1>3, <2>1
  <2>3. m <= n /\ \A i \in 1..a : i < j + 1 => q[i] \in Frames(n)
    BY <1>2, <2>1, <2>2
  <2>4. Head(q) \in Frames(n)
    BY <1>1, <2>1, <2>3
  <2>5. \A i \in 1..(a - 1) : i < j => i + 1 \in 1..a /\ i + 1 < j + 1 /\ t[i] = q[i + 1]
    BY <1>1
  <2>6. QED BY <2>3, <2>4, <2>5
<1>4. QED BY <1>1, <1>3 DEF InTurn, t

LEMMA HeadTurn ==
  ASSUME NEW h \in Nat, NEW q \in Seq(Frames(h)), q # <<>>, NEW m, InTurn(q, m),
         NEW n \in Nat, AtTop(Head(q), n)
  PROVE  m <= n
<1>1. 1 \in 1..Len(q) /\ Head(q) = q[1]
  BY HeadTailProperties, LenProperties
<1>2. QED BY <1>1 DEF InTurn

\* What is left of the queue when a connection is lost is in turn.
LEMMA PrefixTurn ==
  ASSUME NEW h \in Nat, NEW q \in Seq(Frames(h)), NEW m, InTurn(q, m), NEW k \in 0..Len(q)
  PROVE  InTurn(SubSeq(q, 1, k), m)
<1> DEFINE t == SubSeq(q, 1, k)
           a == Len(q)
<1>1. a \in Nat /\ k \in 0..a /\ \A i \in 1..k : q[i] \in Frames(h)
  OBVIOUS
<1>2. Len(t) = k /\ \A i \in 1..k : t[i] = q[i]
  <2> HIDE DEF a
  <2>1. /\ Len(t) = IF 1 <= k THEN k - 1 + 1 ELSE 0
        /\ \A i \in 1..(k - 1 + 1) : t[i] = q[1 + i - 1]
    BY <1>1, SubSeqProperties
  <2>2. QED BY <1>1, <2>1
<1>3. \A j \in 1..a : \A n \in Nat :
        AtTop(q[j], n) => m <= n /\ \A i \in 1..a : i < j => q[i] \in Frames(n)
  BY DEF InTurn
<1> HIDE DEF t, a
<1>4. \A i \in 1..k : i \in 1..a
  BY <1>1
<1>5. \A j \in 1..k : \A n \in Nat :
        AtTop(t[j], n) => m <= n /\ \A i \in 1..k : i < j => t[i] \in Frames(n)
  BY <1>2, <1>3, <1>4
<1>6. QED BY <1>2, <1>5 DEF InTurn, t

\* A frame that reports nothing above n leaves a buffer that holds nothing above n so.
LEMMA OfShorterLog ==
  ASSUME NEW h \in Nat, NEW b \in Current(h), NEW n \in Nat, b.newest <= n
  PROVE  b \in Current(n)
<1>1. b \in Buffers(h) /\ Len(b.ring) <= RingCapacity /\ b.ring \in Seq(0..b.newest)
  BY DEF Current, Trimmed
<1>2. b.newest \in 0..n /\ b.ring \in Rings(h)
  BY <1>1, BufferHas
<1>3. 0..b.newest \subseteq 0..n
  BY <1>2
<1>4. b.ring \in Seq(0..n)
  BY <1>1, <1>3, SeqMonotonic
<1>5. b.ring \in Rings(n)
  BY <1>2, <1>4 DEF Rings
<1>6. b \in Buffers(n)
  BY <1>1, <1>2, <1>5 DEF Buffers
<1>7. QED BY <1>1, <1>6 DEF Current, Trimmed

\* As long as no jump is applied, no row lands behind a line without an id, and fewer
\* such lines were shown than the ring holds: the buffer has lost none of its newest
\* rows, and what has run is of rows up to the newest.
Unspoiled == spoiled \cap {"jump", "local"} = {} /\ locals < RingCapacity
Ran == \A row \in Row : effects[row] <= 1 /\ (effects[row] > 0 => row <= buf.newest)

OnceInv == InTurn(frames, buf.newest) /\ (Unspoiled => Neat(buf, locals) /\ Ran)

\* What leaves the buffer alone keeps the invariant if the queue stays in turn.
LEMMA QuietOnce ==
  ASSUME OnceInv, buf' = buf, effects' = effects, locals' = locals, spoiled \subseteq spoiled',
         InTurn(frames', buf.newest)
  PROVE  OnceInv'
<1>1. Unspoiled' => Unspoiled
  BY DEF Unspoiled
<1>2. Ran => Ran'
  BY DEF Ran
<1>3. Neat(buf, locals) => Neat(buf', locals')
  BY Zenon
<1>4. InTurn(frames', buf'.newest)
  OBVIOUS
<1>5. Unspoiled' => Neat(buf', locals') /\ Ran'
  BY Zenon, <1>1, <1>2, <1>3 DEF OnceInv
<1>6. QED BY <1>4, <1>5 DEF OnceInv

\* A slice that does not put a row behind a line without an id finds its way clear.
LEMMA ClearedIs ==
  ASSUME NEW h \in Nat, buf \in Current(h), NEW f \in Frames(h), f.kind \in {"backlog", "history"},
         ~BehindLocalRow(f)
  PROVE  Cleared(buf.ring, f.rows)
<1>1. f.rows \in Rising(h) /\ f.rows \in Seq(0..h)
  BY FrameHas, SliceIsRing
<1>2. buf.ring \in Seq(0..h)
  BY BufferHas, RingHas DEF Current, Trimmed
<1> DEFINE r == buf.ring
           m == NewestId(r)
<1>3. Ids(f.rows) = Range(f.rows)
  BY <1>1, SliceTidy, 0 \in Nat
<1>4. SUFFICES ASSUME NEW x \in Ids(f.rows), r # <<>>, Last(r) = 0, x \notin Ids(r)
               PROVE  \A y \in Ids(r) : y < x
  BY <1>3 DEF Cleared, Clear
<1>5. ~(x < m)
  BY <1>4 DEF BehindLocalRow, LocalRow
<1>6. \A y \in Ids(r) : y <= m
  BY <1>2, NewestIs
<1>7. m \in Nat
  BY <1>2, NewestIs
<1>8. x \in Nat /\ \A y \in Ids(r) : y \in Nat
  BY <1>1, <1>2 DEF Ids, Range
<1>9. \A y \in Ids(r) : y # x
  BY <1>4
<1> HIDE DEF m, r
<1>10. QED BY <1>5, <1>6, <1>7, <1>8, <1>9

\* What a slice leaves of a buffer that is in order, if it is no jump and puts no row
\* behind a line without an id
LEMMA SliceNeat ==
  ASSUME RingInv, OnceInv, Unspoiled, frames # <<>>,
         NEW f, f = Head(frames), f.kind \in {"backlog", "history"}, f.mode # "around", ~BehindLocalRow(f),
         NEW b, b = IF f.kind = "backlog" THEN MergeBacklog(buf, f) ELSE MergeHistory(buf, f)
  PROVE  Cleared(buf.ring, f.rows) /\ Neat(b, locals) /\ b.newest >= buf.newest
<1>1. PICK h : h = head
  OBVIOUS
<1>2. h \in Nat /\ buf \in Current(h) /\ buf \in Buffers(h) /\ frames \in Seq(Frames(h))
  BY <1>1, QueueHas DEF RingInv, Stock
<1>3. f \in Frames(h)
  BY <1>1, QueueHas DEF RingInv
<1>4. Neat(buf, locals) /\ InTurn(frames, buf.newest)
  BY DEF OnceInv
<1>5. locals \in Nat
  BY <1>4 DEF Neat
<1>6. Cleared(buf.ring, f.rows)
  BY <1>2, <1>3, ClearedIs
<1>7. buf.newest \in Nat
  BY <1>2, BufferHas
<1>8. f.mode \in {"replace", "latest"} /\ f.rows = <<>> => buf.newest = 0
  <2>1. SUFFICES ASSUME f.mode \in {"replace", "latest"}, f.rows = <<>> PROVE buf.newest = 0
    OBVIOUS
  <2>2. AtTop(Head(frames), 0) /\ 0 \in Nat
    BY <2>1 DEF AtTop
  <2>3. buf.newest <= 0
    BY <1>2, <1>4, <2>2, HeadTurn
  <2>4. QED BY <1>7, <2>3
<1>9. CASE f.kind = "backlog"
  <2>1. b = MergeBacklog(buf, f)
    BY <1>9
  <2>2. f.mode = "replace" /\ f.rows = <<>> => buf.newest = 0
    BY <1>8
  <2>3. QED BY <1>2, <1>3, <1>4, <1>5, <1>6, <1>9, <2>1, <2>2, MergeBacklogTidy
<1>10. CASE f.kind = "history"
  <2>1. b = MergeHistory(buf, f)
    BY <1>10
  <2>2. f.mode = "latest" /\ f.rows = <<>> => buf.newest = 0
    BY <1>8
  <2>3. QED BY <1>2, <1>3, <1>4, <1>5, <1>6, <1>10, <2>1, <2>2, MergeHistoryTidy
<1>11. QED BY <1>9, <1>10

LEMMA ApplySliceOnce ==
  ASSUME RingInv, OnceInv, Takes, ApplySlice(Head(frames)),
         Head(frames).kind \in {"backlog", "history"}, UNCHANGED <<server, counts>>
  PROVE  OnceInv'
<1>1. PICK h : h = head
  OBVIOUS
<1>2. PICK f : f = Head(frames)
  OBVIOUS
<1>3. PICK b : b = IF f.kind = "backlog" THEN MergeBacklog(buf, f) ELSE MergeHistory(buf, f)
  OBVIOUS
<1>4. h \in Nat /\ buf \in Current(h) /\ buf \in Buffers(h) /\ frames \in Seq(Frames(h)) /\ frames # <<>>
  BY <1>1, QueueHas DEF RingInv, Stock, Takes
<1>5. f \in Frames(h) /\ f.kind \in {"backlog", "history"} /\ frames' = Tail(frames)
  BY <1>1, <1>2, QueueHas DEF RingInv, Takes
<1>6. buf' = b /\ spoiled' = spoiled \cup StruckBy(f, b) /\ effects' = effects /\ locals' = locals
  BY <1>2, <1>3 DEF ApplySlice, counts
<1>7. InTurn(frames', b.newest)
  <2>1. ASSUME NEW n \in Nat, buf.newest <= n, Head(frames) \in Frames(n) PROVE b.newest <= n
    <3>1. buf \in Current(n) /\ f \in Frames(n)
      BY <1>2, <1>4, <2>1, OfShorterLog
    <3>2. buf \in Trimmed(n) /\ buf \in Buffers(n)
      BY <3>1 DEF Current, Trimmed
    <3>3. b \in Current(n)
      <4>1. CASE f.kind = "backlog"
        BY <1>3, <3>1, <3>2, <4>1, MergeBacklogIs
      <4>2. CASE f.kind = "history"
        <5>1. b = MergeHistory(buf, f)
          BY <1>3, <4>2
        <5>2. QED BY <3>1, <3>2, <4>2, <5>1, MergeHistoryIs
      <4>3. QED BY <1>5, <4>1, <4>2
    <3>4. b.newest \in 0..n
      BY <3>3, BufferHas DEF Current, Trimmed
    <3>5. QED BY <3>4
  <2>2. InTurn(frames, buf.newest)
    BY DEF OnceInv
  <2>3. \A n \in Nat : buf.newest <= n /\ Head(frames) \in Frames(n) => b.newest <= n
    BY <2>1
  <2>4. InTurn(Tail(frames), b.newest)
    BY <1>4, <2>2, <2>3, TailTurn
  <2>5. QED BY <1>5, <2>4
<1>8. ASSUME Unspoiled' PROVE Neat(b, locals) /\ Ran'
  <2>1. Unspoiled /\ "jump" \notin StruckBy(f, b) /\ "local" \notin StruckBy(f, b)
    BY <1>6, <1>8 DEF Unspoiled
  <2>2. f.mode # "around" /\ ~BehindLocalRow(f)
    BY <2>1 DEF StruckBy, Hazards
  <2>3. Neat(buf, locals) /\ Ran
    BY <2>1 DEF OnceInv
  <2>4. buf.newest \in Nat
    BY <1>4, BufferHas
  <2>5. Neat(b, locals) /\ b.newest >= buf.newest
    BY <1>2, <1>3, <1>4, <1>5, <2>1, <2>2, SliceNeat
  <2>6. b.newest \in Nat
    <3>1. buf \in Trimmed(h)
      BY <1>4 DEF Current
    <3>2. CASE f.kind = "backlog"
      <4>1. b \in Current(h)
        BY <1>3, <1>4, <1>5, <3>1, <3>2, MergeBacklogIs
      <4>2. QED BY <4>1, BufferHas DEF Current, Trimmed
    <3>3. CASE f.kind = "history"
      <4>1. b = MergeHistory(buf, f)
        BY <1>3, <3>3
      <4>2. b \in Current(h)
        BY <1>4, <1>5, <3>3, <4>1, MergeHistoryIs
      <4>3. QED BY <4>2, BufferHas DEF Current, Trimmed
    <3>4. QED BY <1>5, <3>2, <3>3
  <2>7. \A row \in Row : row <= buf.newest => row <= b.newest
    <3>1. \A row \in Row : row \in Nat
      BY DEF Row
    <3>2. QED BY <2>4, <2>5, <2>6, <3>1
  <2>8. Ran'
    BY <1>6, <2>3, <2>7 DEF Ran
  <2>9. QED BY <2>5, <2>8
<1>9. QED BY <1>6, <1>7, <1>8 DEF OnceInv

LEMMA ApplyLiveOnce ==
  ASSUME RingInv, OnceInv, Takes, ApplyLive(Head(frames).row), Head(frames).kind = "irc",
         UNCHANGED <<server, counts>>
  PROVE  OnceInv'
<1>1. PICK h : h = head
  OBVIOUS
<1>2. PICK row : row = Head(frames).row
  OBVIOUS
<1>3. h \in Nat /\ buf \in Current(h) /\ buf \in Buffers(h) /\ frames \in Seq(Frames(h)) /\ frames # <<>>
  BY <1>1, QueueHas DEF RingInv, Stock, Takes
<1>4. row \in 1..h /\ Head(frames) \in Frames(h) /\ frames' = Tail(frames) /\ locals' = locals
  BY <1>1, <1>2, QueueHas, FrameHas DEF RingInv, Takes, counts
<1>5. InTurn(frames, buf.newest) /\ effects \in [Row -> Nat] /\ buf.newest \in 0..h
  BY <1>3, BufferHas DEF OnceInv, RingInv, Notes
<1>6. CASE Replayed(buf, row)
  <2>1. buf' = buf /\ effects' = effects /\ spoiled' = spoiled
    BY <1>2, <1>6 DEF ApplyLive
  <2>2. InTurn(Tail(frames), buf.newest)
    BY <1>3, <1>5, TailTurn
  <2>3. QED BY <1>4, <2>1, <2>2, QuietOnce
<1>7. CASE ~Replayed(buf, row)
  <2> DEFINE b == AddLive(buf, row)
  <2>1. /\ buf' = b /\ spoiled \subseteq spoiled'
        /\ effects' = IF Fresh(buf, row) THEN [effects EXCEPT ![row] = effects[row] + 1] ELSE effects
    BY <1>2, <1>7 DEF ApplyLive
  <2>2. InTurn(frames', b.newest)
    <3>1. ASSUME NEW n \in Nat, buf.newest <= n, Head(frames) \in Frames(n) PROVE b.newest <= n
      <4>1. buf \in Current(n) /\ row \in 1..n
        BY <1>2, <1>3, <3>1, OfShorterLog, FrameHas
      <4>2. b \in Current(n)
        BY <1>7, <4>1, AddLiveIs
      <4> HIDE DEF b
      <4>3. b.newest \in 0..n
        BY <4>2, BufferHas DEF Current, Trimmed
      <4>4. QED BY <4>3
    <3> HIDE DEF b
    <3>2. \A n \in Nat : buf.newest <= n /\ Head(frames) \in Frames(n) => b.newest <= n
      BY <3>1
    <3>3. InTurn(Tail(frames), b.newest)
      BY <1>3, <1>5, <3>2, TailTurn
    <3>4. QED BY <1>4, <3>3
  <2>3. ASSUME Unspoiled' PROVE Neat(b, locals) /\ Ran'
    <3>1. Unspoiled
      BY <1>4, <2>1, <2>3 DEF Unspoiled
    <3>2. Neat(buf, locals) /\ Ran
      BY <3>1 DEF OnceInv
    <3>3. AtTop(Head(frames), row) /\ row \in Nat
      BY <1>2, <1>4 DEF AtTop
    <3>4. buf.newest <= row
      BY <1>3, <1>5, <3>3, HeadTurn
    <3>5. buf.newest # row
      <4>1. SUFFICES ASSUME buf.newest = row PROVE FALSE
        OBVIOUS
      <4>2. NewestId(buf.ring) = row /\ buf.ring \in Seq(0..h)
        BY <1>3, <3>2, <4>1, BufferHas, RingHas DEF Neat
      <4>3. row \in Ids(buf.ring)
        BY <1>3, <1>4, <4>2, NewestIs
      <4>4. ~Fresh(buf, row)
        BY <3>3, <4>1 DEF Fresh
      <4>5. QED BY <1>7, <4>3, <4>4 DEF Replayed
    <3>6. buf.newest < row /\ buf.newest \in Nat
      BY <1>5, <3>3, <3>4, <3>5
    <3>7. Neat(b, locals) /\ b.newest = row
      <4>1. locals \in Nat
        BY <3>2 DEF Neat
      <4>2. QED BY <1>3, <1>4, <3>2, <3>6, <4>1, AddLiveTidy
    <3>8. Fresh(buf, row)
      BY <3>3, <3>6 DEF Fresh
    <3>9. effects' = [effects EXCEPT ![row] = effects[row] + 1]
      BY <2>1, <3>8
    <3> HIDE DEF b
    <3>10. \A x \in Row : effects[x] \in Nat /\ effects[x] <= 1 /\ (effects[x] > 0 => x <= buf.newest)
      BY <1>5, <3>2 DEF Ran
    <3>11. ASSUME NEW x \in Row PROVE effects'[x] <= 1 /\ (effects'[x] > 0 => x <= row)
      <4>1. CASE x = row
        <5>1. effects[x] = 0 /\ effects'[x] = effects[x] + 1
          <6>1. ~(x <= buf.newest)
            BY <3>3, <3>6, <4>1
          <6>2. effects[x] = 0
            BY <3>10, <6>1
          <6>3. effects'[x] = effects[x] + 1
            BY <1>5, <3>9, <4>1
          <6>4. QED BY <6>2, <6>3
        <5>2. QED BY <3>3, <4>1, <5>1
      <4>2. CASE x # row
        <5>1. effects'[x] = effects[x]
          BY <1>5, <3>9, <4>2
        <5>2. x \in Nat
          BY DEF Row
        <5>3. QED BY <3>3, <3>6, <3>10, <5>1, <5>2
      <4>3. QED BY <4>1, <4>2
    <3>12. Ran'
      BY <2>1, <3>7, <3>11 DEF Ran
    <3>13. QED BY <3>7, <3>12
  <2> HIDE DEF b
  <2>4. QED BY <1>4, <2>1, <2>2, <2>3 DEF OnceInv
<1>8. QED BY <1>6, <1>7

LEMMA ApplyFrameOnce ==
  ASSUME RingInv, OnceInv, ApplyFrame PROVE OnceInv'
<1>1. Takes /\ UNCHANGED <<server, counts>>
  BY DEF ApplyFrame
<1>2. CASE Head(frames).kind = "snapshot" /\ ApplySnapshot(Head(frames))
  <2>1. buf' = buf /\ effects' = effects /\ spoiled \subseteq spoiled' /\ locals' = locals
    BY <1>1, <1>2 DEF ApplySnapshot, counts
  <2>2. PICK h : h = head
    OBVIOUS
  <2>3. h \in Nat /\ frames \in Seq(Frames(h)) /\ frames # <<>> /\ frames' = Tail(frames)
    BY <1>1, <2>2, QueueHas DEF RingInv, Stock, Takes
  <2>4. InTurn(frames, buf.newest)
    BY DEF OnceInv
  <2>5. InTurn(Tail(frames), buf.newest)
    BY <2>3, <2>4, TailTurn
  <2>6. QED BY <2>1, <2>3, <2>5, QuietOnce
<1>3. CASE Head(frames).kind \in {"backlog", "history"} /\ ApplySlice(Head(frames))
  BY <1>1, <1>3, ApplySliceOnce
<1>4. CASE Head(frames).kind = "irc" /\ ApplyLive(Head(frames).row)
  BY <1>1, <1>4, ApplyLiveOnce
<1>5. QED BY <1>2, <1>3, <1>4 DEF ApplyFrame

LEMMA InjectOnce == ASSUME RingInv, OnceInv, InjectLine PROVE OnceInv'
<1>1. PICK h : h = head
  OBVIOUS
<1>2. h \in Nat /\ buf \in Buffers(h)
  BY <1>1, QueueHas DEF RingInv
<1>3. /\ buf' = Inject(buf) /\ locals' = locals + 1 /\ frames' = frames /\ effects' = effects
      /\ spoiled \subseteq spoiled' /\ locals \in Nat /\ RingCapacity \in Nat
  BY RingAssumption, BoundAssumption DEF InjectLine, RingInv, Notes
<1>4. Inject(buf).newest = buf.newest
  <2>1. [buf EXCEPT !.ring = Append(@, LocalRow)].newest = buf.newest
    BY <1>2 DEF Buffers
  <2>2. QED BY <2>1 DEF Inject, Trim
<1>5. ASSUME Unspoiled' PROVE Neat(Inject(buf), locals + 1) /\ Ran'
  <2>1. Unspoiled /\ locals + 1 < RingCapacity
    BY <1>3, <1>5 DEF Unspoiled
  <2>2. Neat(buf, locals) /\ Ran
    BY <2>1 DEF OnceInv
  <2>3. Neat(Inject(buf), locals + 1)
    BY <1>2, <1>3, <2>1, <2>2, InjectTidy
  <2>4. Ran'
    BY <1>3, <1>4, <2>2 DEF Ran
  <2>5. QED BY <2>3, <2>4
<1>6. InTurn(frames', buf'.newest)
  BY <1>3, <1>4 DEF OnceInv
<1>7. QED BY <1>3, <1>5, <1>6 DEF OnceInv

LEMMA PostOnce == ASSUME RingInv, OnceInv, Post PROVE OnceInv'
<1>1. PICK h : h = head
  OBVIOUS
<1>2. /\ h \in Nat /\ h + 1 \in Nat /\ h <= h + 1 /\ frames \in Seq(Frames(h)) /\ buf \in Buffers(h)
      /\ InTurn(frames, buf.newest)
  BY <1>1, QueueHas DEF RingInv, Stock, OnceInv
<1>3. /\ buf' = buf /\ effects' = effects /\ spoiled' = spoiled /\ locals' = locals
      /\ frames' = frames \/ frames' = Append(frames, Live(h + 1))
  BY <1>1 DEF Post, counts
<1>4. InTurn(Append(frames, Live(h + 1)), buf.newest)
  <2> DEFINE n == h + 1
             s == <<Live(n)>>
  <2>1. frames \in Seq(Frames(n)) /\ n \in Nat
    BY <1>2, LogGrows, SeqMonotonic
  <2>2. buf.newest \in 0..n
    <3>1. buf.newest \in 0..h
      BY <1>2, BufferHas
    <3>2. QED BY <1>2, <3>1
  <2>3. Live(n) \in Frames(n)
    BY <1>2 DEF Live, Frames
  <2> HIDE DEF n
  <2>4. s \in Seq(Frames(n)) /\ Len(s) = 1 /\ s[1] = Live(n)
    BY <2>3
  <2>5. \A i \in 1..Len(s) : \A k \in Nat : AtTop(s[i], k) => k = n
    <3>1. \A k \in Nat : AtTop(Live(n), k) => k = n
      BY DEF AtTop, Live
    <3>2. QED BY <2>4, <3>1
  <2>6. Append(frames, Live(n)) = frames \o s
    BY <2>1, <2>3, AppendIsConcat
  <2> HIDE DEF s
  <2>7. InTurn(frames \o s, buf.newest)
    BY <1>2, <2>1, <2>2, <2>4, <2>5, JoinTurn
  <2>8. QED BY <2>6, <2>7 DEF n
<1>5. QED BY <1>2, <1>3, <1>4, QuietOnce

\* A burst holds no live row, and no empty slice that replaces.
LEMMA BurstsTurn ==
  ASSUME head \in Nat, NEW since \in 0..head, NEW burst \in Bursts(since),
         NEW i \in 1..Len(burst), NEW n \in Nat
  PROVE  ~AtTop(burst[i], n)
<1> DEFINE newest == Ending(head, HydrateLimit)
           gap == Slice(since + 1, head)
           more == newest[1] > 1
<1>1. \A rows, m : \A mode \in {"shell", "append"} : ~AtTop(Backlog(mode, rows, m), n)
  BY DEF AtTop, Backlog
<1>2. ~AtTop(Snapshot, n)
  BY DEF AtTop, Snapshot
<1> DEFINE a == Backlog("shell", <<>>, head > 0)
           b == Backlog("shell", <<>>, TRUE)
           c == Backlog("append", gap, TRUE)
           d == Backlog("replace", newest, more)
           s == Snapshot
<1>3. burst = <<s, a>> \/ burst = <<b>> \/ burst = <<c>> \/ (since # 0 /\ burst = <<d>>)
  BY DEF Bursts
<1>4. since # 0 => newest # <<>>
  <2>1. SUFFICES ASSUME since # 0 PROVE newest # <<>>
    OBVIOUS
  <2>2. head \in Nat /\ head >= 1 /\ HydrateLimit \in Nat /\ HydrateLimit >= 1
    BY <2>1, LimitAssumption
  <2>3. PICK from \in Nat : newest = Slice(from, head) /\ from <= head
    BY <2>2 DEF Ending
  <2>4. 1 \in DOMAIN Slice(from, head)
    BY <2>2, <2>3 DEF Slice
  <2>5. QED BY <2>3, <2>4
<1>5. since # 0 => ~AtTop(d, n)
  <2> HIDE DEF newest, more
  <2>1. QED BY <1>4 DEF AtTop, Backlog
<1>6. ~AtTop(s, n) /\ ~AtTop(a, n) /\ ~AtTop(b, n) /\ ~AtTop(c, n)
  <2> DEFINE m == head > 0
  <2> HIDE DEF newest, gap, more, m
  <2>1. ~AtTop(Backlog("shell", <<>>, m), n)
    BY <1>1
  <2>2. ~AtTop(b, n) /\ ~AtTop(c, n)
    BY <1>1
  <2>3. QED BY <1>2, <2>1, <2>2 DEF m
<1> HIDE DEF a, b, c, d, s
<1>7. CASE burst = <<s, a>>
  <2>1. Len(burst) = 2 /\ burst[1] = s /\ burst[2] = a
    BY <1>7
  <2>2. QED BY <1>6, <2>1
<1>8. CASE burst = <<b>> \/ burst = <<c>> \/ (since # 0 /\ burst = <<d>>)
  <2>1. Len(burst) = 1 /\ (burst[1] = b \/ burst[1] = c \/ (since # 0 /\ burst[1] = d))
    BY <1>8
  <2>2. QED BY <1>5, <1>6, <2>1
<1>9. QED BY <1>3, <1>7, <1>8

LEMMA ConnectOnce == ASSUME RingInv, OnceInv, Connect PROVE OnceInv'
<1>1. PICK h : h = head
  OBVIOUS
<1>2. /\ h \in Nat /\ cursor \in 0..h /\ frames \in Seq(Frames(h)) /\ buf \in Buffers(h)
      /\ InTurn(frames, buf.newest)
  BY <1>1, QueueHas DEF RingInv, Stock, OnceInv
<1>3. buf' = buf /\ effects' = effects /\ spoiled' = spoiled /\ locals' = locals
  BY DEF Connect, counts
<1>4. PICK burst \in Bursts(cursor) :
         \/ frames' = frames \o burst
         \/ cursor < head /\ frames' = frames \o <<Live(head)>> \o burst
  BY DEF Connect
<1>5. /\ burst \in Seq(Frames(h)) /\ \A i \in 1..Len(burst) : \A n \in Nat : AtTop(burst[i], n) => n = h
      /\ buf.newest \in 0..h
  <2>1. burst \in Seq(Frames(h))
    BY <1>1, <1>2, BurstsAre
  <2>2. \A i \in 1..Len(burst) : \A n \in Nat : ~AtTop(burst[i], n)
    BY <1>1, <1>2, BurstsTurn
  <2>3. buf.newest \in 0..h
    BY <1>2, BufferHas
  <2>4. QED BY <2>1, <2>2, <2>3
<1>6. InTurn(frames \o burst, buf.newest)
  BY <1>2, <1>5, JoinTurn
<1>7. cursor < h => InTurn(frames \o <<Live(h)>> \o burst, buf.newest)
  <2> SUFFICES ASSUME cursor < h PROVE InTurn(frames \o <<Live(h)>> \o burst, buf.newest)
    OBVIOUS
  <2> DEFINE s == <<Live(h)>>
             q == frames \o s
  <2>1. Live(h) \in Frames(h)
    BY <1>2 DEF Live, Frames
  <2>2. s \in Seq(Frames(h)) /\ Len(s) = 1 /\ s[1] = Live(h)
    BY <2>1
  <2>3. \A i \in 1..Len(s) : \A n \in Nat : AtTop(s[i], n) => n = h
    <3>1. \A n \in Nat : AtTop(Live(h), n) => n = h
      BY DEF AtTop, Live
    <3>2. QED BY <2>2, <3>1
  <2> HIDE DEF s
  <2>4. InTurn(q, buf.newest)
    BY <1>2, <1>5, <2>2, <2>3, JoinTurn
  <2>5. q \in Seq(Frames(h))
    BY Zenon, <1>2, <2>2, ConcatProperties
  <2> HIDE DEF q
  <2>6. InTurn(q \o burst, buf.newest)
    BY <1>2, <1>5, <2>4, <2>5, JoinTurn
  <2>7. QED BY <2>6 DEF q, s
<1>8. InTurn(frames', buf.newest)
  BY <1>1, <1>4, <1>6, <1>7
<1>9. QED BY <1>3, <1>8, QuietOnce

LEMMA AnswerOnce == ASSUME RingInv, OnceInv, Answer PROVE OnceInv'
<1>1. PICK h : h = head
  OBVIOUS
<1>2. PICK request : request = Head(requests)
  OBVIOUS
<1>3. /\ h \in Nat /\ frames \in Seq(Frames(h)) /\ buf \in Buffers(h) /\ request \in Asked(h)
      /\ InTurn(frames, buf.newest)
  BY <1>1, <1>2, QueueHas DEF RingInv, Stock, OnceInv, Answer
<1>4. buf' = buf /\ effects' = effects /\ spoiled' = spoiled /\ locals' = locals
  BY DEF Answer, counts
<1>5. PICK reply \in Answers(request) : frames' = Append(frames, reply)
  BY <1>2 DEF Answer
<1>6. reply \in Frames(h)
  BY <1>1, <1>3, AnswersAre
<1>7. ASSUME NEW n \in Nat, AtTop(reply, n) PROVE n = h
  <2>1. CASE request.mode = "latest"
    <3> DEFINE rows == Ending(head, HydrateLimit)
    <3>1. reply = History("latest", rows)
      BY <2>1 DEF Answers
    <3>2. h >= 1 => rows # <<>>
      <4>1. SUFFICES ASSUME h >= 1 PROVE rows # <<>>
        OBVIOUS
      <4>2. head \in Nat /\ head >= 1 /\ HydrateLimit \in Nat /\ HydrateLimit >= 1
        BY <1>1, <1>3, <4>1, LimitAssumption
      <4>3. PICK from \in Nat : rows = Slice(from, head) /\ from <= head
        BY <4>2 DEF Ending
      <4>4. 1 \in DOMAIN Slice(from, head)
        BY <4>2, <4>3 DEF Slice
      <4>5. QED BY <4>3, <4>4
    <3> HIDE DEF rows
    <3>3. reply.kind = "history" /\ reply.rows = rows
      BY <3>1 DEF History
    <3>4. rows = <<>> /\ n = 0
      BY <1>7, <3>3 DEF AtTop
    <3>5. QED BY <1>3, <3>2, <3>4
  <2>2. CASE request.mode = "before"
    <3>1. PICK rows : reply = History("before", rows)
      BY <2>2 DEF Answers
    <3>2. QED BY <1>7, <3>1 DEF AtTop, History
  <2>3. CASE request.mode = "around"
    <3>1. PICK rows : reply = History("around", rows)
      BY <2>3 DEF Answers
    <3>2. QED BY <1>7, <3>1 DEF AtTop, History
  <2>4. QED BY <1>3, <2>1, <2>2, <2>3 DEF Asked
<1> DEFINE s == <<reply>>
<1>8. s \in Seq(Frames(h)) /\ Len(s) = 1 /\ s[1] = reply
  BY <1>6
<1>9. Append(frames, reply) = frames \o s
  BY <1>3, <1>6, AppendIsConcat
<1> HIDE DEF s
<1>10. \A i \in 1..Len(s) : \A n \in Nat : AtTop(s[i], n) => n = h
  BY <1>7, <1>8
<1>11. buf.newest \in 0..h
  BY <1>3, BufferHas
<1>12. InTurn(frames \o s, buf.newest)
  BY <1>3, <1>8, <1>10, <1>11, JoinTurn
<1>13. QED BY <1>4, <1>5, <1>9, <1>12, QuietOnce

LEMMA LoseOnce == ASSUME RingInv, OnceInv, Lose PROVE OnceInv'
<1>1. PICK h : h = head
  OBVIOUS
<1>2. h \in Nat /\ frames \in Seq(Frames(h)) /\ InTurn(frames, buf.newest)
  BY <1>1, QueueHas DEF RingInv, Stock, OnceInv
<1>3. buf' = buf /\ effects' = effects /\ locals' = locals /\ spoiled \subseteq spoiled'
  BY DEF Lose
<1>4. PICK k \in 0..Len(frames) : frames' = SubSeq(frames, 1, k)
  BY DEF Lose
<1>5. InTurn(frames', buf.newest)
  BY <1>2, <1>4, PrefixTurn
<1>6. QED BY <1>3, <1>5, QuietOnce

\* It holds throughout.
LEMMA OnceInvHolds == Spec => []OnceInv
<1>1. Init => OnceInv
  <2> SUFFICES ASSUME Init PROVE OnceInv
    OBVIOUS
  <2>1. frames = <<>> /\ buf = EmptyBuffer /\ locals = 0 /\ effects = [row \in Row |-> 0]
    BY DEF Init
  <2>2. InTurn(frames, buf.newest)
    BY <2>1 DEF InTurn
  <2>3. Neat(buf, locals)
    <3>1. buf.ring = <<>> /\ buf.newest = 0 /\ ~buf.detached
      BY <2>1 DEF EmptyBuffer, NoId
    <3>2. Ids(<<>>) = {}
      BY DEF Ids, Range
    <3>3. Tidy(<<>>, 0) /\ NewestId(<<>>) = 0
      BY <3>2 DEF Tidy, Ascending, Near, NewestId, NoId
    <3>4. QED BY <2>1, <3>1, <3>3, RingAssumption DEF Neat
  <2>4. Ran
    BY <2>1 DEF Ran
  <2>5. QED BY <2>2, <2>3, <2>4 DEF OnceInv
<1>2. RingInv /\ OnceInv /\ [Next]_vars => OnceInv'
  <2> SUFFICES ASSUME RingInv, OnceInv, [Next]_vars PROVE OnceInv'
    OBVIOUS
  <2>1. CASE ApplyFrame
    BY <2>1, ApplyFrameOnce
  <2>2. ASSUME buf' = buf, effects' = effects, locals' = locals, spoiled' = spoiled, frames' = frames
        PROVE  OnceInv'
    BY <2>2, QuietOnce DEF OnceInv
  <2>3. CASE Activate \/ ScrollToTop \/ OpenResult \/ ReturnToPresent
    BY <2>2, <2>3 DEF Activate, ScrollToTop, OpenResult, ReturnToPresent, counts
  <2>4. CASE InjectLine
    BY <2>4, InjectOnce
  <2>5. CASE Server
    BY <2>5, PostOnce, ConnectOnce, AnswerOnce, LoseOnce DEF Server
  <2>6. CASE UNCHANGED vars
    BY <2>2, <2>6 DEF vars, counts
  <2>7. QED BY <2>1, <2>3, <2>4, <2>5, <2>6 DEF Next, Window
<1>3. QED BY <1>1, <1>2, RingInvHolds, PTL DEF Spec

\* However often a connection is lost and resumed, and whatever the gap-fills, pages and
\* replays that come with it, the effects of a row run at most once, for every limit the
\* client sets to its ring and to a merge: until a jump is applied, a row lands behind a
\* line without an id, or as many of those were shown as the ring holds.
THEOREM EffectsRunOnce == Spec => []EffectsOnce
<1>1. OnceInv => EffectsOnce
  BY DEF OnceInv, Unspoiled, Ran, EffectsOnce
<1>2. QED BY <1>1, OnceInvHolds, PTL

--------------------------------------------------------------------------------
(* What the frames on their way lead to *)

\* A slice is a run of the log, and says that older rows remain unless it begins with
\* the first.  The run is empty only at the log's beginning.
IsRun(f, from, to) ==
  /\ from \in Nat /\ to \in Nat /\ from >= 1
  /\ f.rows = Slice(from, to)
  /\ from <= to \/ (from = 1 /\ to = 0)
  /\ f.moreOlder \/ from = 1

\* Of the rows up to t none is missing above the oldest that is held, and the cursor is
\* at c, where there may be a row that a burst brings before those it follows.  The frame
\* brings this to t1 and c1.
Leads(f, t, c, t1, c1) ==
  \/ f.kind = "snapshot" /\ f.cursor = c1 /\ t1 = c1
  \/ f.kind = "irc" /\ t = c /\ f.row = c1 /\ (t1 = t \/ (t1 = c1 /\ c1 <= t + 1))
  \/ /\ f.kind = "backlog" /\ f.mode = "shell" /\ f.rows = <<>>
     /\ t = c /\ t1 = c /\ c1 = c /\ (f.moreOlder \/ c = 0)
  \/ \E from \in Nat :
       /\ f.kind = "backlog" /\ IsRun(f, from, c1) /\ c1 # 0 /\ t1 = c1
       /\ \/ f.mode = "append" /\ from <= t + 1
          \/ f.mode = "replace" /\ (t = c \/ c = c1)
  \/ /\ f.kind = "history" /\ t = c /\ t1 = c /\ c1 = c
     /\ \/ f.mode = "latest" /\ \E from \in Nat : IsRun(f, from, c)
        \/ f.mode = "before" /\ \E from, to \in Nat : to <= c /\ IsRun(f, from, to)
        \/ f.mode = "around"

\* So do the frames of a queue, one after the other.
Leading(q, h, t, c) ==
  /\ t \in [0..Len(q) -> 0..h] /\ c \in [0..Len(q) -> 0..h]
  /\ \A i \in 1..Len(q) : Leads(q[i], t[i - 1], c[i - 1], t[i], c[i])
  /\ \A i, j \in 0..Len(q) : i <= j => c[i] <= c[j]

LeadTo(q, h, t0, c0, t1, c1) ==
  \E t, c \in [0..Len(q) -> 0..h] :
    Leading(q, h, t, c) /\ t[0] = t0 /\ c[0] = c0 /\ t[Len(q)] = t1 /\ c[Len(q)] = c1

LEMMA NoneLead ==
  ASSUME NEW h \in Nat, NEW a \in 0..h, NEW b \in 0..h
  PROVE  LeadTo(<<>>, h, a, b, a, b)
<1> DEFINE t == [i \in 0..0 |-> a]
           c == [i \in 0..0 |-> b]
<1>1. Len(<<>>) = 0
  OBVIOUS
<1>2. t \in [0..0 -> 0..h] /\ c \in [0..0 -> 0..h] /\ t[0] = a /\ c[0] = b
  OBVIOUS
<1>3. \A i, j \in 0..0 : i <= j => c[i] <= c[j]
  OBVIOUS
<1> HIDE DEF t, c
<1>4. Leading(<<>>, h, t, c)
  BY <1>1, <1>2, <1>3 DEF Leading
<1>5. QED BY <1>1, <1>2, <1>4 DEF LeadTo

\* A frame that joins the queue leads on from where the queue leads.
LEMMA LeadOn ==
  ASSUME NEW h \in Nat, NEW S, NEW q \in Seq(S), NEW f \in S, NEW t0, NEW c0, NEW t1, NEW c1,
         LeadTo(q, h, t0, c0, t1, c1),
         NEW t2 \in 0..h, NEW c2 \in 0..h, Leads(f, t1, c1, t2, c2), c1 <= c2
  PROVE  LeadTo(Append(q, f), h, t0, c0, t2, c2)
<1> DEFINE n == Len(q)
           s == Append(q, f)
<1>1. PICK t, c \in [0..n -> 0..h] :
        Leading(q, h, t, c) /\ t[0] = t0 /\ c[0] = c0 /\ t[n] = t1 /\ c[n] = c1
  BY DEF LeadTo
<1>2. n \in Nat /\ Len(s) = n + 1 /\ s[n + 1] = f /\ \A i \in 1..n : s[i] = q[i]
  BY AppendProperties
<1> HIDE DEF n, s
<1> DEFINE T == [i \in 0..(n + 1) |-> IF i = n + 1 THEN t2 ELSE t[i]]
           C == [i \in 0..(n + 1) |-> IF i = n + 1 THEN c2 ELSE c[i]]
<1>3. \A i \in 0..(n + 1) : i \in 0..n \/ i = n + 1
  BY <1>2
<1>4. \A i \in 0..n : i \in 0..(n + 1) /\ i # n + 1
  BY <1>2
<1>5. n + 1 \in 0..(n + 1) /\ 0 \in 0..n /\ n \in 0..n
  BY <1>2
<1>6. T \in [0..(n + 1) -> 0..h] /\ C \in [0..(n + 1) -> 0..h]
  BY <1>1, <1>3
<1>7. /\ \A i \in 0..n : T[i] = t[i] /\ C[i] = c[i]
      /\ T[n + 1] = t2 /\ C[n + 1] = c2
  BY <1>4, <1>5
<1> HIDE DEF T, C
<1>8. ASSUME NEW i \in 1..(n + 1) PROVE Leads(s[i], T[i - 1], C[i - 1], T[i], C[i])
  <2>1. CASE i = n + 1
    <3>1. i - 1 = n
      BY <1>2, <2>1
    <3>2. QED BY <1>1, <1>2, <1>5, <1>7, <2>1, <3>1
  <2>2. CASE i # n + 1
    <3>1. i \in 1..n /\ i - 1 \in 0..n /\ i \in 0..n
      BY <1>2, <2>2
    <3>2. Leads(q[i], t[i - 1], c[i - 1], t[i], c[i])
      BY <1>1, <3>1 DEF Leading, n
    <3>3. QED BY <1>2, <1>7, <3>1, <3>2
  <2>3. QED BY <2>1, <2>2
<1>9. ASSUME NEW i \in 0..(n + 1), NEW j \in 0..(n + 1), i <= j PROVE C[i] <= C[j]
  <2>1. \A x, y \in 0..n : x <= y => c[x] <= c[y]
    BY <1>1 DEF Leading, n
  <2>2. \A x \in 0..n : c[x] \in 0..h
    BY <1>1
  <2>3. CASE j \in 0..n
    <3>1. i \in 0..n
      BY <1>2, <1>9, <2>3
    <3>2. QED BY <1>7, <1>9, <2>1, <2>3, <3>1
  <2>4. CASE j = n + 1 /\ i \in 0..n
    <3>1. c[i] <= c[n] /\ c[n] <= c2
      BY <1>1, <1>2, <1>5, <2>1, <2>4
    <3>2. c[i] <= c2
      BY <1>5, <2>2, <2>4, <3>1
    <3>3. QED BY <1>7, <2>4, <3>2
  <2>5. CASE j = n + 1 /\ i = n + 1
    BY <1>7, <2>5
  <2>6. QED BY <1>3, <2>3, <2>4, <2>5
<1>10. Leading(s, h, T, C)
  BY <1>2, <1>6, <1>8, <1>9 DEF Leading
<1>11. T[0] = t0 /\ C[0] = c0
  BY <1>1, <1>5, <1>7
<1>12. QED BY <1>2, <1>6, <1>7, <1>10, <1>11 DEF LeadTo, s

\* What the first frame leads to is where the rest leads on from.
LEMMA LeadRest ==
  ASSUME NEW h \in Nat, NEW S, NEW q \in Seq(S), q # <<>>, NEW t0, NEW c0, NEW t1, NEW c1,
         LeadTo(q, h, t0, c0, t1, c1)
  PROVE  \E t \in 0..h : \E c \in 0..h :
           Leads(Head(q), t0, c0, t, c) /\ c0 <= c /\ LeadTo(Tail(q), h, t, c, t1, c1)
<1> DEFINE n == Len(q)
           s == Tail(q)
<1>1. PICK t, c \in [0..n -> 0..h] :
        Leading(q, h, t, c) /\ t[0] = t0 /\ c[0] = c0 /\ t[n] = t1 /\ c[n] = c1
  BY DEF LeadTo
<1>2. /\ n \in Nat /\ n >= 1 /\ Len(s) = n - 1 /\ Head(q) = q[1]
      /\ \A i \in 1..(n - 1) : s[i] = q[i + 1]
  BY HeadTailProperties
<1>3. /\ \A i \in 1..n : Leads(q[i], t[i - 1], c[i - 1], t[i], c[i])
      /\ \A i, j \in 0..n : i <= j => c[i] <= c[j]
  BY <1>1 DEF Leading
<1> HIDE DEF n, s
<1> DEFINE m == n - 1
           T == [i \in 0..m |-> t[i + 1]]
           C == [i \in 0..m |-> c[i + 1]]
<1>4. /\ m \in Nat /\ m + 1 = n /\ Len(s) = m /\ 0 \in 0..m /\ m \in 0..m
      /\ \A i \in 0..m : i + 1 \in 0..n
  BY <1>2
<1>5. \A i \in 1..m : i \in 0..m /\ i - 1 \in 0..m /\ i + 1 \in 1..n /\ (i - 1) + 1 = (i + 1) - 1 /\ s[i] = q[i + 1]
  BY <1>2
<1> HIDE DEF m
<1>6. T \in [0..m -> 0..h] /\ C \in [0..m -> 0..h] /\ \A i \in 0..m : T[i] = t[i + 1] /\ C[i] = c[i + 1]
  BY <1>1, <1>4
<1> HIDE DEF T, C
<1>7. \A i \in 1..m : Leads(s[i], T[i - 1], C[i - 1], T[i], C[i])
  BY <1>3, <1>5, <1>6
<1>8. ASSUME NEW i \in 0..m, NEW j \in 0..m, i <= j PROVE C[i] <= C[j]
  <2>1. i + 1 <= j + 1
    BY <1>4, <1>8
  <2>2. QED BY <1>3, <1>4, <1>6, <2>1
<1>9. Leading(s, h, T, C)
  BY <1>4, <1>6, <1>7, <1>8 DEF Leading
<1>10. T[0] = t[1] /\ C[0] = c[1] /\ T[m] = t[n] /\ C[m] = c[n]
  BY <1>4, <1>6
<1>11. LeadTo(s, h, t[1], c[1], t1, c1)
  BY <1>1, <1>4, <1>6, <1>9, <1>10 DEF LeadTo
<1>12. 0 \in 0..n /\ 1 \in 0..n /\ 1 \in 1..n /\ 1 - 1 = 0
  BY <1>2
<1>13. Leads(Head(q), t0, c0, t[1], c[1]) /\ c0 <= c[1] /\ t[1] \in 0..h /\ c[1] \in 0..h
  BY <1>1, <1>2, <1>3, <1>12
<1>14. QED BY <1>11, <1>13 DEF s

\* What remains of a queue leads to where the frame after it is led on from.
LEMMA LeadPart ==
  ASSUME NEW h \in Nat, NEW S, NEW q \in Seq(S), NEW k \in 0..Len(q), NEW t0, NEW c0, NEW t1, NEW c1,
         LeadTo(q, h, t0, c0, t1, c1)
  PROVE  \E t \in 0..h : \E c \in 0..h :
           /\ LeadTo(SubSeq(q, 1, k), h, t0, c0, t, c)
           /\ k = Len(q) => t = t1 /\ c = c1
           /\ k < Len(q) => \E t2, c2 : Leads(q[k + 1], t, c, t2, c2)
<1> DEFINE n == Len(q)
           s == SubSeq(q, 1, k)
<1>1. PICK t, c \in [0..n -> 0..h] :
        Leading(q, h, t, c) /\ t[0] = t0 /\ c[0] = c0 /\ t[n] = t1 /\ c[n] = c1
  BY DEF LeadTo
<1>2. n \in Nat /\ k \in 0..n /\ k \in Nat /\ \A i \in 1..k : q[i] \in S
  OBVIOUS
<1>3. Len(s) = k /\ \A i \in 1..k : s[i] = q[i]
  <2> HIDE DEF n
  <2>1. /\ Len(s) = IF 1 <= k THEN k - 1 + 1 ELSE 0
        /\ \A i \in 1..(k - 1 + 1) : s[i] = q[1 + i - 1]
    BY <1>2, SubSeqProperties
  <2>2. QED BY <1>2, <2>1
<1>4. /\ \A i \in 1..n : Leads(q[i], t[i - 1], c[i - 1], t[i], c[i])
      /\ \A i, j \in 0..n : i <= j => c[i] <= c[j]
  BY <1>1 DEF Leading
<1> HIDE DEF n, s
<1> DEFINE T == [i \in 0..k |-> t[i]]
           C == [i \in 0..k |-> c[i]]
<1>5. /\ 0 \in 0..k /\ k \in 0..k /\ \A i \in 0..k : i \in 0..n
  BY <1>2
<1>6. \A i \in 1..k : i \in 0..k /\ i - 1 \in 0..k /\ i \in 1..n
  BY <1>2
<1>7. T \in [0..k -> 0..h] /\ C \in [0..k -> 0..h] /\ \A i \in 0..k : T[i] = t[i] /\ C[i] = c[i]
  BY <1>1, <1>5
<1> HIDE DEF T, C
<1>8. \A i \in 1..k : Leads(s[i], T[i - 1], C[i - 1], T[i], C[i])
  BY <1>3, <1>4, <1>6, <1>7
<1>9. \A i, j \in 0..k : i <= j => C[i] <= C[j]
  BY <1>4, <1>5, <1>7
<1>10. Leading(s, h, T, C)
  BY <1>3, <1>7, <1>8, <1>9 DEF Leading
<1>11. LeadTo(s, h, t0, c0, t[k], c[k])
  BY <1>1, <1>3, <1>5, <1>7, <1>10 DEF LeadTo
<1>12. t[k] \in 0..h /\ c[k] \in 0..h
  BY <1>1, <1>5
<1>13. k < n => \E t2, c2 : Leads(q[k + 1], t[k], c[k], t2, c2)
  <2>1. k < n => k + 1 \in 1..n /\ (k + 1) - 1 = k
    BY <1>2
  <2>2. QED BY <1>4, <2>1
<1>14. k = n => t[k] = t1 /\ c[k] = c1
  BY <1>1
<1>15. QED BY <1>11, <1>12, <1>13, <1>14 DEF s, n

\* The cursor only rises along the way, and the way is one also in a longer log.
LEMMA LeadRises ==
  ASSUME NEW h \in Nat, NEW S, NEW q \in Seq(S), NEW t0, NEW c0, NEW t1, NEW c1,
         LeadTo(q, h, t0, c0, t1, c1)
  PROVE  /\ c0 \in 0..h /\ t0 \in 0..h /\ c1 \in 0..h /\ t1 \in 0..h /\ c0 <= c1
         /\ \A k \in Nat : h <= k => LeadTo(q, k, t0, c0, t1, c1)
<1> DEFINE n == Len(q)
<1>1. PICK t, c \in [0..n -> 0..h] :
        Leading(q, h, t, c) /\ t[0] = t0 /\ c[0] = c0 /\ t[n] = t1 /\ c[n] = c1
  BY DEF LeadTo
<1>2. n \in Nat /\ 0 \in 0..n /\ n \in 0..n /\ 0 <= n
  OBVIOUS
<1>3. c[0] <= c[n]
  <2>1. \A i, j \in 0..n : i <= j => c[i] <= c[j]
    BY <1>1 DEF Leading
  <2> HIDE DEF n
  <2>2. QED BY <1>2, <2>1
<1>4. ASSUME NEW k \in Nat, h <= k PROVE LeadTo(q, k, t0, c0, t1, c1)
  <2>1. 0..h \subseteq 0..k
    BY <1>4
  <2>2. t \in [0..n -> 0..k] /\ c \in [0..n -> 0..k]
    BY <1>1, <2>1
  <2>3. Leading(q, k, t, c)
    BY <1>1, <2>2 DEF Leading
  <2>4. QED BY <1>1, <2>2, <2>3 DEF LeadTo
<1>5. QED BY <1>1, <1>2, <1>3, <1>4

--------------------------------------------------------------------------------
(* What a merge leaves of the rows it brings together *)

\* No row up to t is missing above the oldest of a set of rows, and only c may be above.
Full(R, t) == \A x \in R : \A y \in Nat : x < y /\ y <= t => y \in R
Meets(R, t, c) == t <= c /\ Full(R, t) /\ \A x \in R : x <= t \/ x = c

\* A buffer holds the newest of these rows, and where it does not hold them all, or
\* there are more, it says that older ones remain.
Crops(b, U, more) ==
  /\ Ids(b.ring) \subseteq U
  /\ \A x \in Ids(b.ring) : \A y \in U : x < y => y \in Ids(b.ring)
  /\ b.moreOlder \/ (Ids(b.ring) = U /\ ~more)

\* In a ring in order the first row that has an id has the least.
LEMMA OldestIsLeast ==
  ASSUME NEW h \in Nat, NEW r \in Seq(0..h), Ascending(r)
  PROVE  /\ OldestId(r) = 0 <=> Ids(r) = {}
         /\ \A x \in Ids(r) : OldestId(r) <= x
<1> DEFINE held == {i \in DOMAIN r : r[i] # LocalRow}
<1>1. /\ OldestId(r) \in Nat /\ (OldestId(r) # 0 => OldestId(r) \in Ids(r))
      /\ \A x : x \in Ids(r) <=> x # 0 /\ \E i \in 1..Len(r) : r[i] = x
      /\ \A i \in 1..Len(r) : r[i] \in Nat
  BY OldestIs, IdsAre
<1>2. ASSUME NEW x \in Ids(r) PROVE OldestId(r) # 0 /\ OldestId(r) <= x
  <2>1. PICK i \in 1..Len(r) : r[i] = x /\ x # 0
    BY <1>1
  <2>2. i \in held /\ held \in SUBSET Nat
    BY <2>1 DEF LocalRow
  <2>3. Min(held) \in held /\ Min(held) <= i
    BY <2>2, Least
  <2>4. OldestId(r) = r[Min(held)]
    BY <2>2 DEF OldestId
  <2>5. Min(held) \in 1..Len(r) /\ r[Min(held)] # 0
    BY <2>3 DEF LocalRow
  <2> HIDE DEF held
  <2>6. CASE Min(held) = i
    BY <1>1, <2>1, <2>4, <2>6
  <2>7. CASE Min(held) # i
    <3>1. Min(held) < i
      BY <2>3, <2>5, <2>7
    <3>2. r[Min(held)] < r[i]
      BY <2>1, <2>5, <3>1 DEF Ascending
    <3>3. QED BY <1>1, <2>1, <2>4, <2>5, <3>2
  <2>8. QED BY <2>6, <2>7
<1>3. QED BY <1>1, <1>2

\* What a run of the log holds
LEMMA SliceHas ==
  ASSUME NEW h \in Nat, NEW from \in Nat, from >= 1, NEW to \in 0..h
  PROVE  LET s == Slice(from, to) IN
         /\ s \in Rising(h) /\ Range(s) = from..to /\ Ids(s) = from..to
         /\ from <= to => /\ s # <<>> /\ s[1] = from /\ Last(s) = to
                          /\ OldestId(s) = from /\ NewestId(s) = to
         /\ to < from => s = <<>> /\ OldestId(s) = 0 /\ NewestId(s) = 0
<1> DEFINE n == IF to < from THEN 0 ELSE to - from + 1
           s == Slice(from, to)
<1>1. /\ n \in Nat /\ s = [i \in 1..n |-> from + i - 1]
      /\ \A i \in 1..n : from + i - 1 \in from..to
      /\ \A x \in from..to : x - from + 1 \in 1..n /\ from + (x - from + 1) - 1 = x
      /\ from <= to => n >= 1 /\ from + n - 1 = to
      /\ to < from => n = 0
  BY DEF Slice
<1>2. s \in Rising(h) /\ s \in Seq(1..h) /\ s \in Seq(0..h)
  BY RunIs, SliceIsRing
<1> HIDE DEF n, s
<1>3. Len(s) = n /\ DOMAIN s = 1..n /\ \A i \in 1..n : s[i] = from + i - 1
  <2>1. DOMAIN s = 1..n
    BY <1>1
  <2>2. DOMAIN s = 1..Len(s) /\ Len(s) \in Nat
    BY <1>2
  <2>3. Len(s) = n
    BY <1>1, <2>1, <2>2
  <2>4. QED BY <1>1, <2>1, <2>3
<1>4. Range(s) = from..to
  <2>1. ASSUME NEW x \in Range(s) PROVE x \in from..to
    <3>1. PICK i \in 1..n : s[i] = x
      BY <1>3 DEF Range
    <3>2. QED BY <1>1, <1>3, <3>1
  <2>2. ASSUME NEW x \in from..to PROVE x \in Range(s)
    <3>1. x - from + 1 \in 1..n /\ s[x - from + 1] = x
      BY <1>1, <1>3
    <3>2. QED BY <1>3, <3>1 DEF Range
  <2>3. QED BY <2>1, <2>2
<1>5. Ids(s) = from..to /\ Ascending(s)
  <2>1. Ids(s) = Range(s) /\ Tidy(s, 0)
    BY <1>2, SliceTidy, 0 \in Nat
  <2>2. QED BY <1>4, <2>1 DEF Tidy
<1>6. /\ NewestId(s) \in Nat /\ (NewestId(s) # 0 => NewestId(s) \in Ids(s))
      /\ \A x \in Ids(s) : x <= NewestId(s)
      /\ OldestId(s) \in Nat /\ (OldestId(s) # 0 => OldestId(s) \in Ids(s))
      /\ \A x \in Ids(s) : OldestId(s) <= x /\ OldestId(s) # 0
  <2>1. /\ NewestId(s) \in Nat /\ (NewestId(s) # 0 => NewestId(s) \in Ids(s))
        /\ \A x \in Ids(s) : x <= NewestId(s)
    BY <1>2, NewestIs
  <2>2. OldestId(s) \in Nat /\ (OldestId(s) # 0 => OldestId(s) \in Ids(s))
    BY <1>2, OldestIs
  <2>3. \A x \in Ids(s) : OldestId(s) <= x /\ OldestId(s) # 0
    BY <1>2, <1>5, OldestIsLeast
  <2>4. QED BY <2>1, <2>2, <2>3
<1>7. CASE from <= to
  <2>1. from \in from..to /\ to \in from..to
    BY <1>7
  <2>2. NewestId(s) = to
    <3>1. to <= NewestId(s) /\ NewestId(s) # 0
      BY <1>5, <1>6, <1>7, <2>1
    <3>2. NewestId(s) \in from..to
      BY <1>5, <1>6, <3>1
    <3>3. QED BY <3>1, <3>2
  <2>3. OldestId(s) = from
    <3>1. OldestId(s) <= from /\ OldestId(s) \in from..to
      BY <1>5, <1>6, <2>1
    <3>2. QED BY <3>1
  <2>4. s # <<>> /\ s[1] = from /\ Last(s) = to
    <3>1. 1 \in 1..n /\ n \in 1..n
      BY <1>1, <1>7
    <3>2. s[1] = from
      BY <1>3, <3>1
    <3>3. s[n] = to
      BY <1>1, <1>3, <1>7, <3>1
    <3>4. Last(s) = s[n]
      BY <1>3 DEF Last
    <3>5. s # <<>>
      BY <1>3, <3>1
    <3>6. QED BY <3>2, <3>3, <3>4, <3>5
  <2>5. QED BY <1>2, <1>4, <1>5, <1>7, <2>2, <2>3, <2>4 DEF s
<1>8. CASE to < from
  <2>1. s = <<>>
    BY <1>1, <1>2, <1>3, <1>8
  <2>2. Ids(s) = {}
    BY <1>5, <1>8
  <2>3. OldestId(s) = 0 /\ NewestId(s) = 0
    BY <1>6, <2>2
  <2>4. QED BY <1>2, <1>4, <1>5, <1>8, <2>1, <2>3 DEF s
<1>9. QED BY <1>7, <1>8

\* Eviction takes the oldest rows, and says that they remain.
LEMMA TrimCrops ==
  ASSUME NEW h \in Nat, NEW b \in Buffers(h), Ascending(b.ring)
  PROVE  Crops(Trim(b), Ids(b.ring), b.moreOlder)
<1>1. b.ring \in Seq(0..h) /\ Len(b.ring) \in Nat /\ RingCapacity \in Nat \ {0} /\ b.moreOlder \in BOOLEAN
  BY BufferHas, RingHas, RingAssumption
<1>2. CASE Len(b.ring) <= RingCapacity
  BY <1>1, <1>2 DEF Trim, Crops
<1>3. CASE ~(Len(b.ring) <= RingCapacity)
  <2> DEFINE r == b.ring
             n == Len(r)
             e == n - RingCapacity + 1
             s == SubSeq(r, e, n)
             t == Trim(b)
  <2>1. t.ring = s /\ t.moreOlder = TRUE
    BY <1>3 DEF Trim, Buffers
  <2>2. n \in Nat /\ n > RingCapacity /\ r \in Seq(0..h) /\ Ascending(r) /\ \A i \in 1..n : r[i] \in 0..h
    BY <1>1, <1>3
  <2>3. \A x : x \in Ids(r) <=> x # 0 /\ \E i \in 1..n : r[i] = x
    BY <2>2, IdsAre
  <2> HIDE DEF n
  <2>4. e \in 1..n /\ e \in Int
    BY <1>1, <2>2
  <2> HIDE DEF e
  <2>5. /\ s \in Seq(0..h) /\ Len(s) = n - e + 1
        /\ \A i \in 1..(n - e + 1) : s[i] = r[e + i - 1]
    <3>1. \A i \in e..n : r[i] \in 0..h
      BY <2>2, <2>4
    <3>2. /\ s \in Seq(0..h) /\ Len(s) = IF e <= n THEN n - e + 1 ELSE 0
          /\ \A i \in 1..(n - e + 1) : s[i] = r[e + i - 1]
      BY <2>2, <2>4, <3>1, SubSeqProperties
    <3>3. QED BY <2>4, <3>2
  <2>6. \A x : x \in Ids(s) <=> x # 0 /\ \E i \in 1..(n - e + 1) : s[i] = x
    <3>1. \A x : x \in Ids(s) <=> x # 0 /\ \E i \in 1..Len(s) : s[i] = x
      BY <2>5, IdsAre
    <3>2. QED BY <2>5, <3>1
  <2> HIDE DEF r, s, t
  <2>7. \A x : x \in Ids(s) <=> x # 0 /\ \E i \in 1..n : i >= e /\ r[i] = x
    <3>1. \A i \in 1..(n - e + 1) : e + i - 1 \in 1..n /\ e + i - 1 >= e
      BY <2>2, <2>4
    <3>2. \A i \in 1..n : i >= e => i - e + 1 \in 1..(n - e + 1) /\ e + (i - e + 1) - 1 = i
      BY <2>2, <2>4
    <3>3. ASSUME NEW x \in Ids(s) PROVE x # 0 /\ \E i \in 1..n : i >= e /\ r[i] = x
      <4>1. PICK i \in 1..(n - e + 1) : s[i] = x /\ x # 0
        BY <2>6
      <4>2. r[e + i - 1] = x
        BY <2>5, <4>1
      <4>3. QED BY <3>1, <4>1, <4>2
    <3>4. ASSUME NEW x, x # 0, NEW i \in 1..n, i >= e, r[i] = x PROVE x \in Ids(s)
      <4>1. i - e + 1 \in 1..(n - e + 1) /\ s[i - e + 1] = x
        BY <2>5, <3>2, <3>4
      <4>2. QED BY <2>6, <3>4, <4>1
    <3>5. QED BY <3>3, <3>4
  <2>8. Ids(s) \subseteq Ids(r)
    BY <2>3, <2>7
  <2>9. ASSUME NEW x \in Ids(s), NEW y \in Ids(r), x < y PROVE y \in Ids(s)
    <3>1. PICK i \in 1..n : i >= e /\ r[i] = x /\ x # 0
      BY <2>7
    <3>2. PICK j \in 1..n : r[j] = y /\ y # 0
      BY <2>3
    <3>3. ~(j < i)
      <4>1. j < i => y < x
        BY <2>2, <3>1, <3>2 DEF Ascending, n
      <4>2. x \in Nat /\ y \in Nat
        BY <2>2, <3>1, <3>2
      <4>3. QED BY <2>9, <4>1, <4>2
    <3>4. j >= e
      BY <2>4, <3>1, <3>2, <3>3
    <3>5. QED BY <2>7, <3>2, <3>4
  <2>10. QED BY <2>1, <2>8, <2>9 DEF Crops, r, t
<1>4. QED BY <1>2, <1>3

\* A slice that is not cut down joins the rows held.
LEMMA SpliceCrops ==
  ASSUME NEW h \in Nat, NEW b \in Buffers(h), NEW d \in Nat, Tidy(b.ring, d),
         NEW rows \in Rising(h), \A x \in Range(rows) : Clear(b.ring, x),
         ClampToAdjacentEnd(b.ring, rows) = rows
  PROVE  Crops(Splice(b, rows), Ids(b.ring) \cup Range(rows), b.moreOlder)
<1> DEFINE r == Absorb(b.ring, rows, Range(rows))
           c == [b EXCEPT !.ring = r]
<1>1. rows \in Seq(0..h) /\ b.ring \in Rings(h)
  BY SliceIsRing, BufferHas
<1>2. 0 \notin Range(rows)
  BY SliceTidy
<1>3. Splice(b, rows) = Trim(c)
  BY DEF Splice, Buffers
<1>4. \A i \in 1..Len(rows) : Clear(b.ring, rows[i])
  <2>1. \A i \in 1..Len(rows) : rows[i] \in Range(rows)
    BY <1>1 DEF Range
  <2>2. QED BY <2>1
<1>5. r \in Rings(h)
  BY <1>1, AbsorbIs
<1>6. Tidy(r, d) /\ Ids(r) = Ids(b.ring) \cup (Range(rows) \cap Range(rows))
  BY <1>1, <1>2, <1>4, AbsorbTidy
<1> HIDE DEF r
<1>7. c \in Buffers(h) /\ c.ring = r /\ c.moreOlder = b.moreOlder
  BY <1>5, BufferHas DEF Buffers
<1> HIDE DEF c
<1>8. Crops(Trim(c), Ids(r), b.moreOlder)
  BY <1>6, <1>7, TrimCrops DEF Tidy
<1>9. Ids(r) = Ids(b.ring) \cup Range(rows)
  BY <1>6
<1>10. QED BY <1>3, <1>8, <1>9

\* So does one that overlaps the rows held where it might take their place; else it is
\* joined by those that are newer.
Joined(b, rows) == IF Overlaps(b, rows) THEN Ids(b.ring) \cup Range(rows)
                   ELSE Range(rows) \cup Survivors(b.ring, rows)

LEMMA ReplaceCrops ==
  ASSUME NEW h \in Nat, NEW b \in Buffers(h), NEW d \in Nat, Tidy(b.ring, d),
         NEW rows \in Rising(h), \A x \in Range(rows) : Clear(b.ring, x),
         ClampToAdjacentEnd(b.ring, rows) = rows
  PROVE  Crops(Replace(b, rows), Joined(b, rows), b.moreOlder)
<1>1. CASE Overlaps(b, rows)
  BY <1>1, SpliceCrops DEF Replace, Joined
<1>2. CASE ~Overlaps(b, rows)
  <2> DEFINE w == Survivors(b.ring, rows)
             r == Absorb(rows, b.ring, w)
             c == [b EXCEPT !.ring = r]
  <2>1. rows \in Rings(h) /\ b.ring \in Seq(0..h)
    BY SliceIsRing, BufferHas, RingHas
  <2>2. Replace(b, rows) = Trim(c)
    BY <1>2 DEF Replace, Buffers
  <2>3. 0 \notin w /\ w \subseteq Range(b.ring)
    BY DEF Survivors, Ids, LocalRow
  <2>4. Tidy(rows, d) /\ Ids(rows) = Range(rows) /\ \A i \in 1..Len(b.ring) : Clear(rows, b.ring[i])
    BY SliceTidy DEF Clear
  <2>5. r \in Rings(h)
    BY <2>1, AbsorbIs
  <2> HIDE DEF w
  <2>6. Tidy(r, d) /\ Ids(r) = Ids(rows) \cup (Range(b.ring) \cap w)
    <3> DEFINE g == b.ring
    <3>1. g \in Seq(0..h) /\ 0 \notin w /\ \A i \in 1..Len(g) : Clear(rows, g[i])
      BY <2>1, <2>3, <2>4
    <3> HIDE DEF g
    <3>2. Tidy(Absorb(rows, g, w), d) /\ Ids(Absorb(rows, g, w)) = Ids(rows) \cup (Range(g) \cap w)
      BY <2>1, <2>4, <3>1, AbsorbTidy
    <3>3. QED BY <3>2 DEF g
  <2> HIDE DEF r
  <2>7. c \in Buffers(h) /\ c.ring = r /\ c.moreOlder = b.moreOlder
    BY <2>5, BufferHas DEF Buffers
  <2> HIDE DEF c
  <2>8. Crops(Trim(c), Ids(r), b.moreOlder)
    BY <2>6, <2>7, TrimCrops DEF Tidy
  <2>9. Ids(r) = Joined(b, rows)
    BY <1>2, <2>3, <2>4, <2>6 DEF Joined, w
  <2>10. QED BY <2>2, <2>8, <2>9
<1>3. QED BY <1>1, <1>2

\* The rows a frame brings together, and what merging it leaves of them
Brought(b, f) ==
  CASE f.mode = "shell" -> Ids(b.ring)
    [] f.mode \in {"replace", "latest"} -> Joined(b, f.rows)
    [] f.mode \in {"append", "before"} -> Ids(b.ring) \cup Range(f.rows)

Uncut(b, f) == f.mode # "shell" => ClampToAdjacentEnd(b.ring, f.rows) = f.rows

LEMMA MergeBacklogCrops ==
  ASSUME NEW h \in Nat, NEW b \in Buffers(h), NEW d \in Nat, Neat(b, d),
         NEW f \in Frames(h), f.kind = "backlog", Cleared(b.ring, f.rows), Uncut(b, f)
  PROVE  Crops(MergeBacklog(b, f), Brought(b, f), f.moreOlder)
<1> DEFINE t == [b EXCEPT !.moreOlder = f.moreOlder]
<1>1. f.mode \in Slices /\ f.rows \in Rising(h) /\ f.rows \in Rings(h) /\ f.moreOlder \in BOOLEAN
  BY FrameHas, SliceIsRing
<1>2. /\ t \in Buffers(h) /\ t.ring = b.ring /\ t.newest = b.newest /\ t.moreOlder = f.moreOlder
  BY <1>1, BufferHas DEF Buffers
<1>3. Tidy(b.ring, d)
  BY DEF Neat
<1> HIDE DEF t
<1>4. \A x \in Range(f.rows) : Clear(t.ring, x)
  BY <1>2 DEF Cleared
<1>5. ASSUME NEW c \in Buffers(h), NEW U, Crops(c, U, f.moreOlder)
      PROVE  Crops(RecomputeNewest([c EXCEPT !.hydrated = TRUE]), U, f.moreOlder)
  <2> DEFINE e == [c EXCEPT !.hydrated = TRUE]
  <2>1. e \in Buffers(h) /\ e.ring = c.ring /\ e.moreOlder = c.moreOlder
    <3>1. c \in Buffers(h)
      BY <1>5
    <3>2. QED BY <3>1 DEF Buffers
  <2> HIDE DEF e
  <2>2. RecomputeNewest(e).ring = e.ring /\ RecomputeNewest(e).moreOlder = e.moreOlder
    BY <2>1 DEF RecomputeNewest, Buffers
  <2>3. QED BY <1>5, <2>1, <2>2 DEF e, Crops
<1>6. CASE f.mode = "shell"
  <2>1. MergeBacklog(b, f) = RecomputeNewest(t)
    BY <1>6 DEF MergeBacklog, t
  <2>2. RecomputeNewest(t).ring = t.ring /\ RecomputeNewest(t).moreOlder = t.moreOlder
    BY <1>2 DEF RecomputeNewest, Buffers
  <2>3. Brought(b, f) = Ids(b.ring)
    BY <1>6 DEF Brought
  <2>4. QED BY <1>1, <1>2, <2>1, <2>2, <2>3 DEF Crops
<1>7. CASE f.mode = "append"
  <2> DEFINE c == Splice(t, f.rows)
  <2>1. MergeBacklog(b, f) = RecomputeNewest([c EXCEPT !.hydrated = TRUE])
    BY <1>7 DEF MergeBacklog, t
  <2>2. c \in Buffers(h)
    BY <1>1, <1>2, SpliceIs, SliceIsRing DEF Trimmed
  <2>3. Crops(c, Ids(t.ring) \cup Range(f.rows), t.moreOlder)
    BY <1>1, <1>2, <1>3, <1>4, <1>7, SpliceCrops DEF Uncut
  <2> HIDE DEF c
  <2>4. Brought(b, f) = Ids(b.ring) \cup Range(f.rows)
    BY <1>7 DEF Brought
  <2>5. Crops(c, Brought(b, f), f.moreOlder)
    BY <1>2, <2>3, <2>4
  <2>6. QED BY <1>5, <2>1, <2>2, <2>5
<1>8. CASE f.mode = "replace"
  <2> DEFINE c == Replace(t, f.rows)
  <2>1. MergeBacklog(b, f) = RecomputeNewest([c EXCEPT !.hydrated = TRUE])
    BY <1>8 DEF MergeBacklog, t
  <2>2. c \in Buffers(h)
    BY <1>1, <1>2, ReplaceIs DEF Trimmed
  <2>3. Crops(c, Joined(t, f.rows), t.moreOlder)
    BY <1>1, <1>2, <1>3, <1>4, <1>8, ReplaceCrops DEF Uncut
  <2> HIDE DEF c
  <2>4. Brought(b, f) = Joined(t, f.rows)
    BY <1>2, <1>8 DEF Brought, Joined, Overlaps
  <2>5. Crops(c, Brought(b, f), f.moreOlder)
    BY <1>2, <2>3, <2>4
  <2>6. QED BY <1>5, <2>1, <2>2, <2>5
<1>9. QED BY <1>1, <1>6, <1>7, <1>8 DEF Slices

LEMMA MergeHistoryCrops ==
  ASSUME NEW h \in Nat, NEW b \in Buffers(h), NEW d \in Nat, Neat(b, d),
         NEW f \in Frames(h), f.kind = "history", f.mode # "around", Cleared(b.ring, f.rows),
         Uncut(b, f)
  PROVE  Crops(MergeHistory(b, f), Brought(b, f), f.moreOlder)
<1> DEFINE t == [b EXCEPT !.moreOlder = f.moreOlder]
<1>1. f.mode \in Pages /\ f.rows \in Rising(h) /\ f.rows \in Rings(h) /\ f.moreOlder \in BOOLEAN
  BY FrameHas, SliceIsRing
<1>2. /\ t \in Buffers(h) /\ t.ring = b.ring /\ t.newest = b.newest /\ t.moreOlder = f.moreOlder
  BY <1>1, BufferHas DEF Buffers
<1>3. Tidy(b.ring, d)
  BY DEF Neat
<1> HIDE DEF t
<1>4. ASSUME NEW e \in Buffers(h)
      PROVE  RecomputeNewest(e).ring = e.ring /\ RecomputeNewest(e).moreOlder = e.moreOlder
  BY <1>4 DEF RecomputeNewest, Buffers
<1>5. CASE f.mode = "before"
  <2> DEFINE c == Splice(t, f.rows)
  <2>1. MergeHistory(b, f) = RecomputeNewest(c)
    BY <1>5 DEF MergeHistory, t
  <2>2. c \in Buffers(h)
    BY <1>1, <1>2, SpliceIs, SliceIsRing DEF Trimmed
  <2>3. \A x \in Range(f.rows) : Clear(t.ring, x)
    BY <1>2 DEF Cleared
  <2>4. Crops(c, Ids(t.ring) \cup Range(f.rows), t.moreOlder)
    BY <1>1, <1>2, <1>3, <1>5, <2>3, SpliceCrops DEF Uncut
  <2> HIDE DEF c
  <2>5. Brought(b, f) = Ids(b.ring) \cup Range(f.rows)
    BY <1>5 DEF Brought
  <2>6. QED BY <1>2, <1>4, <2>1, <2>2, <2>4, <2>5 DEF Crops
<1>6. CASE f.mode = "latest"
  <2> DEFINE g == [t EXCEPT !.detached = FALSE]
             c == Replace(g, f.rows)
             e == [c EXCEPT !.hydrated = TRUE]
  <2>1. MergeHistory(b, f) = RecomputeNewest(e)
    BY <1>6 DEF MergeHistory, t
  <2>2. g \in Buffers(h) /\ g.ring = b.ring /\ g.newest = b.newest /\ g.moreOlder = f.moreOlder
    <3>1. g \in Buffers(h) /\ g.ring = t.ring /\ g.newest = t.newest
      BY <1>2 DEF Buffers
    <3>2. g.moreOlder = t.moreOlder
      BY <1>2 DEF Buffers
    <3>3. QED BY <1>2, <3>1, <3>2
  <2> HIDE DEF g
  <2>3. c \in Buffers(h)
    BY <1>1, <2>2, ReplaceIs DEF Trimmed
  <2>4. \A x \in Range(f.rows) : Clear(g.ring, x)
    BY <2>2 DEF Cleared
  <2>5. Crops(c, Joined(g, f.rows), g.moreOlder)
    BY <1>1, <1>3, <1>6, <2>2, <2>4, ReplaceCrops DEF Uncut
  <2> HIDE DEF c
  <2>6. e \in Buffers(h) /\ e.ring = c.ring /\ e.moreOlder = c.moreOlder
    BY <2>3 DEF Buffers
  <2> HIDE DEF e
  <2>7. Brought(b, f) = Joined(g, f.rows)
    BY <1>6, <2>2 DEF Brought, Joined, Overlaps
  <2>8. RecomputeNewest(e).ring = c.ring /\ RecomputeNewest(e).moreOlder = c.moreOlder
    BY <1>4, <2>6
  <2>9. QED BY <2>1, <2>2, <2>5, <2>7, <2>8 DEF Crops
<1>7. QED BY <1>1, <1>5, <1>6 DEF Pages

\* A live row joins them, and so does a line without an id.
LEMMA AddLiveCrops ==
  ASSUME NEW h \in Nat, NEW b \in Buffers(h), NEW d \in Nat, Neat(b, d),
         NEW row \in 1..h, b.newest < row
  PROVE  Crops(AddLive(b, row), Ids(b.ring) \cup {row}, b.moreOlder)
<1> DEFINE r == InsertOrdered(b.ring, row)
           c == [b EXCEPT !.ring = r]
           t == Trim(c)
<1>1. /\ Tidy(b.ring, d) /\ ~b.detached /\ b.newest = NewestId(b.ring) /\ d < RingCapacity
      /\ b.ring \in Rings(h) /\ b.ring \in Seq(0..h) /\ b.newest \in Nat
  BY BufferHas, RingHas DEF Neat
<1>2. row \in 0..h /\ row # 0 /\ row \in Nat
  OBVIOUS
<1>3. \A x \in Ids(b.ring) : x < row
  <2>1. \A x \in Ids(b.ring) : x <= b.newest /\ x \in Nat
    <3>1. \A x \in Ids(b.ring) : x <= NewestId(b.ring)
      BY <1>1, NewestIs
    <3>2. \A x \in Ids(b.ring) : x \in Nat
      BY <1>1 DEF Ids, Range
    <3>3. QED BY <1>1, <3>1, <3>2
  <2>2. QED BY <1>1, <1>2, <2>1
<1>4. row \notin Ids(b.ring) /\ Clear(b.ring, row)
  <2>1. ~(row < row)
    BY <1>2
  <2>2. QED BY Zenon, <1>3, <2>1 DEF Clear
<1>5. r \in Rings(h)
  BY <1>1, <1>2, <1>4, InsertIs
<1>6. Tidy(r, d) /\ Ids(r) = Ids(b.ring) \cup {row}
  <2> DEFINE g == b.ring
  <2>1. g \in Rings(h) /\ row \in 0..h /\ row # 0 /\ row \notin Ids(g) /\ Tidy(g, d) /\ Clear(g, row)
    BY <1>1, <1>2, <1>4
  <2> HIDE DEF g
  <2>2. Tidy(InsertOrdered(g, row), d) /\ Ids(InsertOrdered(g, row)) = Ids(g) \cup {row}
    BY <2>1, InsertTidy
  <2>3. QED BY <2>2 DEF g
<1> HIDE DEF r
<1>7. c \in Buffers(h) /\ c.ring = r /\ c.moreOlder = b.moreOlder
  BY <1>5, BufferHas DEF Buffers
<1>8. AddLive(b, row) = [t EXCEPT !.newest = IF row > @ THEN row ELSE @]
  BY <1>1 DEF AddLive, r
<1> HIDE DEF c
<1>9. t \in Buffers(h) /\ Crops(t, Ids(r), b.moreOlder)
  BY <1>6, <1>7, TrimIs, TrimCrops DEF Trimmed, Tidy
<1> HIDE DEF t
<1>10. AddLive(b, row).ring = t.ring /\ AddLive(b, row).moreOlder = t.moreOlder
  BY <1>8, <1>9 DEF Buffers
<1>11. QED BY <1>6, <1>9, <1>10 DEF Crops

LEMMA InjectCrops ==
  ASSUME NEW h \in Nat, NEW b \in Buffers(h), NEW d \in Nat, Neat(b, d)
  PROVE  Crops(Inject(b), Ids(b.ring), b.moreOlder)
<1> DEFINE r == Append(b.ring, 0)
           c == [b EXCEPT !.ring = r]
<1>1. /\ Tidy(b.ring, d) /\ b.ring \in Rings(h) /\ b.ring \in Seq(0..h)
  BY BufferHas, RingHas DEF Neat
<1>2. r \in Rings(h) /\ r \in Seq(0..h)
  <2>1. 0 \in 0..h
    OBVIOUS
  <2>2. QED BY <1>1, <2>1, AppendIs, RingHas
<1>3. Ids(r) = Ids(b.ring) /\ Ascending(r)
  <2> DEFINE n == Len(b.ring)
  <2>1. Len(r) = n + 1 /\ n \in Nat /\ r[n + 1] = 0 /\ \A i \in 1..n : r[i] = b.ring[i]
    BY <1>1, AppendProperties
  <2> HIDE DEF r
  <2>2. /\ \A x : x \in Ids(r) <=> x # 0 /\ \E i \in 1..(n + 1) : r[i] = x
        /\ \A x : x \in Ids(b.ring) <=> x # 0 /\ \E i \in 1..n : b.ring[i] = x
    <3>1. \A x : x \in Ids(r) <=> x # 0 /\ \E i \in 1..(n + 1) : r[i] = x
      <4>1. \A x : x \in Ids(r) <=> x # 0 /\ \E i \in 1..Len(r) : r[i] = x
        BY <1>2, IdsAre
      <4>2. QED BY <2>1, <4>1
    <3>2. \A x : x \in Ids(b.ring) <=> x # 0 /\ \E i \in 1..n : b.ring[i] = x
      BY <1>1, IdsAre
    <3>3. QED BY <3>1, <3>2
  <2>3. \A i, j \in 1..n : i < j /\ b.ring[i] # 0 /\ b.ring[j] # 0 => b.ring[i] < b.ring[j]
    BY <1>1 DEF Tidy, Ascending
  <2> HIDE DEF n
  <2>4. (\A i \in 1..(n + 1) : i \in 1..n \/ i = n + 1) /\ \A i \in 1..n : i \in 1..(n + 1)
    BY <2>1
  <2>5. \A x : x \in Ids(r) => x \in Ids(b.ring)
    BY <2>1, <2>2, <2>4
  <2>6. \A x : x \in Ids(b.ring) => x \in Ids(r)
    BY <2>1, <2>2, <2>4
  <2>7. Ascending(r)
    BY <2>1, <2>3, <2>4 DEF Ascending
  <2>8. QED BY <2>5, <2>6, <2>7
<1>4. Inject(b) = Trim(c)
  BY DEF Inject, LocalRow
<1> HIDE DEF r
<1>5. c \in Buffers(h) /\ c.ring = r /\ c.moreOlder = b.moreOlder
  BY <1>2, BufferHas DEF Buffers
<1> HIDE DEF c
<1>6. QED BY <1>3, <1>4, <1>5, TrimCrops

--------------------------------------------------------------------------------
(* Merging what is on its way leaves no hole *)

\* Evicting the oldest leaves none either.
LEMMA CropMeets ==
  ASSUME NEW b, NEW U, NEW more, Crops(b, U, more), NEW t, NEW c, Meets(U, t, c)
  PROVE  Meets(Ids(b.ring), t, c)
BY DEF Crops, Meets, Full

\* What a slice has, from where it is in the log
LEMMA RunHas ==
  ASSUME NEW h \in Nat, NEW f, NEW from, NEW to \in 0..h, IsRun(f, from, to)
  PROVE  /\ from \in Nat /\ from >= 1 /\ f.rows \in Rising(h) /\ Range(f.rows) = from..to
         /\ from <= to => /\ f.rows # <<>> /\ f.rows[1] = from /\ Last(f.rows) = to
                          /\ OldestId(f.rows) = from /\ NewestId(f.rows) = to
         /\ ~(from <= to) => /\ from = 1 /\ to = 0 /\ f.rows = <<>>
                             /\ OldestId(f.rows) = 0 /\ NewestId(f.rows) = 0
         /\ f.moreOlder \/ from = 1
<1>1. from \in Nat /\ from >= 1 /\ f.rows = Slice(from, to) /\ (from <= to \/ (from = 1 /\ to = 0))
      /\ (f.moreOlder \/ from = 1)
  BY DEF IsRun
<1>2. /\ f.rows \in Rising(h) /\ Range(f.rows) = from..to
      /\ from <= to => /\ f.rows # <<>> /\ f.rows[1] = from /\ Last(f.rows) = to
                       /\ OldestId(f.rows) = from /\ NewestId(f.rows) = to
      /\ to < from => f.rows = <<>> /\ OldestId(f.rows) = 0 /\ NewestId(f.rows) = 0
  BY <1>1, SliceHas
<1>3. ~(from <= to) => to < from
  BY <1>1
<1>4. QED BY <1>1, <1>2, <1>3

\* The ids held are numbers above zero.
LEMMA IdsHeld ==
  ASSUME NEW h \in Nat, NEW b \in Buffers(h)
  PROVE  \A x \in Ids(b.ring) : x \in 1..h
<1>1. b.ring \in Seq(0..h)
  BY BufferHas, RingHas
<1>2. QED BY <1>1 DEF Ids, Range, LocalRow

\* A slice that reaches the cursor's new place meets the rows held, or takes their place.
LEMMA JoinedMeets ==
  ASSUME NEW h \in Nat, buf \in Buffers(h), buf.newest = NewestId(buf.ring),
         NEW t \in 0..h, NEW c \in 0..h, NEW c1 \in 0..h, c <= c1, t = c \/ c = c1,
         Meets(Ids(buf.ring), t, c),
         NEW f, f.mode \in {"replace", "latest"}, NEW from, IsRun(f, from, c1), ~KeepsAcrossGap(f)
  PROVE  Meets(Joined(buf, f.rows), c1, c1)
<1> DEFINE R == Ids(buf.ring)
           U == Joined(buf, f.rows)
           rows == f.rows
           older == {row \in R : row < rows[1]}
<1>1. /\ from \in Nat /\ from >= 1 /\ Range(rows) = from..c1
      /\ from <= c1 => rows[1] = from /\ NewestId(rows) = c1 /\ OldestId(rows) = from
      /\ ~(from <= c1) => c1 = 0 /\ OldestId(rows) = 0 /\ NewestId(rows) = 0
  BY RunHas
<1>2. (\A x \in R : x \in 1..h) /\ t <= c /\ Full(R, t) /\ \A x \in R : x <= t \/ x = c
  BY IdsHeld DEF Meets
<1>3. \A x \in R : x <= c1
  BY <1>2
<1>4. CASE ~Overlaps(buf, rows)
  <2>1. Survivors(buf.ring, rows) = {}
    <3>1. ASSUME NEW x \in R, NewestId(rows) # 0, x > NewestId(rows) PROVE FALSE
      BY <1>1, <1>2, <1>3, <3>1
    <3>2. QED BY <3>1 DEF Survivors, NoId
  <2>2. U = from..c1
    BY <1>1, <1>4, <2>1 DEF Joined
  <2> HIDE DEF U, R
  <2>3. Full(U, c1) /\ \A x \in U : x <= c1
    BY <1>1, <2>2 DEF Full
  <2>4. QED BY <2>3 DEF Meets, U
<1>5. CASE Overlaps(buf, rows)
  <2>1. from <= c1 /\ rows[1] = from
    BY <1>1, <1>5 DEF Overlaps, NoId
  <2>2. U = R \cup (from..c1)
    BY <1>1, <1>5 DEF Joined
  <2>3. older = {} \/ (from - 1 \in R /\ from - 1 <= t)
    <3>1. SUFFICES ASSUME older # {} PROVE from - 1 \in R /\ from - 1 <= t
      OBVIOUS
    <3>2. ~(Max(older) < rows[1] - 1)
      BY <1>5, <3>1 DEF KeepsAcrossGap
    <3>3. older \in SUBSET (0..h)
      BY <1>2
    <3>4. Max(older) \in older
      BY <3>1, <3>3, Greatest
    <3>5. Max(older) \in R /\ Max(older) < from
      BY <2>1, <3>4
    <3> HIDE DEF older, R
    <3>6. Max(older) = from - 1
      BY <1>1, <1>2, <2>1, <3>2, <3>5
    <3>7. from - 1 \in R
      BY <3>5, <3>6
    <3>8. from - 1 <= t
      BY <1>1, <1>2, <2>1, <3>7
    <3>9. QED BY <3>7, <3>8
  <2>4. \A x \in R : x < from => older # {}
    BY <2>1
  <2> HIDE DEF older, R, U
  <2>5. ASSUME NEW x \in U, NEW y \in Nat, x < y, y <= c1 PROVE y \in U
    <3>1. CASE y >= from
      BY <1>1, <2>2, <2>5, <3>1
    <3>2. CASE y < from
      <4>1. x \in R /\ x \in Nat /\ x < from
        BY <1>1, <1>2, <2>2, <2>5, <3>2
      <4>2. from - 1 <= t
        BY <2>3, <2>4, <4>1
      <4>3. y <= t
        BY <1>1, <3>2, <4>2
      <4>4. y \in R
        BY <1>2, <2>5, <4>1, <4>3 DEF Full
      <4>5. QED BY <2>2, <4>4
    <3>3. QED BY <1>1, <2>5, <3>1, <3>2
  <2>6. \A x \in U : x <= c1
    BY <1>1, <1>3, <2>2
  <2>7. QED BY <2>5, <2>6 DEF Meets, Full, U
<1>6. QED BY <1>4, <1>5

\* So does one that fills the gap after the rows held.
LEMMA AppendMeets ==
  ASSUME NEW h \in Nat, NEW R, \A x \in R : x \in 1..h,
         NEW t \in 0..h, NEW c \in 0..h, NEW c1 \in 0..h, c <= c1, Meets(R, t, c),
         NEW from \in Nat, from <= t + 1
  PROVE  Meets(R \cup (from..c1), c1, c1)
<1> DEFINE U == R \cup (from..c1)
<1>1. (\A x \in R : x \in 1..h) /\ t <= c /\ Full(R, t) /\ \A x \in R : x <= t \/ x = c
  BY DEF Meets
<1>2. \A x \in U : x <= c1 /\ x \in Nat
  BY <1>1
<1>3. ASSUME NEW x \in U, NEW y \in Nat, x < y, y <= c1 PROVE y \in U
  <2>1. CASE y >= from
    BY <1>3, <2>1
  <2>2. CASE y < from
    <3>1. x \in R /\ y <= t
      BY <1>2, <1>3, <2>2
    <3>2. y \in R
      BY <1>1, <1>3, <3>1 DEF Full
    <3>3. QED BY <3>2
  <2>3. QED BY <1>3, <2>1, <2>2
<1> HIDE DEF U
<1>4. QED BY <1>2, <1>3 DEF Meets, Full, U

\* So does a page that ends right before a row that is held, or after it.
LEMMA PageMeets ==
  ASSUME NEW h \in Nat, NEW R, \A x \in R : x \in 1..h, NEW c \in 0..h, Meets(R, c, c),
         NEW from \in Nat, NEW to \in 0..h, to <= c, NEW o \in R, o <= to + 1
  PROVE  Meets(R \cup (from..to), c, c)
<1> DEFINE U == R \cup (from..to)
<1>1. (\A x \in R : x \in 1..h) /\ Full(R, c) /\ \A x \in R : x <= c
  BY DEF Meets
<1>2. \A x \in U : x <= c /\ x \in Nat
  BY <1>1
<1>3. ASSUME NEW x \in U, NEW y \in Nat, x < y, y <= c PROVE y \in U
  <2>1. CASE x \in R
    <3>1. y \in R
      BY <1>1, <1>3, <2>1 DEF Full
    <3>2. QED BY <3>1
  <2>2. CASE x \in from..to /\ y <= to
    BY <1>3, <2>2
  <2>3. CASE x \in from..to /\ ~(y <= to)
    <3>1. o \in Nat /\ (o = y \/ o < y)
      BY <1>1, <1>3, <2>3
    <3>2. y \in R
      BY <1>1, <1>3, <3>1 DEF Full
    <3>3. QED BY <3>2
  <2>4. QED BY <1>3, <2>1, <2>2, <2>3
<1> HIDE DEF U
<1>4. QED BY <1>2, <1>3 DEF Meets, Full, U

\* A page was asked for at the oldest row held, or above it.
Adjoins(r, f) ==
  f.mode = "before" => OldestId(r) # 0 /\ OldestId(r) <= NewestId(f.rows) + 1

\* What a slice leads from: a shell, a gap-fill, the newest rows, or a page.
LEMMA SliceKinds ==
  ASSUME NEW h \in Nat, NEW f \in Frames(h), f.kind \in {"backlog", "history"}, f.mode # "around",
         NEW t, NEW c, NEW t1, NEW c1, Leads(f, t, c, t1, c1)
  PROVE  \/ /\ f.mode = "shell" /\ f.rows = <<>> /\ t = c /\ t1 = c /\ c1 = c
            /\ (f.moreOlder \/ c = 0)
         \/ \E from \in Nat : f.mode = "append" /\ IsRun(f, from, c1) /\ c1 # 0 /\ t1 = c1 /\ from <= t + 1
         \/ \E from \in Nat : /\ f.mode \in {"replace", "latest"} /\ IsRun(f, from, c1) /\ t1 = c1
                              /\ (t = c \/ c = c1)
         \/ \E from, to \in Nat : /\ f.mode = "before" /\ IsRun(f, from, to) /\ to <= c
                                  /\ t = c /\ t1 = c /\ c1 = c
<1>1. f.kind # "snapshot" /\ f.kind # "irc"
  OBVIOUS
<1>2. CASE f.kind = "backlog"
  <2>1. CASE \E from \in Nat :
               /\ IsRun(f, from, c1) /\ c1 # 0 /\ t1 = c1
               /\ \/ f.mode = "append" /\ from <= t + 1
                  \/ f.mode = "replace" /\ (t = c \/ c = c1)
    BY <2>1
  <2>2. CASE /\ f.mode = "shell" /\ f.rows = <<>>
             /\ t = c /\ t1 = c /\ c1 = c /\ (f.moreOlder \/ c = 0)
    BY <2>2
  <2>3. QED BY <1>1, <1>2, <2>1, <2>2 DEF Leads
<1>3. CASE f.kind = "history"
  <2>1. /\ t = c /\ t1 = c /\ c1 = c
        /\ \/ f.mode = "latest" /\ \E from \in Nat : IsRun(f, from, c)
           \/ f.mode = "before" /\ \E from, to \in Nat : to <= c /\ IsRun(f, from, to)
    BY <1>1, <1>3 DEF Leads
  <2>2. CASE f.mode = "latest"
    BY <2>1, <2>2
  <2>3. CASE f.mode = "before"
    BY <2>1, <2>3
  <2>4. QED BY <2>1, <2>2, <2>3
<1>4. QED BY <1>2, <1>3

\* The rows it brings together have no hole up to where it leads.
LEMMA SliceMeets ==
  ASSUME NEW h \in Nat, buf \in Buffers(h), buf.newest = NewestId(buf.ring),
         NEW f \in Frames(h), f.kind \in {"backlog", "history"}, f.mode # "around",
         NEW t \in 0..h, NEW c \in 0..h, NEW t1 \in 0..h, NEW c1 \in 0..h, c <= c1,
         Leads(f, t, c, t1, c1), Meets(Ids(buf.ring), t, c),
         ~KeepsAcrossGap(f), Adjoins(buf.ring, f)
  PROVE  Meets(Brought(buf, f), t1, c1)
<1> DEFINE R == Ids(buf.ring)
<1>1. \A x \in R : x \in 1..h
  BY IdsHeld
<1>2. CASE f.mode = "shell" /\ t1 = t /\ c1 = c
  BY <1>2 DEF Brought
<1>3. CASE \E from \in Nat : f.mode = "append" /\ IsRun(f, from, c1) /\ t1 = c1 /\ from <= t + 1
  <2>1. PICK from \in Nat : f.mode = "append" /\ IsRun(f, from, c1) /\ t1 = c1 /\ from <= t + 1
    BY <1>3
  <2>2. Range(f.rows) = from..c1
    BY <2>1, RunHas
  <2>3. Brought(buf, f) = R \cup (from..c1)
    BY <2>1, <2>2 DEF Brought
  <2> HIDE DEF R
  <2>4. Meets(R \cup (from..c1), c1, c1)
    BY <1>1, <2>1, AppendMeets DEF R
  <2>5. QED BY <2>1, <2>3, <2>4
<1>4. CASE \E from \in Nat : /\ f.mode \in {"replace", "latest"} /\ IsRun(f, from, c1) /\ t1 = c1
                             /\ (t = c \/ c = c1)
  <2>1. PICK from \in Nat : IsRun(f, from, c1)
    BY <1>4
  <2>2. Meets(Joined(buf, f.rows), c1, c1)
    BY <1>4, <2>1, JoinedMeets
  <2>3. Brought(buf, f) = Joined(buf, f.rows)
    BY <1>4 DEF Brought
  <2>4. QED BY <1>4, <2>2, <2>3
<1>5. CASE \E from, to \in Nat : /\ f.mode = "before" /\ IsRun(f, from, to) /\ to <= c
                                 /\ t = c /\ t1 = c /\ c1 = c
  <2>1. PICK from, to \in Nat : IsRun(f, from, to) /\ to <= c
    BY <1>5
  <2>2. to \in 0..h
    BY <2>1
  <2>3. /\ Range(f.rows) = from..to
        /\ from <= to => NewestId(f.rows) = to
        /\ ~(from <= to) => to = 0 /\ NewestId(f.rows) = 0
    BY <2>1, <2>2, RunHas
  <2>4. NewestId(f.rows) = to
    BY <2>3
  <2>5. OldestId(buf.ring) \in R /\ OldestId(buf.ring) <= to + 1
    <3>1. buf.ring \in Seq(0..h)
      BY BufferHas, RingHas
    <3>2. OldestId(buf.ring) # 0 /\ OldestId(buf.ring) <= to + 1
      BY <1>5, <2>4 DEF Adjoins
    <3>3. QED BY <3>1, <3>2, OldestIs
  <2>6. Brought(buf, f) = R \cup (from..to)
    BY <1>5, <2>3 DEF Brought
  <2>7. Meets(R, c, c)
    BY <1>5
  <2> HIDE DEF R
  <2>8. Meets(R \cup (from..to), c, c)
    BY <1>1, <2>1, <2>2, <2>5, <2>7, PageMeets
  <2>9. QED BY <1>5, <2>6, <2>8
<1>6. QED BY <1>2, <1>3, <1>4, <1>5, SliceKinds

\* The cursor goes where the slice leads.
LEMMA SliceMoves ==
  ASSUME NEW h \in Nat, NEW f \in Frames(h), f.kind \in {"backlog", "history"}, f.mode # "around",
         NEW t \in 0..h, NEW c \in 0..h, NEW t1 \in 0..h, NEW c1 \in 0..h, c <= c1,
         Leads(f, t, c, t1, c1)
  PROVE  Higher(c, NewestId(f.rows)) = c1
<1>1. CASE f.rows = <<>> /\ c1 = c
  <2>1. NewestId(<<>>) = 0
    BY DEF NewestId, NoId, Ids, Range
  <2>2. QED BY <1>1, <2>1 DEF Higher
<1>2. CASE \E from \in Nat : IsRun(f, from, c1)
  <2>1. PICK from \in Nat : IsRun(f, from, c1)
    BY <1>2
  <2>2. NewestId(f.rows) = c1
    <3>1. /\ from <= c1 => NewestId(f.rows) = c1
          /\ ~(from <= c1) => c1 = 0 /\ NewestId(f.rows) = 0
      BY <2>1, RunHas
    <3>2. QED BY <3>1
  <2>3. QED BY <2>2 DEF Higher
<1>3. CASE \E from, to \in Nat : IsRun(f, from, to) /\ to <= c /\ c1 = c
  <2>1. PICK from, to \in Nat : IsRun(f, from, to) /\ to <= c
    BY <1>3
  <2>2. to \in 0..h
    BY <2>1
  <2>3. NewestId(f.rows) = to
    <3>1. /\ from <= to => NewestId(f.rows) = to
          /\ ~(from <= to) => to = 0 /\ NewestId(f.rows) = 0
      BY <2>1, <2>2, RunHas
    <3>2. QED BY <3>1
  <2>4. QED BY <1>3, <2>1, <2>2, <2>3 DEF Higher
<1>4. QED BY SMTT(30), <1>1, <1>2, <1>3, SliceKinds

\* The pager is armed where older rows remain, or nothing is held.
Armed(b, c) ==
  /\ OldestId(b.ring) > 1 => b.moreOlder
  /\ Ids(b.ring) = {} => b.moreOlder \/ c = 0

LEMMA SliceArms ==
  ASSUME NEW h \in Nat, buf \in Buffers(h),
         NEW f \in Frames(h), f.kind \in {"backlog", "history"}, f.mode # "around",
         NEW t \in 0..h, NEW c \in 0..h, NEW t1 \in 0..h, NEW c1 \in 0..h, c <= c1,
         Leads(f, t, c, t1, c1), Meets(Ids(buf.ring), t, c), Adjoins(buf.ring, f),
         NEW b \in Buffers(h), Ascending(b.ring), Crops(b, Brought(buf, f), f.moreOlder)
  PROVE  Armed(b, c1)
<1> DEFINE R == Ids(buf.ring)
           U == Brought(buf, f)
<1>1. CASE b.moreOlder
  BY <1>1 DEF Armed
<1>2. CASE ~b.moreOlder
  <2>1. Ids(b.ring) = U /\ ~f.moreOlder
    BY <1>2 DEF Crops
  <2>2. /\ OldestId(b.ring) \in Nat /\ (OldestId(b.ring) = 0 <=> U = {})
        /\ \A x \in U : OldestId(b.ring) <= x
    <3>1. b.ring \in Seq(0..h)
      BY BufferHas, RingHas
    <3>2. QED BY <2>1, <3>1, OldestIs, OldestIsLeast
  <2>3. (\A x \in R : x \in 1..h) /\ t <= c /\ \A x \in R : x <= t \/ x = c
    BY IdsHeld DEF Meets
  <2>4. c = 0 => R = {}
    BY <2>3
  <2>5. SUFFICES 1 \in U \/ (U = {} /\ c1 = 0)
    <3>1. CASE 1 \in U
      BY <2>1, <2>2, <3>1 DEF Armed
    <3>2. CASE U = {} /\ c1 = 0
      BY <2>1, <2>2, <3>2 DEF Armed
    <3>3. QED BY <2>5, <3>1, <3>2
  <2>6. CASE f.mode = "shell" /\ c = 0 /\ c1 = 0
    BY <2>4, <2>6 DEF Brought
  <2>7. CASE \E from \in Nat : f.mode = "append" /\ IsRun(f, from, c1) /\ c1 # 0
    <3>1. PICK from \in Nat : IsRun(f, from, c1)
      BY <2>7
    <3>2. from = 1 /\ Range(f.rows) = from..c1
      BY <2>1, <3>1, RunHas
    <3>3. 1 \in Range(f.rows)
      BY <2>7, <3>2
    <3>4. QED BY <2>7, <3>3 DEF Brought
  <2>8. CASE \E from \in Nat : f.mode \in {"replace", "latest"} /\ IsRun(f, from, c1)
    <3>1. PICK from \in Nat : IsRun(f, from, c1)
      BY <2>8
    <3>2. /\ from = 1 /\ Range(f.rows) = from..c1
          /\ ~(from <= c1) => OldestId(f.rows) = 0 /\ NewestId(f.rows) = 0 /\ c1 = 0
      BY <2>1, <3>1, RunHas
    <3>3. U = Joined(buf, f.rows)
      BY <2>8 DEF Brought
    <3>4. CASE c1 = 0
      <4>1. Range(f.rows) = {} /\ OldestId(f.rows) = 0 /\ NewestId(f.rows) = 0
        BY <3>2, <3>4
      <4>2. Survivors(buf.ring, f.rows) = {}
        BY <4>1 DEF Survivors, NoId
      <4>3. Joined(buf, f.rows) = {}
        BY <4>1, <4>2 DEF Joined, Overlaps, NoId
      <4>4. QED BY <3>3, <3>4, <4>3
    <3>5. CASE c1 # 0
      <4>1. 1 \in Range(f.rows)
        BY <3>2, <3>5
      <4>2. QED BY <3>3, <4>1 DEF Joined
    <3>6. QED BY <3>4, <3>5
  <2>9. CASE \E from, to \in Nat : f.mode = "before" /\ IsRun(f, from, to) /\ to <= c
    <3>1. PICK from, to \in Nat : IsRun(f, from, to) /\ to <= c
      BY <2>9
    <3>2. to \in 0..h
      BY <3>1
    <3>3. /\ from = 1 /\ Range(f.rows) = from..to
          /\ ~(from <= to) => NewestId(f.rows) = 0
      BY <2>1, <3>1, <3>2, RunHas
    <3>4. U = R \cup Range(f.rows)
      BY <2>9 DEF Brought
    <3>5. CASE to # 0
      BY <3>2, <3>3, <3>4, <3>5
    <3>6. CASE to = 0
      <4>1. NewestId(f.rows) = 0
        BY <3>3, <3>6
      <4>2. OldestId(buf.ring) # 0 /\ OldestId(buf.ring) <= 1
        BY <2>9, <4>1 DEF Adjoins
      <4>3. OldestId(buf.ring) \in R /\ OldestId(buf.ring) \in Nat
        <5>1. buf.ring \in Seq(0..h)
          BY BufferHas, RingHas
        <5>2. QED BY <4>2, <5>1, OldestIs
      <4>4. 1 \in R
        BY <4>2, <4>3
      <4>5. QED BY <3>4, <4>4
    <3>7. QED BY <3>5, <3>6
  <2>10. QED BY <2>1, <2>6, <2>7, <2>8, <2>9, SliceKinds
<1>3. QED BY <1>1, <1>2

--------------------------------------------------------------------------------
(* No hole, and a pager that is armed *)

\* A snapshot comes right before the slice it announces.
Announced(q) ==
  \A i \in 1..Len(q) :
    q[i].kind = "snapshot" => i + 1 \in 1..Len(q) /\ q[i + 1].kind = "backlog"

\* The frames on their way lead from what is held to all that the server has sent.
Led == \E t, n \in 0..head :
         /\ LeadTo(frames, head, t, cursor, n, n)
         /\ up => n = head
         /\ Meets(Ids(buf.ring), t, cursor)

\* The rows next to which a page was asked for are still held.
EdgesMet ==
  /\ \A i \in 1..Len(requests) : requests[i].mode = "before" =>
       OldestId(buf.ring) # 0 /\ OldestId(buf.ring) <= requests[i].before
  /\ \A i \in 1..Len(frames) : frames[i].kind = "history" => Adjoins(buf.ring, frames[i])

\* As long as no hazard has struck, and fewer lines without an id were shown than the
\* ring holds
Whole == spoiled = {} /\ locals < RingCapacity

HoleInv ==
  Whole => Led /\ Announced(frames) /\ EdgesMet /\ (BurstApplied => Armed(buf, cursor))

\* What the other invariants say of the buffer then
LEMMA WholeHas ==
  ASSUME RingInv, OnceInv, Whole
  PROVE  /\ Neat(buf, locals) /\ locals \in Nat /\ buf.newest = NewestId(buf.ring)
         /\ Ascending(buf.ring) /\ Unspoiled
         /\ OldestId(buf.ring) # 0 => buf.newest # 0
<1>1. Unspoiled
  BY DEF Whole, Unspoiled
<1>2. Neat(buf, locals)
  BY <1>1 DEF OnceInv
<1>3. locals \in Nat /\ buf.newest = NewestId(buf.ring) /\ Ascending(buf.ring)
  BY <1>2 DEF Neat, Tidy
<1>4. PICK h : h = head
  OBVIOUS
<1>5. h \in Nat /\ buf.ring \in Seq(0..h)
  BY <1>4, QueueHas DEF RingInv
<1>6. OldestId(buf.ring) # 0 => buf.newest # 0
  BY <1>3, <1>5, OldestIs, NewestIs
<1>7. QED BY <1>1, <1>2, <1>3, <1>6

\* A buffer with a newest id has an oldest.
LEMMA OldestStays ==
  ASSUME NEW h \in Nat, NEW b \in Buffers(h), NEW d, Neat(b, d), b.newest # 0
  PROVE  OldestId(b.ring) # 0
<1>1. b.ring \in Seq(0..h) /\ Ascending(b.ring) /\ NewestId(b.ring) # 0
  BY BufferHas, RingHas DEF Neat, Tidy
<1>2. Ids(b.ring) # {}
  BY <1>1, NewestIs
<1>3. QED BY <1>1, <1>2, OldestIsLeast

\* What is left of the queue is announced as before.
LEMMA TailAnnounced ==
  ASSUME NEW S, NEW q \in Seq(S), q # <<>>, Announced(q)
  PROVE  /\ Announced(Tail(q))
         /\ Head(q).kind = "snapshot" => \E i \in 1..Len(Tail(q)) : Tail(q)[i].kind = "backlog"
         /\ \A i \in 1..Len(Tail(q)) : i + 1 \in 1..Len(q) /\ Tail(q)[i] = q[i + 1]
<1> DEFINE n == Len(q)
           s == Tail(q)
<1>1. n \in Nat /\ n >= 1 /\ Len(s) = n - 1 /\ Head(q) = q[1] /\ \A i \in 1..(n - 1) : s[i] = q[i + 1]
  BY HeadTailProperties
<1>2. \A i \in 1..n : q[i].kind = "snapshot" => i + 1 \in 1..n /\ q[i + 1].kind = "backlog"
  BY DEF Announced
<1> HIDE DEF n, s
<1>3. \A i \in 1..(n - 1) : i + 1 \in 1..n
  BY <1>1
<1>4. ASSUME NEW i \in 1..(n - 1), s[i].kind = "snapshot"
      PROVE  i + 1 \in 1..(n - 1) /\ s[i + 1].kind = "backlog"
  <2>1. (i + 1) + 1 \in 1..n /\ q[(i + 1) + 1].kind = "backlog"
    BY <1>1, <1>2, <1>3, <1>4
  <2>2. i + 1 \in 1..(n - 1)
    BY <1>1, <2>1
  <2>3. QED BY <1>1, <2>1, <2>2
<1>5. ASSUME Head(q).kind = "snapshot" PROVE \E i \in 1..(n - 1) : s[i].kind = "backlog"
  <2>1. 1 \in 1..n
    BY <1>1
  <2>2. 1 + 1 \in 1..n /\ q[1 + 1].kind = "backlog"
    BY <1>1, <1>2, <1>5, <2>1
  <2>3. 1 \in 1..(n - 1)
    BY <1>1, <2>2
  <2>4. QED BY <1>1, <2>2, <2>3
<1>6. QED BY <1>1, <1>3, <1>4, <1>5 DEF Announced, s, n

LEMMA NewestOf ==
  ASSUME NEW h \in Nat, NEW f \in Frames(h), f.kind \in {"backlog", "history"}
  PROVE  NewestId(f.rows) \in Nat
<1>1. f.rows \in Seq(0..h)
  BY FrameHas, SliceIsRing
<1>2. QED BY <1>1, NewestIs

\* Edges stay met as long as the old edge does not move away.
LEMMA EdgesStay ==
  ASSUME NEW h \in Nat, EdgesMet, buf.ring \in Seq(0..h), buf'.ring \in Seq(0..h),
         OldestId(buf.ring) # 0 => OldestId(buf'.ring) # 0, ~EdgeMoves(frames', buf'),
         requests' = requests, requests \in Seq(Asked(h)), frames' \in Seq(Frames(h)),
         \A i \in 1..Len(frames') : \E n \in 1..Len(frames) : frames'[i] = frames[n]
  PROVE  EdgesMet'
<1> DEFINE a == OldestId(buf.ring)
           b == OldestId(buf'.ring)
<1>1. a \in Nat /\ b \in Nat /\ (a # 0 => b # 0)
  BY OldestIs
<1>2. DOMAIN requests = 1..Len(requests) /\ DOMAIN frames' = 1..Len(frames')
  OBVIOUS
<1>3. ASSUME NEW i \in 1..Len(requests), requests[i].mode = "before"
      PROVE  a # 0 /\ a <= requests[i].before /\ requests[i].before \in Nat
  <2>1. requests[i] \in Asked(h)
    BY <1>3
  <2>2. requests[i].before \in Nat
    BY <1>3, <2>1 DEF Asked
  <2>3. QED BY <1>3, <2>2 DEF EdgesMet
<1>4. ASSUME NEW i \in 1..Len(frames'), frames'[i].kind = "history", frames'[i].mode = "before"
      PROVE  a # 0 /\ a <= NewestId(frames'[i].rows) + 1 /\ NewestId(frames'[i].rows) \in Nat
  <2>1. PICK n \in 1..Len(frames) : frames'[i] = frames[n]
    OBVIOUS
  <2>2. Adjoins(buf.ring, frames[n])
    BY <1>4, <2>1 DEF EdgesMet
  <2>3. a # 0 /\ a <= NewestId(frames'[i].rows) + 1
    BY <1>4, <2>1, <2>2 DEF Adjoins
  <2>4. frames'[i] \in Frames(h)
    OBVIOUS
  <2>5. NewestId(frames'[i].rows) \in Nat
    BY <1>4, <2>4, NewestOf
  <2>6. QED BY <2>3, <2>5
<1>5. \/ ~(b > a)
      \/ /\ \A i \in 1..Len(requests) : requests[i].mode # "before"
         /\ \A i \in 1..Len(frames') : ~(frames'[i].kind = "history" /\ frames'[i].mode = "before")
  BY <1>2 DEF EdgeMoves
<1>6. /\ \A i \in 1..Len(requests) : requests[i].mode = "before" => b # 0 /\ b <= requests[i].before
      /\ \A i \in 1..Len(frames') : frames'[i].kind = "history" /\ frames'[i].mode = "before"
           => b # 0 /\ b <= NewestId(frames'[i].rows) + 1
  <2> HIDE DEF a, b
  <2>1. CASE ~(b > a)
    <3>1. a # 0 => b # 0 /\ b <= a
      BY <1>1, <2>1
    <3>2. ASSUME NEW i \in 1..Len(requests), requests[i].mode = "before"
          PROVE  b # 0 /\ b <= requests[i].before
      BY <1>1, <1>3, <3>1, <3>2
    <3>3. ASSUME NEW i \in 1..Len(frames'), frames'[i].kind = "history", frames'[i].mode = "before"
          PROVE  b # 0 /\ b <= NewestId(frames'[i].rows) + 1
      BY <1>1, <1>4, <3>1, <3>3
    <3>4. QED BY <3>2, <3>3
  <2>2. CASE /\ \A i \in 1..Len(requests) : requests[i].mode # "before"
             /\ \A i \in 1..Len(frames') : ~(frames'[i].kind = "history" /\ frames'[i].mode = "before")
    BY <2>2
  <2>3. QED BY <1>5, <2>1, <2>2
<1>7. QED BY <1>6 DEF EdgesMet, Adjoins

LEMMA ApplySliceHole ==
  ASSUME RingInv, RingInv', OnceInv, HoleInv, Takes, ApplySlice(Head(frames)),
         Head(frames).kind \in {"backlog", "history"}, UNCHANGED <<server, counts>>
  PROVE  HoleInv'
<1>1. PICK h : h = head
  OBVIOUS
<1>2. PICK f : f = Head(frames)
  OBVIOUS
<1>3. PICK b : b = IF f.kind = "backlog" THEN MergeBacklog(buf, f) ELSE MergeHistory(buf, f)
  OBVIOUS
<1>4. SUFFICES ASSUME Whole'
               PROVE  Led' /\ Announced(frames') /\ EdgesMet' /\ Armed(buf', cursor')
  BY DEF HoleInv
<1>5. /\ h \in Nat /\ buf \in Buffers(h) /\ buf.ring \in Seq(0..h)
      /\ frames \in Seq(Frames(h)) /\ frames # <<>> /\ requests \in Seq(Asked(h))
  BY <1>1, QueueHas DEF RingInv, Stock, Takes
<1>6. f \in Frames(h) /\ f.kind \in {"backlog", "history"} /\ frames' = Tail(frames) /\ frames' \in Seq(Frames(h))
  BY <1>1, <1>2, QueueHas DEF RingInv, Takes
<1>7. /\ buf' = b /\ spoiled' = spoiled \cup StruckBy(f, b) /\ locals' = locals
      /\ cursor' = Higher(cursor, NewestId(f.rows)) /\ head' = head /\ up' = up /\ requests' = requests
  BY <1>2, <1>3 DEF ApplySlice, counts, server
<1>8. Whole /\ StruckBy(f, b) = {}
  BY <1>4, <1>7 DEF Whole
<1>9. /\ f.mode # "around" /\ ~KeepsAcrossGap(f) /\ ~BehindLocalRow(f) /\ ~Clamped(f)
      /\ ~EdgeMoves(Tail(frames), b)
  BY <1>2, <1>8 DEF StruckBy, Hazards
<1>10. /\ Neat(buf, locals) /\ locals \in Nat /\ buf.newest = NewestId(buf.ring) /\ Unspoiled
       /\ OldestId(buf.ring) # 0 => buf.newest # 0
  BY <1>8, WholeHas
<1>11. Led /\ Announced(frames) /\ EdgesMet
  BY <1>8 DEF HoleInv
<1>12. Cleared(buf.ring, f.rows) /\ Neat(b, locals) /\ b.newest >= buf.newest
  BY <1>2, <1>3, <1>5, <1>6, <1>9, <1>10, SliceNeat
<1>13. b \in Buffers(h) /\ b.ring \in Seq(0..h) /\ Ascending(b.ring)
  <2>1. b \in Current(h)
    BY <1>1, <1>7 DEF RingInv, Stock
  <2>2. b \in Buffers(h)
    BY <2>1 DEF Current, Trimmed
  <2>3. QED BY <1>12, <2>2, BufferHas, RingHas DEF Neat, Tidy
<1>14. PICK t0 \in 0..h, n \in 0..h :
         LeadTo(frames, h, t0, cursor, n, n) /\ (up => n = h) /\ Meets(Ids(buf.ring), t0, cursor)
  BY <1>1, <1>11 DEF Led
<1>15. PICK t \in 0..h, c \in 0..h :
         Leads(f, t0, cursor, t, c) /\ cursor <= c /\ LeadTo(Tail(frames), h, t, c, n, n)
  BY <1>2, <1>5, <1>14, LeadRest
<1>16. cursor \in 0..h
  BY <1>1 DEF RingInv, Stock
<1>17. Adjoins(buf.ring, f)
  <2>1. 1 \in 1..Len(frames) /\ f = frames[1]
    BY <1>2, <1>5
  <2>2. CASE f.kind = "history"
    BY <1>11, <2>1, <2>2 DEF EdgesMet
  <2>3. CASE f.kind = "backlog"
    <3>1. f.mode # "before"
      BY <1>6, <2>3, FrameHas DEF Slices
    <3>2. QED BY <3>1 DEF Adjoins
  <2>4. QED BY <1>6, <2>2, <2>3
<1>18. Meets(Brought(buf, f), t, c)
  BY <1>5, <1>6, <1>9, <1>10, <1>14, <1>15, <1>16, <1>17, SliceMeets
<1>19. Crops(b, Brought(buf, f), f.moreOlder)
  <2>1. Uncut(buf, f)
    BY <1>9 DEF Clamped, Uncut
  <2>2. CASE f.kind = "backlog"
    <3>1. b = MergeBacklog(buf, f)
      BY <1>3, <2>2
    <3>2. QED BY <1>5, <1>6, <1>10, <1>12, <2>1, <2>2, <3>1, MergeBacklogCrops
  <2>3. CASE f.kind = "history"
    <3>1. b = MergeHistory(buf, f)
      BY <1>3, <2>3
    <3>2. QED BY <1>5, <1>6, <1>9, <1>10, <1>12, <2>1, <2>3, <3>1, MergeHistoryCrops
  <2>4. QED BY <1>6, <2>2, <2>3
<1>20. Meets(Ids(b.ring), t, c)
  BY <1>18, <1>19, CropMeets
<1>21. cursor' = c
  <2>1. Higher(cursor, NewestId(f.rows)) = c
    BY <1>5, <1>6, <1>9, <1>15, <1>16, SliceMoves
  <2>2. QED BY <1>7, <2>1
<1>22. Led'
  BY <1>1, <1>6, <1>7, <1>14, <1>15, <1>20, <1>21 DEF Led
<1>23. /\ Announced(frames')
       /\ \A i \in 1..Len(frames') : i + 1 \in 1..Len(frames) /\ frames'[i] = frames[i + 1]
  BY <1>5, <1>6, <1>11, TailAnnounced
<1>24. EdgesMet'
  <2>1. OldestId(buf.ring) # 0 => OldestId(buf'.ring) # 0
    <3>1. SUFFICES ASSUME OldestId(buf.ring) # 0 PROVE OldestId(b.ring) # 0
      BY <1>7
    <3>2. b.newest # 0
      <4>1. buf.newest # 0 /\ buf.newest \in Nat /\ b.newest \in Nat
        BY <1>5, <1>10, <1>13, <3>1, BufferHas
      <4>2. QED BY <1>12, <4>1
    <3>3. QED BY <1>5, <1>12, <1>13, <3>2, OldestStays
  <2>2. ~EdgeMoves(frames', buf')
    BY <1>6, <1>7, <1>9
  <2>3. \A i \in 1..Len(frames') : \E m \in 1..Len(frames) : frames'[i] = frames[m]
    BY <1>23
  <2>4. buf'.ring \in Seq(0..h)
    BY <1>7, <1>13
  <2>5. QED BY <1>5, <1>6, <1>7, <1>11, <2>1, <2>2, <2>3, <2>4, EdgesStay
<1>25. Armed(b, c)
  BY <1>5, <1>6, <1>9, <1>13, <1>14, <1>15, <1>16, <1>17, <1>19, SliceArms
<1>26. QED BY <1>7, <1>21, <1>22, <1>23, <1>24, <1>25

\* Without a slice on its way the cursor is where the rows held are whole.
LEMMA NoneAhead ==
  ASSUME NEW h \in Nat, NEW q \in Seq(Frames(h)), NEW t0, NEW c0, NEW n, LeadTo(q, h, t0, c0, n, n),
         Announced(q), \A i \in 1..Len(q) : q[i].kind # "backlog"
  PROVE  t0 = c0
<1>1. CASE q = <<>>
  <2>1. Len(q) = 0
    BY <1>1
  <2>2. QED BY <2>1 DEF LeadTo
<1>2. CASE q # <<>>
  <2>1. 1 \in 1..Len(q) /\ Head(q) = q[1] /\ Head(q) \in Frames(h)
    BY <1>2, HeadTailProperties
  <2>2. PICK t, c : Leads(Head(q), t0, c0, t, c)
    BY <1>2, LeadRest
  <2>3. Head(q).kind # "backlog" /\ Head(q).kind # "snapshot"
    BY <2>1 DEF Announced
  <2>4. QED BY <2>2, <2>3 DEF Leads
<1>3. QED BY <1>1, <1>2

\* A live row joins what is held.
LEMMA LiveMeets ==
  ASSUME NEW h \in Nat, NEW R, \A x \in R : x \in 1..h,
         NEW c0 \in 0..h, NEW t \in 0..h, NEW c \in 0..h, c0 <= c, t = c0 \/ (t = c /\ c <= c0 + 1),
         Meets(R, c0, c0)
  PROVE  Meets(R \cup {c}, t, c)
<1> DEFINE U == R \cup {c}
<1>1. (\A x \in R : x \in 1..h) /\ Full(R, c0) /\ \A x \in R : x <= c0
  BY DEF Meets
<1>2. \A x \in U : x \in Nat /\ (x <= t \/ x = c)
  BY <1>1
<1>3. ASSUME NEW x \in U, NEW y \in Nat, x < y, y <= t PROVE y \in U
  <2>1. x \in R
    BY <1>3
  <2>2. y <= c0 \/ y = c
    BY <1>3
  <2>3. y <= c0 => y \in R
    BY <1>1, <1>3, <2>1 DEF Full
  <2>4. QED BY <2>2, <2>3
<1>4. t <= c
  OBVIOUS
<1> HIDE DEF U
<1>5. QED BY <1>2, <1>3, <1>4 DEF Meets, Full, U

LEMMA ApplyLiveHole ==
  ASSUME RingInv, RingInv', OnceInv, OnceInv', HoleInv, Takes, ApplyLive(Head(frames).row),
         Head(frames).kind = "irc", UNCHANGED <<server, counts>>
  PROVE  HoleInv'
<1>1. PICK h : h = head
  OBVIOUS
<1>2. PICK f : f = Head(frames)
  OBVIOUS
<1>3. PICK row : row = f.row
  OBVIOUS
<1>4. SUFFICES ASSUME Whole'
               PROVE  Led' /\ Announced(frames') /\ EdgesMet' /\ (BurstApplied' => Armed(buf', cursor'))
  BY DEF HoleInv
<1>5. /\ h \in Nat /\ buf \in Buffers(h) /\ buf.ring \in Seq(0..h) /\ cursor \in 0..h
      /\ frames \in Seq(Frames(h)) /\ frames # <<>> /\ requests \in Seq(Asked(h))
  BY <1>1, QueueHas DEF RingInv, Stock, Takes
<1>6. /\ f \in Frames(h) /\ f.kind = "irc" /\ frames' = Tail(frames) /\ frames' \in Seq(Frames(h))
      /\ row \in 1..h
  BY <1>1, <1>2, <1>3, QueueHas, FrameHas DEF RingInv, Takes
<1>7. head' = head /\ up' = up /\ requests' = requests /\ locals' = locals
  BY DEF counts, server
<1>8. Whole
  BY <1>2, <1>3, <1>4, <1>7 DEF Whole, ApplyLive
<1>9. /\ Neat(buf, locals) /\ locals \in Nat /\ buf.newest = NewestId(buf.ring) /\ Ascending(buf.ring)
      /\ OldestId(buf.ring) # 0 => buf.newest # 0
  BY <1>8, WholeHas
<1>10. Led /\ Announced(frames) /\ EdgesMet /\ (BurstApplied => Armed(buf, cursor))
  BY <1>8 DEF HoleInv
<1>11. PICK t0 \in 0..h, n \in 0..h :
         LeadTo(frames, h, t0, cursor, n, n) /\ (up => n = h) /\ Meets(Ids(buf.ring), t0, cursor)
  BY <1>1, <1>10 DEF Led
<1>12. PICK t \in 0..h, c \in 0..h :
         Leads(f, t0, cursor, t, c) /\ cursor <= c /\ LeadTo(Tail(frames), h, t, c, n, n)
  BY <1>2, <1>5, <1>11, LeadRest
<1>13. t0 = cursor /\ row = c /\ (t = cursor \/ (t = c /\ c <= cursor + 1))
  BY <1>3, <1>6, <1>12 DEF Leads
<1>14. /\ Announced(frames')
       /\ \A i \in 1..Len(frames') : i + 1 \in 1..Len(frames) /\ frames'[i] = frames[i + 1]
  BY <1>5, <1>6, <1>10, TailAnnounced
<1>15. BurstApplied' => BurstApplied /\ t = c
  <2>1. DOMAIN frames = 1..Len(frames) /\ DOMAIN frames' = 1..Len(frames')
    BY <1>5, <1>6
  <2>2. SUFFICES ASSUME BurstApplied' PROVE BurstApplied /\ t = c
    OBVIOUS
  <2>3. \A i \in 1..Len(frames') : frames'[i].kind # "backlog"
    BY <2>1, <2>2 DEF BurstApplied
  <2>4. LeadTo(frames', h, t, c, n, n)
    BY <1>6, <1>12
  <2>5. t = c
    BY <1>5, <1>6, <1>14, <2>3, <2>4, NoneAhead
  <2>6. ASSUME NEW i \in 1..Len(frames) PROVE frames[i].kind # "backlog"
    <3>1. Len(frames') = Len(frames) - 1 /\ Len(frames) \in Nat /\ \A j \in 1..Len(frames') : frames'[j] = frames[j + 1]
      BY <1>5, <1>6, <1>14, HeadTailProperties
    <3>2. CASE i = 1
      BY <1>2, <1>5, <1>6, <3>2
    <3>3. CASE i # 1
      <4>1. i - 1 \in 1..Len(frames') /\ (i - 1) + 1 = i
        BY <3>1, <3>3
      <4>2. frames'[i - 1] = frames[i]
        BY <3>1, <4>1
      <4>3. QED BY <2>3, <4>1, <4>2
    <3>4. QED BY <3>2, <3>3
  <2>7. QED BY <2>1, <2>5, <2>6 DEF BurstApplied
<1>16. \A x \in Ids(buf.ring) : x \in 1..h /\ x <= cursor
  <2>1. \A x \in Ids(buf.ring) : x \in 1..h
    BY <1>5, IdsHeld
  <2>2. \A x \in Ids(buf.ring) : x <= cursor
    BY <1>5, <1>11, <1>13, <2>1 DEF Meets
  <2>3. QED BY <2>1, <2>2
<1>17. CASE Replayed(buf, row)
  <2>1. buf' = buf /\ cursor' = cursor
    BY <1>2, <1>3, <1>17 DEF ApplyLive
  <2>2. row <= cursor
    BY <1>16, <1>17 DEF Replayed
  <2>3. c = cursor /\ t = cursor
    BY <1>12, <1>13, <2>2, <1>5
  <2>4. Led'
    <3>1. LeadTo(frames', h, cursor, cursor, n, n)
      BY <1>6, <1>12, <2>3
    <3>2. QED BY <1>1, <1>5, <1>7, <1>11, <1>13, <2>1, <3>1 DEF Led
  <2>5. EdgesMet'
    <3>1. \A i \in 1..Len(frames') : frames'[i].kind = "history" => Adjoins(buf.ring, frames'[i])
      BY <1>10, <1>14 DEF EdgesMet
    <3>2. QED BY <1>7, <1>10, <2>1, <3>1 DEF EdgesMet
  <2>6. BurstApplied' => Armed(buf', cursor')
    BY <1>10, <1>15, <2>1
  <2>7. QED BY <1>14, <2>4, <2>5, <2>6
<1>18. CASE ~Replayed(buf, row)
  <2>1. PICK b : b = AddLive(buf, row)
    OBVIOUS
  <2>2. buf' = b /\ cursor' = Higher(cursor, row) /\ ~EdgeMoves(Tail(frames), b)
    <3>1. spoiled' = {}
      BY <1>4 DEF Whole
    <3>2. QED BY <1>2, <1>3, <1>18, <2>1, <3>1 DEF ApplyLive
  <2>3. cursor' = c
    BY <1>5, <1>12, <1>13, <2>2 DEF Higher
  <2>4. buf.newest \in Nat
    BY <1>5, BufferHas
  <2>5. buf.newest < row
    <3>1. buf.newest # 0 => buf.newest \in Ids(buf.ring)
      BY <1>5, <1>9, NewestIs
    <3>2. buf.newest <= row
      BY <1>5, <1>12, <1>13, <1>16, <2>4, <3>1
    <3>3. CASE buf.newest = row
      <4>1. row \in Ids(buf.ring)
        BY <1>6, <3>1, <3>3
      <4>2. ~Fresh(buf, row)
        BY <1>6, <3>3 DEF Fresh
      <4>3. QED BY <1>18, <4>1, <4>2 DEF Replayed
    <3>4. QED BY <1>6, <2>4, <3>2, <3>3
  <2>6. Crops(b, Ids(buf.ring) \cup {row}, buf.moreOlder)
    BY <1>5, <1>6, <1>9, <2>1, <2>5, AddLiveCrops
  <2>7. b \in Buffers(h) /\ b.ring \in Seq(0..h) /\ Neat(b, locals) /\ b.newest # 0
    <3>1. b \in Buffers(h)
      BY <1>1, <1>7, <2>2 DEF RingInv, Stock, Current, Trimmed
    <3>2. Neat(b, locals) /\ b.newest = row
      BY <1>5, <1>6, <1>9, <2>1, <2>5, AddLiveTidy
    <3>3. QED BY <1>6, <3>1, <3>2, BufferHas, RingHas
  <2>8. OldestId(b.ring) # 0
    BY <1>5, <2>7, OldestStays
  <2>9. Meets(Ids(buf.ring) \cup {c}, t, c)
    <3>1. Meets(Ids(buf.ring), cursor, cursor)
      BY <1>11, <1>13
    <3>2. PICK R : R = Ids(buf.ring)
      OBVIOUS
    <3>3. Meets(R \cup {c}, t, c)
      BY <1>5, <1>12, <1>13, <1>16, <3>1, <3>2, LiveMeets
    <3>4. QED BY <3>2, <3>3
  <2>10. Meets(Ids(b.ring), t, c)
    BY <1>13, <2>6, <2>9, CropMeets
  <2>11. Led'
    BY <1>1, <1>6, <1>7, <1>11, <1>12, <2>2, <2>3, <2>10 DEF Led
  <2>12. EdgesMet'
    <3>1. \A i \in 1..Len(frames') : \E m \in 1..Len(frames) : frames'[i] = frames[m]
      BY <1>14
    <3>2. buf'.ring \in Seq(0..h) /\ OldestId(buf'.ring) # 0 /\ ~EdgeMoves(frames', buf')
      BY <1>6, <2>2, <2>7, <2>8
    <3>3. QED BY <1>5, <1>6, <1>7, <1>10, <3>1, <3>2, EdgesStay
  <2>13. ASSUME BurstApplied' PROVE Armed(b, c)
    <3>1. Armed(buf, cursor) /\ t = c
      BY <1>10, <1>15, <2>13
    <3>2. CASE b.moreOlder
      BY <3>2 DEF Armed
    <3>3. CASE ~b.moreOlder
      <4>1. Ids(b.ring) = Ids(buf.ring) \cup {row} /\ ~buf.moreOlder
        BY <2>6, <3>3 DEF Crops
      <4>2. OldestId(b.ring) \in Nat /\ \A x \in Ids(b.ring) : OldestId(b.ring) <= x
        <5>1. Ascending(b.ring)
          BY <2>7 DEF Neat, Tidy
        <5>2. QED BY <1>5, <2>7, <5>1, OldestIs, OldestIsLeast
      <4>3. 1 \in Ids(b.ring)
        <5>1. CASE Ids(buf.ring) = {}
          <6>1. cursor = 0
            BY <3>1, <4>1, <5>1 DEF Armed
          <6>2. row = 1
            BY <1>6, <1>12, <1>13, <3>1, <6>1
          <6>3. QED BY <4>1, <6>2
        <5>2. CASE Ids(buf.ring) # {}
          <6>1. ~(OldestId(buf.ring) > 1)
            BY <3>1, <4>1 DEF Armed
          <6>2. OldestId(buf.ring) # 0 /\ OldestId(buf.ring) \in Nat /\ OldestId(buf.ring) \in Ids(buf.ring)
            BY <1>5, <1>9, <5>2, OldestIs, OldestIsLeast
          <6>3. OldestId(buf.ring) = 1
            BY <6>1, <6>2
          <6>4. QED BY <4>1, <6>2, <6>3
        <5>3. QED BY <5>1, <5>2
      <4>4. QED BY <4>2, <4>3 DEF Armed
    <3>4. QED BY <3>2, <3>3
  <2>14. QED BY <1>14, <2>2, <2>3, <2>11, <2>12, <2>13
<1>19. QED BY <1>17, <1>18

\* A snapshot that skips no row moves the cursor to where no row is missing.
LEMMA ApplySnapshotHole ==
  ASSUME RingInv, OnceInv, HoleInv, Takes, ApplySnapshot(Head(frames)), Head(frames).kind = "snapshot",
         UNCHANGED <<server, counts>>
  PROVE  HoleInv'
<1>1. PICK h : h = head
  OBVIOUS
<1>2. PICK f : f = Head(frames)
  OBVIOUS
<1>3. SUFFICES ASSUME Whole'
               PROVE  Led' /\ Announced(frames') /\ EdgesMet' /\ ~BurstApplied'
  BY DEF HoleInv
<1>4. /\ h \in Nat /\ buf \in Buffers(h) /\ buf.ring \in Seq(0..h) /\ cursor \in 0..h
      /\ frames \in Seq(Frames(h)) /\ frames # <<>>
  BY <1>1, QueueHas DEF RingInv, Stock, Takes
<1>5. frames' = Tail(frames) /\ frames' \in Seq(Frames(h)) /\ f.kind = "snapshot"
  BY <1>1, <1>2, QueueHas DEF RingInv, Takes
<1>6. /\ head' = head /\ up' = up /\ requests' = requests /\ locals' = locals /\ buf' = buf
      /\ cursor' = Higher(cursor, f.cursor)
  BY <1>2 DEF ApplySnapshot, counts, server
<1>7. Whole /\ ~SkipsRows(f)
  BY <1>2, <1>3, <1>6 DEF Whole, ApplySnapshot
<1>8. Led /\ Announced(frames) /\ EdgesMet
  BY <1>7 DEF HoleInv
<1>9. PICK t0 \in 0..h, n \in 0..h :
         LeadTo(frames, h, t0, cursor, n, n) /\ (up => n = h) /\ Meets(Ids(buf.ring), t0, cursor)
  BY <1>1, <1>8 DEF Led
<1>10. PICK t \in 0..h, c \in 0..h :
         Leads(f, t0, cursor, t, c) /\ cursor <= c /\ LeadTo(Tail(frames), h, t, c, n, n)
  BY <1>2, <1>4, <1>9, LeadRest
<1>11. f.cursor = c /\ t = c
  BY <1>5, <1>10 DEF Leads
<1>12. cursor' = c
  BY <1>4, <1>6, <1>10, <1>11 DEF Higher
<1>13. Meets(Ids(buf.ring), c, c)
  <2> DEFINE R == Ids(buf.ring)
             o == OldestId(buf.ring)
  <2>1. \A x \in R : x \in 1..h
    BY <1>4, IdsHeld
  <2>2. Ascending(buf.ring)
    BY <1>7, WholeHas
  <2>3. o \in Nat /\ \A x \in R : o <= x
    BY <1>4, <2>2, OldestIs, OldestIsLeast
  <2>4. R # {} => \A y \in (o + 1)..c : y \in R
    BY <1>7, <1>11 DEF SkipsRows
  <2>5. \A x \in R : x <= t0 \/ x = cursor
    BY <1>9 DEF Meets
  <2>6. t0 <= cursor
    BY <1>9 DEF Meets
  <2> HIDE DEF R, o
  <2>7. ASSUME NEW x \in R, NEW y \in Nat, x < y, y <= c PROVE y \in R
    <3>1. y \in (o + 1)..c
      BY <2>1, <2>3, <2>7
    <3>2. QED BY <2>4, <2>7, <3>1
  <2>8. \A x \in R : x <= c
    BY <1>4, <1>10, <2>1, <2>5, <2>6
  <2>9. QED BY <2>7, <2>8 DEF Meets, Full, R
<1>14. Led'
  BY <1>1, <1>5, <1>6, <1>9, <1>10, <1>11, <1>12, <1>13 DEF Led
<1>15. /\ Announced(frames')
       /\ \E i \in 1..Len(frames') : frames'[i].kind = "backlog"
       /\ \A i \in 1..Len(frames') : i + 1 \in 1..Len(frames) /\ frames'[i] = frames[i + 1]
  <2>1. Head(frames).kind = "snapshot"
    BY <1>2, <1>5
  <2>2. QED BY <1>4, <1>5, <1>8, <2>1, TailAnnounced
<1>16. EdgesMet'
  <2>1. \A i \in 1..Len(frames') : frames'[i].kind = "history" => Adjoins(buf.ring, frames'[i])
    BY <1>8, <1>15 DEF EdgesMet
  <2>2. QED BY <1>6, <1>8, <2>1 DEF EdgesMet
<1>17. ~BurstApplied'
  <2>1. DOMAIN frames' = 1..Len(frames')
    BY <1>5
  <2>2. QED BY <1>15, <2>1 DEF BurstApplied
<1>18. QED BY <1>14, <1>15, <1>16, <1>17

LEMMA ApplyFrameHole ==
  ASSUME RingInv, RingInv', OnceInv, OnceInv', HoleInv, ApplyFrame PROVE HoleInv'
<1>1. Takes /\ UNCHANGED <<server, counts>>
  BY DEF ApplyFrame
<1>2. CASE Head(frames).kind = "snapshot" /\ ApplySnapshot(Head(frames))
  BY <1>1, <1>2, ApplySnapshotHole
<1>3. CASE Head(frames).kind \in {"backlog", "history"} /\ ApplySlice(Head(frames))
  BY <1>1, <1>3, ApplySliceHole
<1>4. CASE Head(frames).kind = "irc" /\ ApplyLive(Head(frames).row)
  BY <1>1, <1>4, ApplyLiveHole
<1>5. QED BY <1>2, <1>3, <1>4 DEF ApplyFrame

LEMMA InjectHole ==
  ASSUME RingInv, RingInv', OnceInv, OnceInv', HoleInv, InjectLine PROVE HoleInv'
<1>1. PICK h : h = head
  OBVIOUS
<1>2. PICK b : b = Inject(buf)
  OBVIOUS
<1>3. SUFFICES ASSUME Whole'
               PROVE  Led' /\ Announced(frames') /\ EdgesMet' /\ (BurstApplied' => Armed(buf', cursor'))
  BY DEF HoleInv
<1>4. /\ h \in Nat /\ buf \in Buffers(h) /\ buf.ring \in Seq(0..h) /\ cursor \in 0..h
      /\ frames \in Seq(Frames(h)) /\ requests \in Seq(Asked(h))
  BY <1>1, QueueHas DEF RingInv, Stock
<1>5. /\ head' = head /\ up' = up /\ requests' = requests /\ frames' = frames /\ cursor' = cursor
      /\ buf' = b /\ locals' = locals + 1 /\ locals \in Nat /\ RingCapacity \in Nat
  BY <1>2, RingAssumption, BoundAssumption DEF InjectLine, server, RingInv, Notes
<1>6. spoiled' = {} /\ locals + 1 < RingCapacity
  BY <1>3, <1>5 DEF Whole
<1>7. spoiled = {} /\ ~EdgeMoves(frames, b)
  BY <1>2, <1>6 DEF InjectLine
<1>8. Whole
  BY <1>5, <1>6, <1>7 DEF Whole
<1>9. /\ Neat(buf, locals) /\ buf.newest = NewestId(buf.ring) /\ Ascending(buf.ring)
      /\ OldestId(buf.ring) # 0 => buf.newest # 0
  BY <1>8, WholeHas
<1>10. Led /\ Announced(frames) /\ EdgesMet /\ (BurstApplied => Armed(buf, cursor))
  BY <1>8 DEF HoleInv
<1>11. Neat(b, locals + 1) /\ b.newest = buf.newest /\ Crops(b, Ids(buf.ring), buf.moreOlder)
  BY <1>2, <1>4, <1>5, <1>6, <1>9, InjectTidy, InjectCrops
<1>12. b \in Buffers(h) /\ b.ring \in Seq(0..h) /\ Ascending(b.ring)
  <2>1. b \in Buffers(h)
    BY <1>1, <1>5 DEF RingInv, Stock, Current, Trimmed
  <2>2. QED BY <1>11, <2>1, BufferHas, RingHas DEF Neat, Tidy
<1>13. OldestId(buf.ring) # 0 => OldestId(b.ring) # 0
  BY <1>4, <1>9, <1>11, <1>12, OldestStays
<1>14. Led'
  <2>1. PICK t0 \in 0..h, n \in 0..h :
          LeadTo(frames, h, t0, cursor, n, n) /\ (up => n = h) /\ Meets(Ids(buf.ring), t0, cursor)
    BY <1>1, <1>10 DEF Led
  <2>2. Meets(Ids(b.ring), t0, cursor)
    BY <1>11, <2>1, CropMeets
  <2>3. QED BY <1>1, <1>5, <2>1, <2>2 DEF Led
<1>15. EdgesMet'
  <2>1. \A i \in 1..Len(frames') : \E m \in 1..Len(frames) : frames'[i] = frames[m]
    BY <1>5
  <2>2. /\ buf'.ring \in Seq(0..h) /\ ~EdgeMoves(frames', buf') /\ frames' \in Seq(Frames(h))
        /\ OldestId(buf.ring) # 0 => OldestId(buf'.ring) # 0
    BY <1>4, <1>5, <1>7, <1>12, <1>13
  <2>3. QED BY <1>4, <1>5, <1>10, <2>1, <2>2, EdgesStay
<1>16. BurstApplied' => Armed(b, cursor)
  <2>1. BurstApplied' => Armed(buf, cursor)
    BY <1>5, <1>10 DEF BurstApplied
  <2>2. CASE b.moreOlder
    BY <2>2 DEF Armed
  <2>3. CASE ~b.moreOlder
    <3>1. Ids(b.ring) = Ids(buf.ring) /\ ~buf.moreOlder
      BY <1>11, <2>3 DEF Crops
    <3>2. /\ OldestId(b.ring) \in Nat /\ (OldestId(b.ring) # 0 => OldestId(b.ring) \in Ids(b.ring))
          /\ \A x \in Ids(b.ring) : OldestId(b.ring) <= x
      BY <1>4, <1>12, OldestIs, OldestIsLeast
    <3>3. /\ OldestId(buf.ring) \in Nat /\ (OldestId(buf.ring) # 0 => OldestId(buf.ring) \in Ids(buf.ring))
          /\ (OldestId(buf.ring) = 0 <=> Ids(buf.ring) = {})
      BY <1>4, <1>9, OldestIs, OldestIsLeast
    <3>4. OldestId(b.ring) > 1 => OldestId(buf.ring) > 1
      <4>1. SUFFICES ASSUME OldestId(b.ring) > 1 PROVE OldestId(buf.ring) > 1
        OBVIOUS
      <4>2. OldestId(b.ring) \in Ids(buf.ring)
        BY <3>1, <3>2, <4>1
      <4>3. OldestId(buf.ring) \in Ids(b.ring)
        BY <3>1, <3>3, <4>2
      <4>4. OldestId(b.ring) <= OldestId(buf.ring)
        BY <3>2, <4>3
      <4>5. QED BY <3>2, <3>3, <4>1, <4>4
    <3>5. QED BY <2>1, <3>1, <3>4 DEF Armed
  <2>4. QED BY <2>2, <2>3
<1>17. QED BY <1>5, <1>10, <1>14, <1>15, <1>16

\* An element of two sequences put together is an element of one of them.
LEMMA JoinHas ==
  ASSUME NEW S, NEW q \in Seq(S), NEW s \in Seq(S), NEW i \in 1..Len(q \o s)
  PROVE  (\E j \in 1..Len(q) : (q \o s)[i] = q[j]) \/ (\E j \in 1..Len(s) : (q \o s)[i] = s[j])
<1> DEFINE c == q \o s
           a == Len(q)
           b == Len(s)
<1>1. a \in Nat /\ b \in Nat
  OBVIOUS
<1>2. Len(c) = a + b /\ \A j \in 1..(a + b) : c[j] = IF j <= a THEN q[j] ELSE s[j - a]
  BY Zenon, ConcatProperties DEF a, b, c
<1>3. i \in 1..Len(c)
  OBVIOUS
<1> HIDE DEF c, a, b
<1>4. CASE i <= a
  <2>1. i \in 1..a /\ c[i] = q[i]
    BY <1>1, <1>2, <1>3, <1>4
  <2>2. QED BY <2>1 DEF a, c
<1>5. CASE ~(i <= a)
  <2>1. i - a \in 1..b /\ c[i] = s[i - a]
    BY <1>1, <1>2, <1>3, <1>5
  <2>2. QED BY <2>1 DEF b, c
<1>6. QED BY <1>4, <1>5

\* A request joins those outstanding; one for a page is made at the oldest row held.
LEMMA AskHole ==
  ASSUME RingInv, HoleInv, buf' = buf, cursor' = cursor, frames' = frames, spoiled' = spoiled,
         locals' = locals, head' = head, up' = up,
         NEW asked \in Seq(Asked(head)), requests' = requests \o asked,
         \A i \in 1..Len(asked) : asked[i].mode = "before" =>
           OldestId(buf.ring) # 0 /\ OldestId(buf.ring) <= asked[i].before
  PROVE  HoleInv'
<1>1. PICK h : h = head
  OBVIOUS
<1>2. requests \in Seq(Asked(h)) /\ asked \in Seq(Asked(h))
  BY <1>1 DEF RingInv, Stock
<1>3. EdgesMet => EdgesMet'
  <2>1. SUFFICES ASSUME EdgesMet PROVE EdgesMet'
    OBVIOUS
  <2>2. ASSUME NEW i \in 1..Len(requests'), requests'[i].mode = "before"
        PROVE  OldestId(buf.ring) # 0 /\ OldestId(buf.ring) <= requests'[i].before
    <3>1. \/ \E j \in 1..Len(requests) : requests'[i] = requests[j]
          \/ \E j \in 1..Len(asked) : requests'[i] = asked[j]
      <4>1. PICK q : q = requests
        OBVIOUS
      <4>2. q \in Seq(Asked(h)) /\ i \in 1..Len(q \o asked) /\ requests' = q \o asked
        BY <1>2, <4>1
      <4>3. (\E j \in 1..Len(q) : (q \o asked)[i] = q[j]) \/ (\E j \in 1..Len(asked) : (q \o asked)[i] = asked[j])
        BY <1>2, <4>2, JoinHas
      <4>4. QED BY <4>1, <4>2, <4>3
    <3>2. CASE \E j \in 1..Len(requests) : requests'[i] = requests[j]
      BY <2>1, <2>2, <3>2 DEF EdgesMet
    <3>3. CASE \E j \in 1..Len(asked) : requests'[i] = asked[j]
      BY <2>2, <3>3
    <3>4. QED BY <3>1, <3>2, <3>3
  <2>3. \A i \in 1..Len(frames') : frames'[i].kind = "history" => Adjoins(buf'.ring, frames'[i])
    BY <2>1 DEF EdgesMet
  <2>4. QED BY <2>2, <2>3 DEF EdgesMet
<1>4. Whole' => Whole
  BY DEF Whole
<1>5. Led => Led'
  BY DEF Led
<1>6. Announced(frames) => Announced(frames')
  OBVIOUS
<1>7. (BurstApplied => Armed(buf, cursor)) => (BurstApplied' => Armed(buf', cursor'))
  BY DEF BurstApplied
<1>8. QED BY <1>3, <1>4, <1>5, <1>6, <1>7 DEF HoleInv

LEMMA WindowHole ==
  ASSUME RingInv, HoleInv, Activate \/ ScrollToTop \/ OpenResult \/ ReturnToPresent
  PROVE  HoleInv'
<1>1. PICK h : h = head
  OBVIOUS
<1>2. h \in Nat /\ buf.ring \in Seq(0..h)
  BY <1>1, QueueHas DEF RingInv
<1>3. /\ buf' = buf /\ cursor' = cursor /\ frames' = frames /\ spoiled' = spoiled
      /\ locals' = locals /\ head' = head /\ up' = up
  BY DEF Activate, ScrollToTop, OpenResult, ReturnToPresent, counts
<1>4. Latest \in Asked(h) /\ Latest.mode = "latest"
  BY DEF Latest, Asked
<1>5. /\ Hydration \in Seq(Asked(h)) /\ \A i \in 1..Len(Hydration) : Hydration[i].mode # "before"
  <2>1. Hydration = <<>> \/ Hydration = <<Latest>>
    BY DEF Hydration
  <2>2. CASE Hydration = <<>>
    BY <2>2
  <2>3. CASE Hydration = <<Latest>>
    <3> HIDE DEF Latest
    <3>1. <<Latest>> \in Seq(Asked(h)) /\ Len(<<Latest>>) = 1 /\ <<Latest>>[1] = Latest
      BY <1>4
    <3>2. QED BY <1>4, <2>3, <3>1
  <2>4. QED BY <2>1, <2>2, <2>3
<1>6. CASE Activate
  <2>1. requests' = requests \o Hydration
    BY <1>6 DEF Activate, Ask
  <2>2. QED BY <1>1, <1>3, <1>5, <2>1, AskHole
<1>7. CASE ReturnToPresent
  <2>1. requests' = requests \o <<Latest>>
    BY <1>7 DEF ReturnToPresent, Ask
  <2> HIDE DEF Latest
  <2>2. <<Latest>> \in Seq(Asked(h)) /\ Len(<<Latest>>) = 1 /\ <<Latest>>[1] = Latest
    BY <1>4
  <2>3. \A i \in 1..Len(<<Latest>>) : <<Latest>>[i].mode # "before"
    BY <1>4, <2>2
  <2>4. PICK a : a = <<Latest>>
    OBVIOUS
  <2>5. QED BY <1>1, <1>3, <2>1, <2>2, <2>3, <2>4, AskHole
<1>8. CASE ScrollToTop
  <2>1. PICK r : r = Before(OldestId(buf.ring))
    OBVIOUS
  <2>2. requests' = requests \o <<r>> /\ OldestId(buf.ring) # 0
    BY <1>8, <2>1 DEF ScrollToTop, Ask, NoId
  <2>3. r.mode = "before" /\ r.before = OldestId(buf.ring)
    BY <2>1 DEF Before
  <2>4. OldestId(buf.ring) \in 1..h
    BY <1>2, <2>2, OldestIs
  <2>5. r \in Asked(h)
    BY <2>1, <2>4 DEF Before, Asked
  <2>6. PICK a : a = <<r>>
    OBVIOUS
  <2>7. a \in Seq(Asked(h)) /\ Len(a) = 1 /\ a[1] = r
    BY <2>5, <2>6
  <2>8. \A i \in 1..Len(a) : OldestId(buf.ring) # 0 /\ OldestId(buf.ring) <= a[i].before
    BY <2>2, <2>3, <2>4, <2>7
  <2>9. requests' = requests \o a
    BY <2>2, <2>6
  <2>10. QED BY <1>1, <1>3, <2>7, <2>8, <2>9, AskHole
<1>9. CASE OpenResult
  <2>1. PICK row \in 1..head : requests' = requests \o Append(Hydration, Around(row))
    BY <1>9 DEF OpenResult, Ask
  <2>2. Around(row) \in Asked(h) /\ Around(row).mode = "around"
    BY <1>1 DEF Around, Asked
  <2>3. PICK r : r = Around(row)
    OBVIOUS
  <2>4. PICK a : a = Append(Hydration, r)
    OBVIOUS
  <2>5. a = Hydration \o <<r>> /\ <<r>> \in Seq(Asked(h))
    BY <1>5, <2>2, <2>3, <2>4, AppendIsConcat
  <2>6. a \in Seq(Asked(h))
    BY <1>5, <2>2, <2>3, <2>4
  <2>7. ASSUME NEW i \in 1..Len(a) PROVE a[i].mode # "before"
    <3>1. Len(<<r>>) = 1 /\ <<r>>[1] = r /\ r.mode # "before"
      BY <2>2, <2>3
    <3>2. PICK y : y = Hydration
      OBVIOUS
    <3>3. PICK z : z = <<r>>
      OBVIOUS
    <3>4. /\ y \in Seq(Asked(h)) /\ z \in Seq(Asked(h)) /\ a = y \o z
          /\ \A j \in 1..Len(y) : y[j].mode # "before"
          /\ \A j \in 1..Len(z) : z[j].mode # "before"
      BY <1>5, <2>5, <3>1, <3>2, <3>3
    <3>5. i \in 1..Len(y \o z)
      BY <3>4
    <3>6. (\E j \in 1..Len(y) : (y \o z)[i] = y[j]) \/ (\E j \in 1..Len(z) : (y \o z)[i] = z[j])
      BY <3>4, <3>5, JoinHas
    <3>7. QED BY <3>4, <3>6
  <2>8. requests' = requests \o a
    BY <2>1, <2>3, <2>4
  <2>9. QED BY <1>1, <1>3, <2>6, <2>7, <2>8, AskHole
<1>10. QED BY <1>6, <1>7, <1>8, <1>9

\* What joins a queue that is announced, alone or as a snapshot with its slice
LEMMA AnnouncedOn ==
  ASSUME NEW S, NEW q \in Seq(S), NEW f \in S, Announced(q), f.kind # "snapshot"
  PROVE  Announced(Append(q, f))
<1> DEFINE n == Len(q)
           s == Append(q, f)
<1>1. n \in Nat /\ Len(s) = n + 1 /\ s[n + 1] = f /\ \A i \in 1..n : s[i] = q[i]
  BY AppendProperties
<1>2. \A i \in 1..n : q[i].kind = "snapshot" => i + 1 \in 1..n /\ q[i + 1].kind = "backlog"
  BY DEF Announced
<1> HIDE DEF n, s
<1>3. /\ \A i \in 1..(n + 1) : i \in 1..n \/ i = n + 1
      /\ \A i \in 1..n : i \in 1..(n + 1)
  BY <1>1
<1>4. QED BY <1>1, <1>2, <1>3 DEF Announced, s

LEMMA AnnouncedPair ==
  ASSUME NEW S, NEW q \in Seq(S), NEW a \in S, NEW f \in S, Announced(q), f.kind = "backlog"
  PROVE  Announced(Append(Append(q, a), f))
<1> DEFINE n == Len(q)
           p == Append(q, a)
           s == Append(p, f)
<1>1. n \in Nat /\ p \in Seq(S) /\ Len(p) = n + 1 /\ p[n + 1] = a /\ \A i \in 1..n : p[i] = q[i]
  BY AppendProperties
<1> HIDE DEF p
<1>2. Len(s) = (n + 1) + 1 /\ s[(n + 1) + 1] = f /\ \A i \in 1..(n + 1) : s[i] = p[i]
  BY <1>1, AppendProperties
<1>3. \A i \in 1..n : q[i].kind = "snapshot" => i + 1 \in 1..n /\ q[i + 1].kind = "backlog"
  BY DEF Announced
<1> HIDE DEF n, s
<1>4. /\ \A i \in 1..((n + 1) + 1) : i \in 1..n \/ i = n + 1 \/ i = (n + 1) + 1
      /\ \A i \in 1..n : i \in 1..(n + 1) /\ i \in 1..((n + 1) + 1)
      /\ (n + 1) + 1 \in 1..((n + 1) + 1) /\ (n + 1) \in 1..(n + 1)
  BY <1>1
<1>5. ASSUME NEW i \in 1..((n + 1) + 1), s[i].kind = "snapshot"
      PROVE  i + 1 \in 1..((n + 1) + 1) /\ s[i + 1].kind = "backlog"
  <2>1. CASE i \in 1..n
    <3>1. q[i].kind = "snapshot"
      BY <1>1, <1>2, <1>4, <1>5, <2>1
    <3>2. i + 1 \in 1..n /\ q[i + 1].kind = "backlog"
      BY <1>3, <2>1, <3>1
    <3>3. QED BY <1>1, <1>2, <1>4, <3>2
  <2>2. CASE i = n + 1
    BY <1>2, <1>4, <2>2
  <2>3. CASE i = (n + 1) + 1
    BY <1>2, <1>5, <2>3
  <2>4. QED BY <1>4, <2>1, <2>2, <2>3
<1>6. QED BY <1>2, <1>5 DEF Announced, s, p

\* A live row leads one row on, or ahead of the burst that brings those before it.
LEMMA LiveLeads ==
  ASSUME NEW h \in Nat, NEW t \in 0..h, NEW n \in Nat
  PROVE  /\ n = t + 1 => Leads(Live(n), t, t, n, n)
         /\ Leads(Live(n), t, t, t, n)
<1>1. Live(n).kind = "irc" /\ Live(n).row = n
  BY DEF Live
<1> HIDE DEF Live
<1>2. QED BY <1>1 DEF Leads

\* The newest rows of a log are a run of it.
LEMMA EndingRun ==
  ASSUME NEW h \in Nat, NEW to \in 0..h, NEW n \in Nat, n >= 1
  PROVE  \E from \in Nat : /\ Ending(to, n) = Slice(from, to) /\ from >= 1
                           /\ from <= to \/ (from = 1 /\ to = 0)
<1> DEFINE from == IF to > n THEN to - n + 1 ELSE 1
<1>1. from \in Nat /\ from >= 1 /\ (from <= to \/ (from = 1 /\ to = 0))
  OBVIOUS
<1>2. Ending(to, n) = Slice(from, to)
  BY DEF Ending
<1> HIDE DEF from
<1>3. QED BY <1>1, <1>2

\* A burst leads from where the queue has come to the server's newest row.
LEMMA BurstLeads ==
  ASSUME head \in Nat, NEW t \in 0..head, NEW c \in 0..head, t = c \/ c = head,
         NEW since \in 0..head, since <= t, NEW burst \in Bursts(since)
  PROVE  \/ \E a, f \in Frames(head) :
              /\ burst = <<a, f>> /\ a.kind = "snapshot" /\ f.kind = "backlog"
              /\ Leads(a, t, c, head, head) /\ Leads(f, head, head, head, head)
         \/ \E f \in Frames(head) :
              burst = <<f>> /\ f.kind = "backlog" /\ Leads(f, t, c, head, head)
<1>1. PICK h : h = head
  OBVIOUS
<1> DEFINE newest == Ending(head, HydrateLimit)
           gap == Slice(since + 1, head)
           m1 == head > 0
           m2 == newest[1] > 1
           s == Snapshot
           a == Backlog("shell", <<>>, m1)
           b == Backlog("shell", <<>>, TRUE)
           g == Backlog("append", gap, TRUE)
           d == Backlog("replace", newest, m2)
<1>2. /\ since = 0 => burst = <<s, a>>
      /\ since # 0 /\ since = h => burst = <<b>>
      /\ since # 0 /\ since # h => burst = <<g>> \/ burst = <<d>>
  <2>1. since = 0 => burst = <<s, a>>
    <3>1. since = 0 => Bursts(since) = {<<s, a>>}
      BY Zenon DEF Bursts
    <3>2. QED BY <3>1
  <2>2. since # 0 /\ since = head => burst = <<b>>
    BY DEF Bursts
  <2>3. since # 0 /\ since # head => burst = <<g>> \/ burst = <<d>>
    BY DEF Bursts
  <2> HIDE DEF s, a, b, g, d
  <2>4. QED BY <1>1, <2>1, <2>2, <2>3
<1>3. burst \in Seq(Frames(h))
  BY <1>1, BurstsAre
<1>4. /\ s.kind = "snapshot" /\ s.cursor = h
      /\ a.kind = "backlog" /\ a.mode = "shell" /\ a.rows = <<>> /\ (a.moreOlder \/ h = 0)
      /\ b.kind = "backlog" /\ b.mode = "shell" /\ b.rows = <<>> /\ b.moreOlder
      /\ g.kind = "backlog" /\ g.mode = "append" /\ g.rows = gap /\ g.moreOlder
  <2>1. s.kind = "snapshot" /\ s.cursor = h
    BY <1>1 DEF Snapshot
  <2>2. m1 \/ h = 0
    BY <1>1
  <2> HIDE DEF m1, gap
  <2>3. a.kind = "backlog" /\ a.mode = "shell" /\ a.rows = <<>> /\ a.moreOlder = m1
    BY DEF Backlog
  <2>4. b.kind = "backlog" /\ b.mode = "shell" /\ b.rows = <<>> /\ b.moreOlder
    BY DEF Backlog
  <2>5. g.kind = "backlog" /\ g.mode = "append" /\ g.rows = gap /\ g.moreOlder
    BY DEF Backlog
  <2> HIDE DEF s, a, b, g
  <2>6. QED BY <2>1, <2>2, <2>3, <2>4, <2>5
<1>5. d.kind = "backlog" /\ d.mode = "replace" /\ d.rows = newest /\ d.moreOlder = m2
  BY DEF Backlog
<1> HIDE DEF s, a, b, g, d
<1>6. CASE since = 0
  <2>1. s \in Frames(h) /\ a \in Frames(h)
    <3>1. Len(<<s, a>>) = 2 /\ <<s, a>>[1] = s /\ <<s, a>>[2] = a
      OBVIOUS
    <3>2. burst[1] \in Frames(h) /\ burst[2] \in Frames(h)
      BY <1>2, <1>3, <1>6, <3>1
    <3>3. QED BY <1>2, <1>6, <3>1, <3>2
  <2>2. Leads(s, t, c, h, h) /\ Leads(a, h, h, h, h)
    BY <1>4 DEF Leads
  <2>3. QED BY <1>1, <1>2, <1>4, <1>6, <2>1, <2>2
<1>7. ASSUME NEW f, burst = <<f>>, f.kind = "backlog", Leads(f, t, c, h, h)
      PROVE  \E x \in Frames(head) :
               burst = <<x>> /\ x.kind = "backlog" /\ Leads(x, t, c, head, head)
  <2>1. Len(<<f>>) = 1 /\ <<f>>[1] = f
    OBVIOUS
  <2>2. f \in Frames(h)
    BY <1>3, <1>7, <2>1
  <2>3. QED BY <1>1, <1>7, <2>2
<1>8. CASE since # 0 /\ since = h
  <2>1. t = h /\ c = h
    BY <1>1, <1>8
  <2>2. Leads(b, t, c, h, h)
    BY <1>4, <2>1 DEF Leads
  <2>3. QED BY <1>2, <1>4, <1>7, <1>8, <2>2
<1>9. CASE since # 0 /\ since # h
  <2>1. CASE burst = <<g>>
    <3>1. since + 1 \in Nat /\ since + 1 >= 1 /\ since + 1 <= h /\ since + 1 <= t + 1 /\ h # 0
      BY <1>1, <1>9
    <3>2. IsRun(g, since + 1, h)
      BY <1>1, <1>4, <3>1 DEF IsRun
    <3>3. PICK from \in Nat : IsRun(g, from, h) /\ from <= t + 1
      BY <3>1, <3>2
    <3>5. Leads(g, t, c, h, h)
      <4>1. g.kind = "backlog" /\ g.mode = "append" /\ h # 0
        BY <1>4, <3>1
      <4>2. QED BY <3>3, <4>1 DEF Leads
    <3>6. QED BY <1>4, <1>7, <2>1, <3>5
  <2>2. CASE burst = <<d>>
    <3>1. HydrateLimit \in Nat /\ HydrateLimit >= 1 /\ h \in Nat /\ h # 0 /\ h \in 0..h
      BY <1>1, <1>9, LimitAssumption
    <3>2. PICK from \in Nat : newest = Slice(from, h) /\ from >= 1 /\ from <= h
      BY <1>1, <3>1, EndingRun
    <3>3. Slice(from, h)[1] = from
      BY <3>1, <3>2, SliceHas
    <3>4. m2 \/ from = 1
      BY <3>2, <3>3
    <3> HIDE DEF newest, m2
    <3>5. IsRun(d, from, h)
      BY <1>5, <3>1, <3>2, <3>4 DEF IsRun
    <3>6. Leads(d, t, c, h, h)
      BY <1>1, <1>5, <3>1, <3>5 DEF Leads
    <3>7. QED BY <1>5, <1>7, <2>2, <3>6
  <2>3. QED BY <1>2, <1>9, <2>1, <2>2
<1>10. QED BY <1>6, <1>8, <1>9

\* An answer leads nowhere else, and a page ends right before the row it was asked for.
LEMMA AnswerLeads ==
  ASSUME head \in Nat, NEW request \in Asked(head), NEW reply \in Answers(request)
  PROVE  /\ reply.kind = "history" /\ Leads(reply, head, head, head, head)
         /\ reply.mode = "before" =>
              request.mode = "before" /\ NewestId(reply.rows) + 1 = request.before
<1>1. PICK h : h = head /\ h \in Nat
  OBVIOUS
<1>2. ASSUME NEW mode, NEW to \in 0..h, NEW n \in Nat, n >= 1, reply = History(mode, Ending(to, n))
      PROVE  /\ \E from \in Nat : IsRun(reply, from, to)
             /\ reply.kind = "history" /\ reply.mode = mode /\ NewestId(reply.rows) = to
  <2>1. PICK from \in Nat : /\ Ending(to, n) = Slice(from, to) /\ from >= 1
                            /\ from <= to \/ (from = 1 /\ to = 0)
    BY <1>1, <1>2, EndingRun
  <2>2. PICK rows : rows = Slice(from, to)
    OBVIOUS
  <2>3. /\ from <= to => rows # <<>> /\ rows[1] = from /\ NewestId(rows) = to
        /\ to < from => NewestId(rows) = 0
    BY <1>1, <2>1, <2>2, SliceHas
  <2>4. reply = History(mode, rows)
    BY <1>2, <2>1, <2>2
  <2>5. /\ reply.kind = "history" /\ reply.mode = mode /\ reply.rows = rows
        /\ rows # <<>> /\ rows[1] > 1 => reply.moreOlder
    BY <2>4 DEF History
  <2>6. NewestId(rows) = to
    BY <2>1, <2>3
  <2>7. reply.moreOlder \/ from = 1
    BY <2>1, <2>3, <2>5
  <2>8. IsRun(reply, from, to)
    BY <2>1, <2>2, <2>5, <2>7 DEF IsRun
  <2>9. QED BY <2>1, <2>5, <2>6, <2>8
<1>3. CASE request.mode = "latest"
  <2>1. reply = History("latest", Ending(h, HydrateLimit))
    BY <1>1, <1>3 DEF Answers
  <2>2. HydrateLimit \in Nat /\ HydrateLimit >= 1 /\ h \in 0..h
    BY <1>1, LimitAssumption
  <2>3. (\E from \in Nat : IsRun(reply, from, h)) /\ reply.kind = "history" /\ reply.mode = "latest"
    BY <1>2, <2>1, <2>2
  <2>4. Leads(reply, h, h, h, h)
    BY <2>3 DEF Leads
  <2>5. QED BY <1>1, <2>3, <2>4
<1>4. CASE request.mode = "before"
  <2>1. request.before \in 1..h
    BY <1>1, <1>4 DEF Asked
  <2>2. PICK to : to = request.before - 1
    OBVIOUS
  <2>3. to \in 0..h /\ to \in Nat /\ to <= h /\ to + 1 = request.before
    BY <1>1, <2>1, <2>2
  <2>4. PICK n \in PageSizes : reply = History("before", Ending(to, n))
    BY <1>4, <2>2 DEF Answers
  <2>5. n \in Nat /\ n >= 1
    BY LimitAssumption
  <2>6. /\ \E from \in Nat : IsRun(reply, from, to)
        /\ reply.kind = "history" /\ reply.mode = "before" /\ NewestId(reply.rows) = to
    BY <1>2, <2>3, <2>4, <2>5
  <2>7. Leads(reply, h, h, h, h)
    BY <2>3, <2>6 DEF Leads
  <2>8. QED BY <1>1, <1>4, <2>3, <2>6, <2>7
<1>5. CASE request.mode = "around"
  <2>1. PICK rows : reply = History("around", rows)
    BY <1>5 DEF Answers
  <2>2. reply.kind = "history" /\ reply.mode = "around"
    BY <2>1 DEF History
  <2>3. Leads(reply, h, h, h, h)
    BY <2>2 DEF Leads
  <2>4. QED BY <1>1, <2>2, <2>3
<1>6. QED BY <1>3, <1>4, <1>5 DEF Asked

\* What a queue holds when a frame has joined it
LEMMA OnHas ==
  ASSUME NEW S, NEW q \in Seq(S), NEW f \in S
  PROVE  /\ Append(q, f) \in Seq(S)
         /\ \A i \in 1..Len(Append(q, f)) :
              Append(q, f)[i] = f \/ \E m \in 1..Len(q) : Append(q, f)[i] = q[m]
         /\ \E i \in 1..Len(Append(q, f)) : Append(q, f)[i] = f
<1> DEFINE n == Len(q)
           s == Append(q, f)
<1>1. n \in Nat /\ s \in Seq(S) /\ Len(s) = n + 1 /\ s[n + 1] = f /\ \A i \in 1..n : s[i] = q[i]
  BY AppendProperties
<1> HIDE DEF s, n
<1>2. ASSUME NEW i \in 1..(n + 1) PROVE s[i] = f \/ \E m \in 1..n : s[i] = q[m]
  <2>1. i \in 1..n \/ i = n + 1
    BY <1>1
  <2>2. QED BY <1>1, <2>1
<1>3. n + 1 \in 1..(n + 1)
  BY <1>1
<1>4. QED BY <1>1, <1>2, <1>3 DEF s, n

\* What a frame leaves met that joins the queue and is no page
LEMMA EdgesOn ==
  ASSUME EdgesMet, buf' = buf, requests' = requests,
         \A i \in 1..Len(frames') : frames'[i].kind # "history" \/ \E m \in 1..Len(frames) : frames'[i] = frames[m]
  PROVE  EdgesMet'
<1>1. ASSUME NEW i \in 1..Len(frames'), frames'[i].kind = "history"
      PROVE  Adjoins(buf'.ring, frames'[i])
  <2>1. PICK m \in 1..Len(frames) : frames'[i] = frames[m]
    BY <1>1
  <2>2. QED BY <1>1, <2>1 DEF EdgesMet
<1>2. \A i \in 1..Len(requests') : requests'[i].mode = "before" =>
        OldestId(buf'.ring) # 0 /\ OldestId(buf'.ring) <= requests'[i].before
  BY DEF EdgesMet
<1>3. QED BY <1>1, <1>2 DEF EdgesMet

LEMMA PostHole ==
  ASSUME RingInv, HoleInv, Post PROVE HoleInv'
<1>1. PICK h : h = head
  OBVIOUS
<1>2. h \in Nat /\ h + 1 \in Nat /\ frames \in Seq(Frames(h)) /\ up \in BOOLEAN
  BY <1>1, QueueHas DEF RingInv, Stock, Flags
<1>3. /\ buf' = buf /\ cursor' = cursor /\ spoiled' = spoiled /\ locals' = locals
      /\ requests' = requests /\ up' = up /\ head' = h + 1
      /\ frames' = IF up THEN Append(frames, Live(h + 1)) ELSE frames
  BY <1>1 DEF Post, counts
<1>4. SUFFICES ASSUME Whole'
               PROVE  Led' /\ Announced(frames') /\ EdgesMet' /\ (BurstApplied' => Armed(buf', cursor'))
  BY DEF HoleInv
<1>5. Led /\ Announced(frames) /\ EdgesMet /\ (BurstApplied => Armed(buf, cursor))
  BY <1>3, <1>4 DEF HoleInv, Whole
<1>6. PICK t \in 0..h, n \in 0..h :
        LeadTo(frames, h, t, cursor, n, n) /\ (up => n = h) /\ Meets(Ids(buf.ring), t, cursor)
  BY <1>1, <1>5 DEF Led
<1>7. LeadTo(frames, h + 1, t, cursor, n, n) /\ t \in 0..(h + 1) /\ n \in 0..(h + 1)
  BY <1>2, <1>6, LeadRises
<1>8. CASE up
  <2>1. PICK f : f = Live(h + 1)
    OBVIOUS
  <2>2. f.kind = "irc" /\ f \in Frames(h + 1)
    BY <1>2, <2>1 DEF Live, Frames
  <2>3. frames \in Seq(Frames(h + 1))
    <3>1. Frames(h) \subseteq Frames(h + 1)
      BY <1>2, LogGrows
    <3>2. QED BY <1>2, <3>1, SeqMonotonic
  <2>4. frames' = Append(frames, f) /\ n = h /\ h \in 0..(h + 1) /\ h + 1 \in 0..(h + 1) /\ h <= h + 1
    BY <1>2, <1>3, <1>6, <1>8, <2>1
  <2>5. Leads(f, h, h, h + 1, h + 1)
    BY <1>2, <2>1, LiveLeads
  <2>6. LeadTo(frames', h + 1, t, cursor, h + 1, h + 1)
    BY <1>2, <1>7, <2>2, <2>3, <2>4, <2>5, LeadOn
  <2>7. Led'
    BY <1>3, <1>6, <1>7, <2>4, <2>6 DEF Led
  <2>8. /\ \A i \in 1..Len(frames') : frames'[i] = f \/ \E m \in 1..Len(frames) : frames'[i] = frames[m]
        /\ frames' \in Seq(Frames(h + 1)) /\ Announced(frames')
    BY <1>5, <2>2, <2>3, <2>4, OnHas, AnnouncedOn
  <2>9. EdgesMet'
    BY <1>3, <1>5, <2>2, <2>8, EdgesOn
  <2>10. BurstApplied' => BurstApplied
    <3>1. Len(frames') = Len(frames) + 1 /\ \A m \in 1..Len(frames) : frames'[m] = frames[m]
      BY <2>2, <2>3, <2>4, AppendProperties
    <3>2. DOMAIN frames = 1..Len(frames) /\ DOMAIN frames' = 1..Len(frames') /\ Len(frames) \in Nat
      BY <2>3, <2>8
    <3>3. \A m \in 1..Len(frames) : m \in 1..Len(frames')
      BY <3>1, <3>2
    <3>4. QED BY <3>1, <3>2, <3>3 DEF BurstApplied
  <2>11. QED BY <1>3, <1>5, <2>7, <2>8, <2>9, <2>10
<1>9. CASE ~up
  <2>1. frames' = frames /\ ~up'
    BY <1>3, <1>9
  <2>2. Led'
    BY <1>3, <1>6, <1>7, <2>1 DEF Led
  <2>3. EdgesMet' /\ (BurstApplied' => Armed(buf', cursor'))
    BY <1>3, <1>5, <2>1 DEF EdgesMet, BurstApplied
  <2>4. QED BY <1>5, <2>1, <2>2, <2>3
<1>10. QED BY <1>2, <1>8, <1>9

\* A queue that a burst has joined leads to all that the server has, and holds no answer
\* that it did not hold before.
Resumed(s, q, h, t0, c0) ==
  /\ LeadTo(s, h, t0, c0, h, h) /\ Announced(s) /\ s \in Seq(Frames(h))
  /\ \E i \in 1..Len(s) : s[i].kind = "backlog"
  /\ \A i \in 1..Len(s) : s[i].kind # "history" \/ \E m \in 1..Len(q) : s[i] = q[m]

LEMMA BurstOn ==
  ASSUME head \in Nat, NEW q \in Seq(Frames(head)), NEW t0, NEW c0, NEW t \in 0..head, NEW c \in 0..head,
         LeadTo(q, head, t0, c0, t, c), t = c \/ c = head, Announced(q),
         NEW since \in 0..head, since <= t, NEW burst \in Bursts(since)
  PROVE  Resumed(q \o burst, q, head, t0, c0)
<1>1. PICK h : h = head
  OBVIOUS
<1>2. h \in Nat /\ h \in 0..h /\ c <= h /\ q \in Seq(Frames(h))
  BY <1>1
<1>3. ASSUME NEW a \in Frames(h), NEW f \in Frames(h), burst = <<a, f>>, a.kind = "snapshot",
             f.kind = "backlog", Leads(a, t, c, h, h), Leads(f, h, h, h, h)
      PROVE  Resumed(q \o burst, q, h, t0, c0)
  <2>1. PICK p : p = Append(q, a)
    OBVIOUS
  <2>2. p \in Seq(Frames(h)) /\ \A i \in 1..Len(p) : p[i] = a \/ \E m \in 1..Len(q) : p[i] = q[m]
    BY <1>2, <2>1, OnHas
  <2>3. PICK s : s = Append(p, f)
    OBVIOUS
  <2>4. /\ s \in Seq(Frames(h)) /\ \A i \in 1..Len(s) : s[i] = f \/ \E m \in 1..Len(p) : s[i] = p[m]
        /\ \E i \in 1..Len(s) : s[i] = f
    <3>1. p \in Seq(Frames(h))
      BY <2>2
    <3>2. /\ Append(p, f) \in Seq(Frames(h))
          /\ \A i \in 1..Len(Append(p, f)) :
               Append(p, f)[i] = f \/ \E m \in 1..Len(p) : Append(p, f)[i] = p[m]
          /\ \E i \in 1..Len(Append(p, f)) : Append(p, f)[i] = f
      <4>1. f \in Frames(h)
        OBVIOUS
      <4>2. QED BY <3>1, <4>1, OnHas
    <3>3. QED BY <2>3, <3>2
  <2>5. q \o burst = s
    <3>1. p = q \o <<a>> /\ s = p \o <<f>>
      BY <1>2, <2>1, <2>2, <2>3, AppendIsConcat
    <3>2. <<a>> \in Seq(Frames(h)) /\ <<f>> \in Seq(Frames(h))
      OBVIOUS
    <3>3. PICK x : x = <<a>>
      OBVIOUS
    <3>4. PICK y : y = <<f>>
      OBVIOUS
    <3>5. (q \o x) \o y = q \o (x \o y)
      <4>1. x \in Seq(Frames(h)) /\ y \in Seq(Frames(h))
        BY Zenon, <3>2, <3>3, <3>4
      <4>2. QED BY SMTT(30), <1>2, <4>1, ConcatAssociative
    <3>6. x \o y = <<a, f>>
      <4>1. x \in Seq(Frames(h)) /\ x \o y = Append(x, f)
        BY <3>2, <3>3, <3>4, AppendIsConcat
      <4>2. Append(<<a>>, f) = <<a, f>>
        <5>1. PICK u : u = <<a, f>>
          OBVIOUS
        <5>2. u \in Seq(Frames(h)) /\ Len(u) = 2 /\ u[1] = a /\ u[2] = f
          BY <5>1
        <5>3. PICK v : v = Append(x, f)
          OBVIOUS
        <5>4. Len(x) = 1 /\ x[1] = a
          BY <3>3
        <5>5. v \in Seq(Frames(h)) /\ Len(v) = 2 /\ v[1] = a /\ v[2] = f
          <6>1. /\ v \in Seq(Frames(h)) /\ Len(v) = Len(x) + 1 /\ v[Len(x) + 1] = f
                /\ \A i \in 1..Len(x) : v[i] = x[i]
            BY <4>1, <5>3, AppendProperties
          <6>2. QED BY <5>4, <6>1
        <5>6. \A i \in 1..2 : u[i] = v[i]
          BY <5>2, <5>5
        <5>7. u = v
          BY <5>2, <5>5, <5>6, SeqEqual
        <5>8. QED BY <3>3, <5>1, <5>3, <5>7
      <4>3. QED BY Zenon, <3>3, <4>1, <4>2
    <3>7. QED BY <1>3, <3>1, <3>3, <3>4, <3>5, <3>6
  <2>6. LeadTo(p, h, t0, c0, h, h)
    BY <1>1, <1>2, <1>3, <2>1, LeadOn
  <2>7. LeadTo(s, h, t0, c0, h, h)
    BY <1>2, <1>3, <2>2, <2>3, <2>6, LeadOn
  <2>8. Announced(s)
    BY <1>2, <1>3, <2>1, <2>3, AnnouncedPair
  <2>9. \A i \in 1..Len(s) : s[i].kind # "history" \/ \E m \in 1..Len(q) : s[i] = q[m]
    BY <1>3, <2>2, <2>4
  <2>10. QED BY <1>3, <2>4, <2>5, <2>7, <2>8, <2>9 DEF Resumed
<1>4. ASSUME NEW f \in Frames(h), burst = <<f>>, f.kind = "backlog", Leads(f, t, c, h, h)
      PROVE  Resumed(q \o burst, q, h, t0, c0)
  <2>1. PICK s : s = Append(q, f)
    OBVIOUS
  <2>2. q \o burst = s
    BY <1>2, <1>4, <2>1, AppendIsConcat
  <2>3. /\ s \in Seq(Frames(h)) /\ \A i \in 1..Len(s) : s[i] = f \/ \E m \in 1..Len(q) : s[i] = q[m]
        /\ \E i \in 1..Len(s) : s[i] = f
    BY <1>2, <2>1, OnHas
  <2>4. LeadTo(s, h, t0, c0, h, h)
    BY <1>1, <1>2, <1>4, <2>1, LeadOn
  <2>5. Announced(s)
    BY <1>2, <1>4, <2>1, AnnouncedOn
  <2>6. QED BY <1>4, <2>2, <2>3, <2>4, <2>5 DEF Resumed
<1>5. \/ \E a, f \in Frames(h) : /\ burst = <<a, f>> /\ a.kind = "snapshot" /\ f.kind = "backlog"
                                 /\ Leads(a, t, c, h, h) /\ Leads(f, h, h, h, h)
      \/ \E f \in Frames(h) : burst = <<f>> /\ f.kind = "backlog" /\ Leads(f, t, c, h, h)
  BY <1>1, BurstLeads
<1>6. QED BY <1>1, <1>3, <1>4, <1>5

LEMMA ConnectHole ==
  ASSUME RingInv, HoleInv, Connect PROVE HoleInv'
<1>1. PICK h : h = head
  OBVIOUS
<1>2. h \in Nat /\ frames \in Seq(Frames(h)) /\ cursor \in 0..h /\ h \in 0..h
  BY <1>1, QueueHas DEF RingInv, Stock
<1>3. /\ buf' = buf /\ cursor' = cursor /\ spoiled' = spoiled /\ locals' = locals
      /\ requests' = requests /\ head' = h
  BY <1>1 DEF Connect, counts
<1>4. PICK burst \in Bursts(cursor) :
         \/ frames' = frames \o burst
         \/ cursor < head /\ frames' = frames \o <<Live(head)>> \o burst
  BY DEF Connect
<1>5. SUFFICES ASSUME Whole'
               PROVE  Led' /\ Announced(frames') /\ EdgesMet' /\ (BurstApplied' => Armed(buf', cursor'))
  BY DEF HoleInv
<1>6. Led /\ Announced(frames) /\ EdgesMet
  BY <1>3, <1>5 DEF HoleInv, Whole
<1>7. PICK t \in 0..h, n \in 0..h :
        LeadTo(frames, h, t, cursor, n, n) /\ Meets(Ids(buf.ring), t, cursor)
  BY <1>1, <1>6 DEF Led
<1>8. cursor <= n /\ n <= h
  BY <1>2, <1>7, LeadRises
<1>9. Resumed(frames', frames, h, t, cursor)
  <2>1. CASE frames' = frames \o burst
    <3>1. PICK q : q = frames
      OBVIOUS
    <3>2. /\ head \in Nat /\ q \in Seq(Frames(head)) /\ n \in 0..head /\ cursor \in 0..head
          /\ LeadTo(q, head, t, cursor, n, n) /\ Announced(q) /\ cursor <= n
      BY <1>1, <1>2, <1>6, <1>7, <1>8, <3>1
    <3>3. Resumed(q \o burst, q, head, t, cursor)
      BY <3>2, BurstOn
    <3>4. QED BY <1>1, <2>1, <3>1, <3>3
  <2>2. CASE cursor < head /\ frames' = frames \o <<Live(head)>> \o burst
    <3>1. PICK f : f = Live(h)
      OBVIOUS
    <3>2. f.kind = "irc" /\ f \in Frames(h)
      BY <1>1, <1>2, <2>2, <3>1 DEF Live, Frames
    <3>3. PICK q : q = Append(frames, f)
      OBVIOUS
    <3>4. /\ q \in Seq(Frames(h)) /\ Announced(q)
          /\ \A i \in 1..Len(q) : q[i] = f \/ \E m \in 1..Len(frames) : q[i] = frames[m]
      BY <1>2, <1>6, <3>2, <3>3, OnHas, AnnouncedOn
    <3>5. Leads(f, n, n, n, h)
      BY <1>2, <1>7, <3>1, LiveLeads
    <3>6. LeadTo(q, h, t, cursor, n, h)
      BY <1>2, <1>7, <1>8, <3>2, <3>3, <3>5, LeadOn
    <3>7. frames' = q \o burst
      <4>1. q = frames \o <<f>>
        BY <1>2, <3>2, <3>3, AppendIsConcat
      <4>2. QED BY <1>1, <2>2, <3>1, <4>1
    <3>8. PICK c : c = head
      OBVIOUS
    <3>9. /\ head \in Nat /\ q \in Seq(Frames(head)) /\ n \in 0..head /\ cursor \in 0..head
          /\ c \in 0..head /\ LeadTo(q, head, t, cursor, n, c) /\ Announced(q) /\ cursor <= n
          /\ n = c \/ c = head
      BY <1>1, <1>2, <1>7, <1>8, <3>4, <3>6, <3>8
    <3>10. Resumed(q \o burst, q, head, t, cursor)
      <4>1. burst \in Bursts(cursor)
        BY <1>4
      <4>2. PICK since : since = cursor
        OBVIOUS
      <4>3. /\ head \in Nat /\ q \in Seq(Frames(head)) /\ n \in 0..head /\ c \in 0..head
            /\ LeadTo(q, head, t, cursor, n, c) /\ Announced(q)
            /\ n = c \/ c = head
            /\ since \in 0..head /\ since <= n /\ burst \in Bursts(since)
        BY <3>8, <3>9, <4>1, <4>2
      <4>4. QED BY <4>3, BurstOn
    <3>11. Resumed(frames', q, h, t, cursor)
      BY <1>1, <3>7, <3>10
    <3>12. QED BY <3>2, <3>4, <3>11 DEF Resumed
  <2>3. QED BY <1>4, <2>1, <2>2
<1>10. Led'
  BY <1>2, <1>3, <1>7, <1>9 DEF Led, Resumed
<1>11. EdgesMet'
  BY <1>3, <1>6, <1>9, EdgesOn DEF Resumed
<1>12. ~BurstApplied'
  <2>1. DOMAIN frames' = 1..Len(frames')
    BY <1>9 DEF Resumed
  <2>2. QED BY <1>9, <2>1 DEF BurstApplied, Resumed
<1>13. QED BY <1>9, <1>10, <1>11, <1>12 DEF Resumed

LEMMA AnswerHole ==
  ASSUME RingInv, HoleInv, Answer PROVE HoleInv'
<1>1. PICK h : h = head
  OBVIOUS
<1>2. h \in Nat /\ frames \in Seq(Frames(h)) /\ requests \in Seq(Asked(h)) /\ h \in 0..h
  BY <1>1, QueueHas DEF RingInv, Stock
<1>3. /\ buf' = buf /\ cursor' = cursor /\ spoiled' = spoiled /\ locals' = locals
      /\ up' = up /\ up /\ head' = h /\ requests # <<>> /\ requests' = Tail(requests)
  BY <1>1 DEF Answer, counts
<1>4. PICK request : request = Head(requests)
  OBVIOUS
<1>5. PICK reply \in Answers(request) : frames' = Append(frames, reply)
  BY <1>4 DEF Answer
<1>6. request \in Asked(h) /\ request = requests[1] /\ 1 \in 1..Len(requests)
  BY <1>2, <1>3, <1>4, HeadTailProperties
<1>7. SUFFICES ASSUME Whole'
               PROVE  Led' /\ Announced(frames') /\ EdgesMet' /\ (BurstApplied' => Armed(buf', cursor'))
  BY DEF HoleInv
<1>8. Led /\ Announced(frames) /\ EdgesMet /\ (BurstApplied => Armed(buf, cursor))
  BY <1>3, <1>7 DEF HoleInv, Whole
<1>9. PICK t \in 0..h :
        LeadTo(frames, h, t, cursor, h, h) /\ Meets(Ids(buf.ring), t, cursor)
  BY <1>1, <1>3, <1>8 DEF Led
<1>10. /\ reply.kind = "history" /\ Leads(reply, h, h, h, h)
       /\ reply.mode = "before" =>
            request.mode = "before" /\ NewestId(reply.rows) + 1 = request.before
  BY <1>1, <1>2, <1>6, AnswerLeads
<1>11. reply \in Frames(h)
  BY <1>1, <1>2, <1>6, AnswersAre
<1>12. LeadTo(frames', h, t, cursor, h, h)
  BY <1>2, <1>5, <1>9, <1>10, <1>11, LeadOn
<1>13. /\ \A i \in 1..Len(frames') : frames'[i] = reply \/ \E m \in 1..Len(frames) : frames'[i] = frames[m]
       /\ frames' \in Seq(Frames(h)) /\ Announced(frames')
  BY <1>2, <1>5, <1>8, <1>10, <1>11, OnHas, AnnouncedOn
<1>14. Led'
  BY <1>2, <1>3, <1>9, <1>12 DEF Led
<1>15. EdgesMet'
  <2>1. Adjoins(buf.ring, reply)
    BY <1>6, <1>8, <1>10 DEF EdgesMet, Adjoins
  <2>2. ASSUME NEW i \in 1..Len(frames'), frames'[i].kind = "history"
        PROVE  Adjoins(buf'.ring, frames'[i])
    <3>1. CASE frames'[i] = reply
      BY <1>3, <2>1, <3>1
    <3>2. CASE \E m \in 1..Len(frames) : frames'[i] = frames[m]
      <4>1. PICK m \in 1..Len(frames) : frames'[i] = frames[m]
        BY <3>2
      <4>2. QED BY <1>3, <1>8, <2>2, <4>1 DEF EdgesMet
    <3>3. QED BY <1>13, <3>1, <3>2
  <2>3. ASSUME NEW i \in 1..Len(requests'), requests'[i].mode = "before"
        PROVE  OldestId(buf'.ring) # 0 /\ OldestId(buf'.ring) <= requests'[i].before
    <3>1. i + 1 \in 1..Len(requests) /\ requests'[i] = requests[i + 1]
      <4>1. PICK q : q = requests
        OBVIOUS
      <4>2. PICK s : s = Tail(q)
        OBVIOUS
      <4>3. Len(q) \in Nat /\ Len(s) = Len(q) - 1 /\ \A k \in 1..(Len(q) - 1) : s[k] = q[k + 1]
        BY <1>2, <1>3, <4>1, <4>2, HeadTailProperties
      <4>4. i \in 1..Len(s) /\ requests'[i] = s[i]
        BY <1>3, <4>1, <4>2
      <4>5. i + 1 \in 1..Len(q) /\ s[i] = q[i + 1]
        BY <4>3, <4>4
      <4>6. QED BY <4>1, <4>4, <4>5
    <3>2. QED BY <1>3, <1>8, <2>3, <3>1 DEF EdgesMet
  <2>4. QED BY <2>2, <2>3 DEF EdgesMet
<1>16. BurstApplied' => BurstApplied
  <2>1. Len(frames') = Len(frames) + 1 /\ \A m \in 1..Len(frames) : frames'[m] = frames[m]
    BY <1>2, <1>5, <1>11, AppendProperties
  <2>2. DOMAIN frames = 1..Len(frames) /\ DOMAIN frames' = 1..Len(frames') /\ Len(frames) \in Nat
    BY <1>2, <1>13
  <2>3. \A m \in 1..Len(frames) : m \in 1..Len(frames')
    BY <2>1, <2>2
  <2>4. QED BY <2>1, <2>2, <2>3 DEF BurstApplied
<1>17. QED BY <1>3, <1>8, <1>13, <1>14, <1>15, <1>16

LEMMA LoseHole ==
  ASSUME RingInv, HoleInv, Lose PROVE HoleInv'
<1>1. PICK h : h = head
  OBVIOUS
<1>2. h \in Nat /\ frames \in Seq(Frames(h)) /\ requests \in Seq(Asked(h))
  BY <1>1, QueueHas DEF RingInv, Stock
<1>3. /\ buf' = buf /\ cursor' = cursor /\ locals' = locals /\ ~up' /\ head' = h
  BY <1>1 DEF Lose
<1>4. PICK k \in 0..Len(frames) :
        /\ frames' = SubSeq(frames, 1, k)
        /\ spoiled' = IF \E i \in (k + 1)..Len(frames) : frames[i].kind = "backlog"
                      THEN spoiled \cup {"cut"} ELSE spoiled
  BY DEF Lose
<1>5. PICK j \in 0..Len(requests) : requests' = SubSeq(requests, j + 1, Len(requests))
  BY DEF Lose
<1>6. SUFFICES ASSUME Whole'
               PROVE  Led' /\ Announced(frames') /\ EdgesMet' /\ (BurstApplied' => Armed(buf', cursor'))
  BY DEF HoleInv
<1>7. spoiled' = spoiled /\ ~\E i \in (k + 1)..Len(frames) : frames[i].kind = "backlog"
  BY <1>4, <1>6 DEF Whole
<1>8. Led /\ Announced(frames) /\ EdgesMet /\ (BurstApplied => Armed(buf, cursor))
  BY <1>3, <1>6, <1>7 DEF HoleInv, Whole
<1>9. PICK t \in 0..h, n \in 0..h :
        LeadTo(frames, h, t, cursor, n, n) /\ Meets(Ids(buf.ring), t, cursor)
  BY <1>1, <1>8 DEF Led
<1>10. PICK l : l = Len(frames) /\ l \in Nat /\ k \in 0..l
  BY <1>2
<1>11. frames' \in Seq(Frames(h)) /\ Len(frames') = k /\ \A i \in 1..k : frames'[i] = frames[i]
  <2>1. PICK q : q = frames
    OBVIOUS
  <2>2. \A i \in 1..k : q[i] \in Frames(h)
    BY <1>2, <1>10, <2>1
  <2>3. /\ SubSeq(q, 1, k) \in Seq(Frames(h))
        /\ Len(SubSeq(q, 1, k)) = IF 1 <= k THEN k - 1 + 1 ELSE 0
        /\ \A i \in 1..(k - 1 + 1) : SubSeq(q, 1, k)[i] = q[1 + i - 1]
    BY <1>10, <2>2, SubSeqProperties
  <2>4. PICK s : s = SubSeq(q, 1, k)
    OBVIOUS
  <2>5. s \in Seq(Frames(h)) /\ Len(s) = k /\ \A i \in 1..k : s[i] = q[i]
    BY <1>10, <2>3, <2>4
  <2>6. QED BY <1>4, <2>1, <2>4, <2>5
<1>12. ASSUME NEW i \in 1..k, frames[i].kind = "snapshot"
       PROVE  i + 1 \in 1..k /\ frames[i + 1].kind = "backlog"
  <2>1. i + 1 \in 1..l /\ frames[i + 1].kind = "backlog"
    BY <1>8, <1>10, <1>12 DEF Announced
  <2>2. ~(i + 1 \in (k + 1)..l)
    BY <1>7, <1>10, <2>1
  <2>3. i + 1 \in 1..k
    BY <1>10, <2>1, <2>2
  <2>4. QED BY <2>1, <2>3
<1>13. Announced(frames')
  BY <1>11, <1>12 DEF Announced
<1>14. PICK t1 \in 0..h, c1 \in 0..h :
         /\ LeadTo(frames', h, t, cursor, t1, c1)
         /\ k = Len(frames) => t1 = n /\ c1 = n
         /\ k < Len(frames) => \E t2, c2 : Leads(frames[k + 1], t1, c1, t2, c2)
  <2>1. \E x \in 0..h : \E y \in 0..h :
          /\ LeadTo(SubSeq(frames, 1, k), h, t, cursor, x, y)
          /\ k = Len(frames) => x = n /\ y = n
          /\ k < Len(frames) => \E t2, c2 : Leads(frames[k + 1], x, y, t2, c2)
    BY <1>2, <1>9, LeadPart
  <2>2. QED BY <1>4, <2>1
<1>15. t1 = c1
  <2>1. CASE k = l
    BY <1>10, <1>14, <2>1
  <2>2. CASE k # l
    <3>1. k < l /\ k + 1 \in 1..l /\ k + 1 \in (k + 1)..l
      BY <1>10, <2>2
    <3>2. PICK f : f = frames[k + 1]
      OBVIOUS
    <3>3. PICK t2, c2 : Leads(f, t1, c1, t2, c2)
      BY <1>10, <1>14, <3>1, <3>2
    <3>4. f.kind # "backlog"
      BY <1>7, <1>10, <3>1, <3>2
    <3>5. f.kind # "snapshot"
      <4>1. SUFFICES ASSUME f.kind = "snapshot" PROVE FALSE
        OBVIOUS
      <4>2. (k + 1) + 1 \in 1..l /\ frames[(k + 1) + 1].kind = "backlog"
        BY <1>8, <1>10, <3>1, <3>2, <4>1 DEF Announced
      <4>3. (k + 1) + 1 \in (k + 1)..l
        BY <1>10, <4>2
      <4>4. QED BY <1>7, <1>10, <4>2, <4>3
    <3>6. QED BY <3>3, <3>4, <3>5 DEF Leads
  <2>3. QED BY <2>1, <2>2
<1>16. Led'
  BY <1>3, <1>9, <1>14, <1>15 DEF Led
<1>17. EdgesMet'
  <2>1. ASSUME NEW i \in 1..Len(frames'), frames'[i].kind = "history"
        PROVE  Adjoins(buf'.ring, frames'[i])
    <3>1. i \in 1..Len(frames) /\ frames'[i] = frames[i]
      BY <1>10, <1>11
    <3>2. QED BY <1>3, <1>8, <2>1, <3>1 DEF EdgesMet
  <2>2. ASSUME NEW i \in 1..Len(requests'), requests'[i].mode = "before"
        PROVE  OldestId(buf'.ring) # 0 /\ OldestId(buf'.ring) <= requests'[i].before
    <3>1. \E m \in 1..Len(requests) : requests'[i] = requests[m]
      <4>1. PICK q : q = requests
        OBVIOUS
      <4>2. PICK m : m = Len(q) /\ m \in Nat /\ j \in 0..m /\ j \in Nat
        BY <1>2, <4>1
      <4>3. \A x \in (j + 1)..m : q[x] \in Asked(h) /\ x \in 1..m
        BY <1>2, <4>1, <4>2
      <4>4. PICK s : s = SubSeq(q, j + 1, m)
        OBVIOUS
      <4>5. /\ s \in Seq(Asked(h))
            /\ Len(s) = IF j + 1 <= m THEN m - (j + 1) + 1 ELSE 0
            /\ \A x \in 1..(m - (j + 1) + 1) : s[x] = q[(j + 1) + x - 1]
        BY <4>2, <4>3, <4>4, SubSeqProperties
      <4>6. i \in 1..Len(s) /\ requests'[i] = s[i]
        BY <1>5, <4>1, <4>2, <4>4
      <4>7. (j + 1) + i - 1 \in 1..m /\ s[i] = q[(j + 1) + i - 1]
        BY <4>2, <4>5, <4>6
      <4>8. QED BY <4>1, <4>2, <4>6, <4>7
    <3>2. QED BY <1>3, <1>8, <2>2, <3>1 DEF EdgesMet
  <2>3. QED BY <2>1, <2>2 DEF EdgesMet
<1>18. BurstApplied' => BurstApplied
  <2>1. SUFFICES ASSUME BurstApplied', NEW i \in 1..l PROVE frames[i].kind # "backlog"
    BY <1>2, <1>10 DEF BurstApplied
  <2>2. CASE i \in 1..k
    <3>1. i \in DOMAIN frames'
      BY <1>11, <2>2
    <3>2. QED BY <1>11, <2>1, <2>2, <3>1 DEF BurstApplied
  <2>3. CASE i \in (k + 1)..l
    BY <1>7, <1>10, <2>3
  <2>4. QED BY <1>10, <2>2, <2>3
<1>19. QED BY <1>3, <1>8, <1>13, <1>16, <1>17, <1>18

\* It holds at the start, and throughout.
LEMMA HoleInvHolds == Spec => []HoleInv
<1>1. Init => HoleInv
  <2> SUFFICES ASSUME Init PROVE HoleInv
    OBVIOUS
  <2>1. /\ frames = <<>> /\ requests = <<>> /\ cursor = 0 /\ head \in Nat /\ ~up
        /\ buf.ring = <<>>
    BY BoundAssumption DEF Init, EmptyBuffer
  <2>2. Ids(buf.ring) = {}
    BY <2>1 DEF Ids, Range
  <2>3. OldestId(buf.ring) = 0
    <3>1. buf.ring \in Seq(0..head) /\ Ascending(buf.ring)
      BY <2>1 DEF Ascending
    <3>2. QED BY <2>1, <2>2, <3>1, OldestIsLeast
  <2>4. Led
    <3>1. 0 \in 0..head /\ LeadTo(frames, head, 0, cursor, 0, 0)
      BY <2>1, NoneLead
    <3>2. Meets(Ids(buf.ring), 0, cursor)
      BY <2>1, <2>2 DEF Meets, Full
    <3>3. QED BY <2>1, <3>1, <3>2 DEF Led
  <2>5. Announced(frames) /\ EdgesMet
    <3>1. Len(frames) = 0 /\ Len(requests) = 0
      BY <2>1
    <3>2. QED BY <3>1 DEF Announced, EdgesMet
  <2>6. Armed(buf, cursor)
    BY <2>1, <2>3 DEF Armed
  <2>7. QED BY <2>4, <2>5, <2>6 DEF HoleInv
<1>2. RingInv /\ RingInv' /\ OnceInv /\ OnceInv' /\ HoleInv /\ [Next]_vars => HoleInv'
  <2> SUFFICES ASSUME RingInv, RingInv', OnceInv, OnceInv', HoleInv, [Next]_vars PROVE HoleInv'
    OBVIOUS
  <2>1. CASE ApplyFrame
    BY <2>1, ApplyFrameHole
  <2>2. CASE Activate \/ ScrollToTop \/ OpenResult \/ ReturnToPresent
    BY <2>2, WindowHole
  <2>3. CASE InjectLine
    BY <2>3, InjectHole
  <2>4. CASE Server
    BY <2>4, PostHole, ConnectHole, AnswerHole, LoseHole DEF Server
  <2>5. CASE UNCHANGED vars
    <3>1. /\ buf' = buf /\ cursor' = cursor /\ frames' = frames /\ requests' = requests
          /\ head' = head /\ up' = up /\ spoiled' = spoiled /\ locals' = locals
      BY <2>5 DEF vars, counts
    <3>2. Led => Led'
      BY <3>1 DEF Led
    <3>3. EdgesMet => EdgesMet'
      BY <3>1 DEF EdgesMet
    <3>4. (Whole' => Whole) /\ (BurstApplied' => BurstApplied)
      BY <3>1 DEF Whole, BurstApplied
    <3>5. QED BY <3>1, <3>2, <3>3, <3>4 DEF HoleInv
  <2>6. QED BY <2>1, <2>2, <2>3, <2>4, <2>5 DEF Next, Window
<1>3. QED BY <1>1, <1>2, RingInvHolds, OnceInvHolds, PTL DEF Spec

\* However often a connection is lost and resumed, and in whatever order pages, resume
\* gap-fills, live rows and evictions meet: once the burst of a connect is applied, the
\* rows held and those up to the resume cursor have no hole in them, for every limit the
\* client sets to its ring and to a merge, unless one of the named hazards has struck.
THEOREM NothingIsMissing == Spec => []NoHole
<1>1. RingInv /\ HoleInv => NoHole
  <2> SUFFICES ASSUME RingInv, HoleInv, Sound,
                      NEW row \in Row, NEW held \in Ids(buf.ring), held < row, row <= cursor
               PROVE  row \in Ids(buf.ring)
    BY DEF NoHole
  <2>1. PICK h : h = head
    OBVIOUS
  <2>2. h \in Nat /\ frames \in Seq(Frames(h)) /\ row \in Nat
    BY <2>1, QueueHas, BoundAssumption DEF RingInv, Stock, Row
  <2>3. Led /\ Announced(frames) /\ BurstApplied
    BY DEF HoleInv, Whole, Sound
  <2>4. PICK t \in 0..h, n \in 0..h :
          LeadTo(frames, h, t, cursor, n, n) /\ Meets(Ids(buf.ring), t, cursor)
    BY <2>1, <2>3 DEF Led
  <2>5. \A i \in 1..Len(frames) : frames[i].kind # "backlog"
    BY <2>2, <2>3 DEF BurstApplied
  <2>6. t = cursor
    BY <2>2, <2>3, <2>4, <2>5, NoneAhead
  <2>7. Full(Ids(buf.ring), cursor)
    BY <2>4, <2>6 DEF Meets
  <2>8. QED BY <2>2, <2>7 DEF Full
<1>2. QED BY <1>1, RingInvHolds, HoleInvHolds, PTL

\* Whatever evictions, clamped merges, bursts and pages do to the old edge: while the
\* server has rows older than the oldest held, the buffer says so, and a scroll to the
\* top asks for them, under the same conditions.
THEOREM PagerStaysArmed == Spec => []PagerArmed
<1>1. HoleInv => PagerArmed
  BY DEF HoleInv, Whole, Sound, Armed, PagerArmed
<1>2. QED BY <1>1, HoleInvHolds, PTL

===============================================================================
