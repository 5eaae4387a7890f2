------------------------------ MODULE WindowsProofs ------------------------------
(***************************************************************************)
(* What holds of the windows in every state, however many popouts there are:   *)
(* the text of a conversation is never lost between composers, drafts and the  *)
(* server, what a window shows is drawn and read, and a message is split only  *)
(* after the user was asked.                                                  *)
(***************************************************************************)
EXTENDS Windows, FiniteSetTheorems, TLAPS

--------------------------------------------------------------------------------
(* The inductive invariant *)

WindowTypes ==
  [open : BOOLEAN, pinned : Keys \cup {None}, active : Keys \cup {None}, text : Lines,
   pos : 0..MaxRecall, stash : Lines, armed : BOOLEAN, focus : BOOLEAN, drawn : 0..MaxRows,
   asked : Lines, late : BOOLEAN, orphan : BOOLEAN]

Desks ==
  [held : SUBSET Keys, draft : [Keys -> Lines], recalls : [Keys -> 0..MaxRecall],
   newest : [Keys -> 0..MaxRows], read : [Keys -> 0..MaxRows], win : [Windows -> WindowTypes],
   posted : [Keys -> Lines], marked : [Keys -> 0..MaxRows]]

\* A closed window shows nothing, has no focus and nothing asked; one window has the focus.
Tidy(d) ==
  /\ \A w \in Windows : ~d.win[w].open => d.win[w].active = None /\ ~d.win[w].focus
  /\ \A v, w \in Windows : d.win[v].focus /\ d.win[w].focus => v = w
  /\ \A w \in Windows : d.win[w].armed => d.win[w].asked = "long"

\* Nothing is kept of a conversation that is not held, and what is read is marked.
Bare(d) ==
  /\ \A k \in Keys \ d.held : d.draft[k] = "" /\ d.newest[k] = 0
  /\ \A k \in Keys : d.read[k] <= d.marked[k]

\* Those who show a conversation show its text, and its draft is what was left.
Agrees(d, k, text) ==
  /\ d.posted[k] = d.draft[k]
  /\ (\A w \in Windows : d.win[w].active # k) => d.draft[k] = text
  /\ \A w \in Windows : d.win[w].active = k => d.win[w].text = text

Alone(d, k) == \A v, w \in Windows : d.win[v].active = k /\ d.win[w].active = k => v = w

\* What a window draws is there, and read if it has the focus.
Drawn(d, w) ==
  \A k \in Keys : d.win[w].active = k /\ ~d.win[w].late =>
    d.win[w].drawn = d.newest[k] /\ (d.win[w].focus => d.marked[k] >= d.newest[k])

Pins(d) == \A p \in Popouts : d.win[p].open => d.win[p].pinned \in d.held \/ d.win[p].orphan

DeskOK(d) == d \in Desks /\ Tidy(d) /\ Bare(d) /\ Pins(d) /\ \A w \in Windows : Drawn(d, w)

Control ==
  /\ connected \in BOOLEAN /\ complete \in BOOLEAN /\ running \in BOOLEAN
  /\ split \in {"none", "asked"} /\ moves \in 0..MaxMoves

\* While the application runs, and but for the conversations that are excused, what
\* the user left in a conversation is where it belongs.
WindowsInv ==
  /\ DeskOK(Desk) /\ Control
  /\ excused \subseteq Keys /\ work \in [Keys -> Lines]
  /\ running => win[Main].open
  /\ \A k \in Keys \ excused : Alone(Desk, k)
  /\ running => \A k \in held \ excused : Agrees(Desk, k, work[k])

\* The server has the last draft it was told, unless that is under way or was lost.
WireInv ==
  /\ kept \in [Keys -> Lines] /\ flight \subseteq Keys /\ missed \subseteq Keys
  /\ \A k \in Keys \ (flight \cup missed) : kept[k] = posted[k]

--------------------------------------------------------------------------------
(* What the handlers' operators do to a desk *)

\* The three conversations are three, and none of them is none.
LEMMA KeysAre == /\ Channel # Peer /\ Channel # Renamed /\ Peer # Renamed /\ None \notin Keys
                 /\ Keys = {Channel, Peer, Renamed} /\ IsFiniteSet(Windows)
<1>1. \A a, b : Cardinality({a, b}) # 3
  <2>1. SUFFICES ASSUME NEW a, NEW b PROVE Cardinality({a, b}) # 3
    OBVIOUS
  <2>2. IsFiniteSet({b}) /\ Cardinality({b}) = 1
    BY FS_Singleton
  <2>3. {a, b} = {b} \cup {a}
    OBVIOUS
  <2>4. Cardinality({b} \cup {a}) = IF a \in {b} THEN Cardinality({b}) ELSE Cardinality({b}) + 1
    BY <2>2, FS_AddElement
  <2>5. QED BY <2>2, <2>3, <2>4
<1>2. Cardinality({Channel, Peer, Renamed}) = 3 /\ "none" \notin {Channel, Peer, Renamed}
  BY WindowsAssumption
<1>3. Channel # Peer
  <2>1. Channel = Peer => {Channel, Peer, Renamed} = {Peer, Renamed}
    OBVIOUS
  <2>2. QED BY <1>1, <1>2, <2>1
<1>4. Channel # Renamed
  <2>1. Channel = Renamed => {Channel, Peer, Renamed} = {Peer, Renamed}
    OBVIOUS
  <2>2. QED BY <1>1, <1>2, <2>1
<1>5. Peer # Renamed
  <2>1. Peer = Renamed => {Channel, Peer, Renamed} = {Channel, Renamed}
    OBVIOUS
  <2>2. QED BY <1>1, <1>2, <2>1
<1>6. IsFiniteSet(Windows)
  <2>1. IsFiniteSet({Main}) /\ IsFiniteSet(Popouts)
    BY FS_Singleton, WindowsAssumption
  <2>2. QED BY <2>1, FS_Union DEF Windows
<1>7. QED BY <1>2, <1>3, <1>4, <1>5, <1>6 DEF Keys, None

\* What a new window is
LEMMA NewWindowIs ==
  /\ NewWindow \in WindowTypes
  /\ ~NewWindow.open /\ NewWindow.active = None /\ ~NewWindow.focus /\ ~NewWindow.armed
BY WindowsAssumption DEF NewWindow, WindowTypes, Lines, Typed

\* Saving drafts: what those windows show goes into the drafts.
LEMMA SaveDraftIs ==
  ASSUME NEW d \in Desks, NEW ws \in SUBSET Windows
  PROVE  LET s == SaveDraft(d, ws) IN
         /\ s \in Desks
         /\ s.held = d.held /\ s.recalls = d.recalls /\ s.newest = d.newest /\ s.read = d.read
         /\ s.win = d.win /\ s.marked = d.marked
         /\ \A k \in Keys :
              /\ k \notin d.held => s.draft[k] = d.draft[k]
              /\ (\A w \in ws : d.win[w].active # k) => s.draft[k] = d.draft[k] /\ s.posted[k] = d.posted[k]
              /\ \A t \in Lines :
                   /\ k \in d.held
                   /\ \E w \in ws : d.win[w].active = k
                   /\ \A w \in ws : d.win[w].active = k => d.win[w].text = t
                   => s.draft[k] = t /\ s.posted[k] = IF t = d.draft[k] THEN d.posted[k] ELSE t
<1> DEFINE texts(k) == {d.win[w].text : w \in {v \in ws : d.win[v].active = k}}
           saved == {k \in Keys : texts(k) \ {DraftOf(d, k)} # {}}
           last(k) == CHOOSE text \in texts(k) : k \in d.held \/ text # ""
           dr == [k \in Keys |-> IF k \in saved \cap d.held THEN last(k) ELSE d.draft[k]]
           po == [k \in Keys |-> IF k \in saved THEN last(k) ELSE d.posted[k]]
           s == [d EXCEPT !.draft = dr, !.posted = po]
<1>1. SaveDraft(d, ws) = s
  BY Zenon DEF SaveDraft
<1>2. /\ d.draft \in [Keys -> Lines] /\ d.posted \in [Keys -> Lines]
      /\ \A w \in ws : d.win[w].text \in Lines
  BY DEF Desks, WindowTypes
<1>3. \A k \in Keys : texts(k) \subseteq Lines
  BY <1>2
<1>4. ASSUME NEW k \in saved PROVE last(k) \in texts(k) /\ (k \in d.held \/ last(k) # "")
  <2>1. \E text \in texts(k) : k \in d.held \/ text # ""
    BY <1>4 DEF DraftOf
  <2> HIDE DEF texts
  <2>2. QED BY <2>1
<1>5. dr \in [Keys -> Lines] /\ po \in [Keys -> Lines]
  <2>1. \A k \in saved : last(k) \in Lines
    BY <1>3, <1>4
  <2> HIDE DEF saved, last
  <2>2. QED BY <1>2, <2>1
<1>6. ASSUME NEW k \in Keys
      PROVE  /\ k \notin d.held => dr[k] = d.draft[k]
             /\ (\A w \in ws : d.win[w].active # k) => dr[k] = d.draft[k] /\ po[k] = d.posted[k]
  <2>1. (\A w \in ws : d.win[w].active # k) => k \notin saved
    OBVIOUS
  <2> HIDE DEF saved, last
  <2>2. QED BY <2>1
<1>7. ASSUME NEW k \in Keys, NEW t \in Lines, k \in d.held, \E w \in ws : d.win[w].active = k,
             \A w \in ws : d.win[w].active = k => d.win[w].text = t
      PROVE  dr[k] = t /\ po[k] = IF t = d.draft[k] THEN d.posted[k] ELSE t
  <2>1. texts(k) = {t}
    BY <1>7
  <2>2. k \in saved <=> t # d.draft[k]
    BY <1>7, <2>1 DEF DraftOf
  <2>3. k \in saved => last(k) = t
    BY <1>4, <2>1
  <2> HIDE DEF saved, last
  <2>4. QED BY <1>7, <2>2, <2>3
<1> HIDE DEF dr, po
<1>8. /\ s \in Desks /\ s.draft = dr /\ s.posted = po
      /\ s.held = d.held /\ s.recalls = d.recalls /\ s.newest = d.newest /\ s.read = d.read
      /\ s.win = d.win /\ s.marked = d.marked
  BY <1>5 DEF Desks
<1> HIDE DEF s
<1>9. QED BY <1>1, <1>6, <1>7, <1>8

\* Saving drafts keeps a desk in order, and what was left in a conversation.
LEMMA SaveDraftKeeps ==
  ASSUME NEW d, DeskOK(d), NEW ws \in SUBSET Windows
  PROVE  LET s == SaveDraft(d, ws) IN
         /\ DeskOK(s)
         /\ \A k \in d.held, t \in Lines : Agrees(d, k, t) =>
              /\ s.posted[k] = s.draft[k]
              /\ (\A w \in Windows : d.win[w].active = k => w \in ws) => s.draft[k] = t
              /\ (\E w \in ws : d.win[w].active = k) => s.draft[k] = t
<1> DEFINE s == SaveDraft(d, ws)
<1>1. d \in Desks
  BY DEF DeskOK
<1>2. /\ s \in Desks
      /\ s.held = d.held /\ s.recalls = d.recalls /\ s.newest = d.newest /\ s.read = d.read
      /\ s.win = d.win /\ s.marked = d.marked
      /\ \A k \in Keys :
              /\ k \notin d.held => s.draft[k] = d.draft[k]
              /\ (\A w \in ws : d.win[w].active # k) => s.draft[k] = d.draft[k] /\ s.posted[k] = d.posted[k]
              /\ \A t \in Lines :
                   /\ k \in d.held
                   /\ \E w \in ws : d.win[w].active = k
                   /\ \A w \in ws : d.win[w].active = k => d.win[w].text = t
                   => s.draft[k] = t /\ s.posted[k] = IF t = d.draft[k] THEN d.posted[k] ELSE t
  BY <1>1, SaveDraftIs
<1> HIDE DEF s
<1>3. DeskOK(s)
  <2>1. Tidy(d) /\ Bare(d) /\ Pins(d) /\ \A w \in Windows : Drawn(d, w)
    BY DEF DeskOK
  <2>2. Tidy(s)
    BY <1>2, <2>1 DEF Tidy
  <2>3. Bare(s)
    BY <1>2, <2>1 DEF Bare
  <2>4. Pins(s)
    BY <1>2, <2>1 DEF Pins
  <2>5. \A w \in Windows : Drawn(s, w)
    BY <1>2, <2>1 DEF Drawn
  <2>6. QED BY <1>2, <2>2, <2>3, <2>4, <2>5 DEF DeskOK
<1>4. ASSUME NEW k \in d.held, NEW t \in Lines, Agrees(d, k, t)
      PROVE  /\ s.posted[k] = s.draft[k]
             /\ (\A w \in Windows : d.win[w].active = k => w \in ws) => s.draft[k] = t
             /\ (\E w \in ws : d.win[w].active = k) => s.draft[k] = t
  <2>1. k \in Keys
    BY <1>1 DEF Desks
  <2>2. /\ d.posted[k] = d.draft[k]
        /\ (\A w \in Windows : d.win[w].active # k) => d.draft[k] = t
        /\ \A w \in Windows : d.win[w].active = k => d.win[w].text = t
    BY <1>4 DEF Agrees
  <2>3. CASE \E w \in ws : d.win[w].active = k
    <3>1. \A w \in ws : d.win[w].active = k => d.win[w].text = t
      BY <2>2
    <3>2. s.draft[k] = t /\ s.posted[k] = IF t = d.draft[k] THEN d.posted[k] ELSE t
      BY <1>2, <2>1, <2>3, <3>1
    <3>3. QED BY <2>2, <3>2
  <2>4. CASE \A w \in ws : d.win[w].active # k
    <3>1. s.draft[k] = d.draft[k] /\ s.posted[k] = d.posted[k]
      BY <1>2, <2>1, <2>4
    <3>2. (\A w \in Windows : d.win[w].active = k => w \in ws) => s.draft[k] = t
      BY <2>2, <2>4, <3>1
    <3>3. QED BY <2>2, <2>4, <3>1, <3>2
  <2>5. QED BY <2>3, <2>4
<1>5. QED BY <1>3, <1>4 DEF s

\* Marking as read only marks more, and what a focused window shows.
LEMMA MarkReadIs ==
  ASSUME NEW d \in Desks, Bare(d), NEW ws \in SUBSET Windows
  PROVE  LET m == MarkRead(d, ws) IN
         /\ m \in Desks
         /\ m.held = d.held /\ m.draft = d.draft /\ m.recalls = d.recalls /\ m.newest = d.newest
         /\ m.read = d.read /\ m.win = d.win /\ m.posted = d.posted
         /\ \A k \in Keys :
              /\ m.marked[k] >= d.marked[k]
              /\ (\E w \in ws : d.win[w].focus /\ d.win[w].active = k) => m.marked[k] >= d.newest[k]
<1> DEFINE tails == {k \in d.held : /\ d.newest[k] > 0 /\ d.read[k] # d.newest[k]
                                    /\ \E w \in ws : d.win[w].focus /\ d.win[w].active = k}
           ma == [k \in Keys |-> IF k \in tails /\ d.marked[k] < d.newest[k] THEN d.newest[k] ELSE d.marked[k]]
           m == [d EXCEPT !.marked = ma]
<1>1. MarkRead(d, ws) = m
  BY Zenon DEF MarkRead
<1>2. /\ d.marked \in [Keys -> 0..MaxRows] /\ d.newest \in [Keys -> 0..MaxRows] /\ d.read \in [Keys -> 0..MaxRows]
      /\ MaxRows \in Nat
  BY WindowsAssumption DEF Desks
<1>3. ma \in [Keys -> 0..MaxRows]
  <2> HIDE DEF tails
  <2>1. QED BY <1>2
<1>4. ASSUME NEW k \in Keys
      PROVE  /\ ma[k] >= d.marked[k]
             /\ (\E w \in ws : d.win[w].focus /\ d.win[w].active = k) => ma[k] >= d.newest[k]
  <2>1. d.marked[k] \in Nat /\ d.newest[k] \in Nat /\ d.read[k] \in Nat /\ d.read[k] <= d.marked[k]
        /\ (k \notin d.held => d.newest[k] = 0)
    <3>1. d.marked[k] \in 0..MaxRows /\ d.newest[k] \in 0..MaxRows /\ d.read[k] \in 0..MaxRows
      BY <1>2
    <3>2. d.read[k] <= d.marked[k] /\ (k \notin d.held => d.newest[k] = 0)
      BY DEF Bare
    <3>3. QED BY <3>1, <3>2
  <2>2. (\E w \in ws : d.win[w].focus /\ d.win[w].active = k) =>
          k \in tails \/ k \notin d.held \/ d.newest[k] = 0 \/ d.read[k] = d.newest[k]
    BY <2>1
  <2>3. ma[k] = IF k \in tails /\ d.marked[k] < d.newest[k] THEN d.newest[k] ELSE d.marked[k]
    OBVIOUS
  <2> HIDE DEF tails, ma
  <2>4. QED BY <2>1, <2>2, <2>3
<1> HIDE DEF ma
<1>5. /\ m \in Desks /\ m.marked = ma
      /\ m.held = d.held /\ m.draft = d.draft /\ m.recalls = d.recalls /\ m.newest = d.newest
      /\ m.read = d.read /\ m.win = d.win /\ m.posted = d.posted
  BY <1>3 DEF Desks
<1> HIDE DEF m
<1>6. QED BY <1>1, <1>4, <1>5

\* A window that was drawn
Redrawn(r, row) == [r EXCEPT !.drawn = row, !.late = FALSE]

\* Drawing a window changes nothing else of it.
LEMMA RedrawnIs ==
  ASSUME NEW r \in WindowTypes, NEW row \in 0..MaxRows
  PROVE  LET z == Redrawn(r, row) IN
         /\ z \in WindowTypes /\ z.drawn = row /\ z.open = r.open /\ z.active = r.active
         /\ z.text = r.text /\ z.focus = r.focus /\ z.armed = r.armed /\ z.asked = r.asked
         /\ z.pinned = r.pinned /\ z.orphan = r.orphan
BY DEF Redrawn, WindowTypes

\* Drawing makes what those windows draw right.
LEMMA RenderIs ==
  ASSUME NEW d \in Desks, Tidy(d), Bare(d), Pins(d), NEW ws \in SUBSET Windows,
         \A w \in Windows \ ws : Drawn(d, w)
  PROVE  LET r == Render(d, ws) IN
         /\ DeskOK(r)
         /\ r.held = d.held /\ r.draft = d.draft /\ r.posted = d.posted
         /\ \A w \in Windows : r.win[w].active = d.win[w].active /\ r.win[w].text = d.win[w].text
                               /\ r.win[w].open = d.win[w].open
<1> DEFINE row(w) == NewestOf(d, d.win[w].active)
           wi == [w \in Windows |-> IF w \in ws THEN [d.win[w] EXCEPT !.drawn = row(w), !.late = FALSE]
                                    ELSE d.win[w]]
           e == [d EXCEPT !.win = wi]
           r == MarkRead(e, ws)
<1>1. Render(d, ws) = r
  BY Zenon DEF Render
<1>2. \A w \in Windows : row(w) \in 0..MaxRows /\ d.win[w] \in WindowTypes
  <2>1. /\ d.newest \in [Keys -> 0..MaxRows] /\ d.held \subseteq Keys /\ MaxRows \in Nat
        /\ \A w \in Windows : d.win[w] \in WindowTypes
    BY WindowsAssumption DEF Desks
  <2>2. \A k : NewestOf(d, k) \in 0..MaxRows
    BY <2>1 DEF NewestOf
  <2>3. QED BY <2>1, <2>2
<1>3. ASSUME NEW w \in Windows
      PROVE  /\ wi[w] \in WindowTypes /\ wi[w].open = d.win[w].open /\ wi[w].active = d.win[w].active
             /\ wi[w].text = d.win[w].text /\ wi[w].focus = d.win[w].focus /\ wi[w].armed = d.win[w].armed
             /\ wi[w].asked = d.win[w].asked /\ wi[w].pinned = d.win[w].pinned
             /\ wi[w].orphan = d.win[w].orphan
             /\ w \in ws => wi[w].drawn = row(w)
             /\ w \notin ws => wi[w] = d.win[w]
  <2>1. wi[w] = IF w \in ws THEN Redrawn(d.win[w], row(w)) ELSE d.win[w]
    BY DEF Redrawn
  <2>2. row(w) \in 0..MaxRows /\ d.win[w] \in WindowTypes
    BY <1>2
  <2> HIDE DEF wi, row
  <2>3. CASE w \in ws
    <3>1. wi[w] = Redrawn(d.win[w], row(w))
      BY <2>1, <2>3
    <3>2. QED BY <2>2, <2>3, <3>1, RedrawnIs
  <2>4. CASE w \notin ws
    BY <2>1, <2>2, <2>4
  <2>5. QED BY <2>3, <2>4
<1>4. wi \in [Windows -> WindowTypes]
  BY <1>3
<1> HIDE DEF wi
<1>5. /\ e \in Desks /\ e.win = wi /\ e.held = d.held /\ e.draft = d.draft /\ e.newest = d.newest
      /\ e.read = d.read /\ e.posted = d.posted /\ e.marked = d.marked /\ e.recalls = d.recalls
  BY <1>4 DEF Desks
<1> HIDE DEF e
<1>6. Bare(e)
  BY <1>5 DEF Bare
<1>7. /\ r \in Desks
      /\ r.held = e.held /\ r.draft = e.draft /\ r.recalls = e.recalls /\ r.newest = e.newest
      /\ r.read = e.read /\ r.win = e.win /\ r.posted = e.posted
      /\ \A k \in Keys :
              /\ r.marked[k] >= e.marked[k]
              /\ (\E w \in ws : e.win[w].focus /\ e.win[w].active = k) => r.marked[k] >= e.newest[k]
  BY <1>5, <1>6, MarkReadIs
<1> HIDE DEF r
<1>8. Tidy(r)
  <2>1. r.win = wi
    BY <1>5, <1>7
  <2>2. QED BY <1>3, <2>1 DEF Tidy
<1>9. ASSUME NEW k \in Keys
      PROVE  /\ r.marked[k] \in Nat /\ d.marked[k] \in Nat /\ d.newest[k] \in Nat /\ d.read[k] \in Nat
             /\ r.marked[k] >= d.marked[k] /\ r.read[k] <= r.marked[k]
  <2>1. r.marked[k] \in 0..MaxRows /\ d.marked[k] \in 0..MaxRows /\ d.newest[k] \in 0..MaxRows
        /\ d.read[k] \in 0..MaxRows
    BY <1>7 DEF Desks
  <2>2. r.marked[k] >= d.marked[k] /\ d.read[k] <= d.marked[k] /\ r.read = d.read
    BY <1>5, <1>7 DEF Bare
  <2>3. QED BY <2>1, <2>2
<1>10. Bare(r)
  <2>1. \A k \in Keys \ r.held : r.draft[k] = "" /\ r.newest[k] = 0
    BY <1>5, <1>7 DEF Bare
  <2>2. QED BY <1>9, <2>1 DEF Bare
<1>11. Pins(r)
  <2>1. r.win = wi /\ r.held = d.held /\ Popouts \subseteq Windows
    BY <1>5, <1>7 DEF Windows
  <2>2. QED BY <1>3, <2>1 DEF Pins
<1>12. ASSUME NEW w \in Windows, NEW k \in Keys, r.win[w].active = k, ~r.win[w].late
       PROVE  r.win[w].drawn = r.newest[k] /\ (r.win[w].focus => r.marked[k] >= r.newest[k])
  <2>1. r.win = wi /\ r.newest = d.newest /\ d.win[w].active = k
    BY <1>3, <1>5, <1>7, <1>12
  <2>2. CASE w \in ws
    <3>1. r.win[w].drawn = NewestOf(d, k)
      BY <1>3, <2>1, <2>2
    <3>2. NewestOf(d, k) = d.newest[k]
      BY DEF NewestOf, Bare
    <3>3. r.win[w].focus => r.marked[k] >= r.newest[k]
      BY <1>5, <1>7, <1>12, <2>1, <2>2
    <3>4. QED BY <2>1, <3>1, <3>2, <3>3
  <2>3. CASE w \notin ws
    <3>1. r.win[w] = d.win[w] /\ Drawn(d, w)
      BY <1>3, <2>1, <2>3
    <3>2. d.win[w].drawn = d.newest[k] /\ (d.win[w].focus => d.marked[k] >= d.newest[k])
      BY <1>12, <2>1, <3>1 DEF Drawn
    <3>3. r.marked[k] >= d.marked[k] /\ r.marked[k] \in Nat /\ d.marked[k] \in Nat /\ d.newest[k] \in Nat
      BY <1>9
    <3>4. QED BY <2>1, <3>1, <3>2, <3>3
  <2>4. QED BY <2>2, <2>3
<1>13. DeskOK(r)
  BY <1>7, <1>8, <1>10, <1>11, <1>12 DEF DeskOK, Drawn
<1>14. \A w \in Windows : r.win[w].active = d.win[w].active /\ r.win[w].text = d.win[w].text
                          /\ r.win[w].open = d.win[w].open
  BY <1>3, <1>5, <1>7
<1>15. QED BY <1>1, <1>5, <1>7, <1>13, <1>14

\* A different text disarms.
LEMMA SetTextIs ==
  ASSUME NEW r \in WindowTypes, NEW text \in Lines
  PROVE  LET s == SetText(r, text) IN
         /\ s \in WindowTypes /\ s.text = text /\ (s.armed => r.armed /\ r.text = text)
         /\ s.open = r.open /\ s.active = r.active /\ s.focus = r.focus /\ s.pinned = r.pinned
         /\ s.orphan = r.orphan /\ s.late = r.late /\ s.drawn = r.drawn /\ s.asked = r.asked
         /\ s.pos = r.pos /\ s.stash = r.stash
<1> DEFINE a == IF text = r.text THEN r.armed ELSE FALSE
           s == [r EXCEPT !.text = text, !.armed = a]
<1>1. SetText(r, text) = s
  BY Zenon DEF SetText
<1>2. a \in BOOLEAN /\ (a => r.armed /\ r.text = text)
  BY DEF WindowTypes
<1> HIDE DEF a
<1>3. /\ s \in WindowTypes /\ s.text = text /\ s.armed = a
      /\ s.open = r.open /\ s.active = r.active /\ s.focus = r.focus /\ s.pinned = r.pinned
      /\ s.orphan = r.orphan /\ s.late = r.late /\ s.drawn = r.drawn /\ s.asked = r.asked
      /\ s.pos = r.pos /\ s.stash = r.stash
  BY <1>2 DEF WindowTypes
<1> HIDE DEF s
<1>4. QED BY <1>1, <1>2, <1>3

\* Showing a conversation saves what the window showed, and takes up its draft.
LEMMA ActivateIs ==
  ASSUME NEW d, DeskOK(d), NEW w \in Windows, d.win[w].open, NEW k \in Keys
  PROVE  LET a == Activate(d, w, k) IN
         /\ DeskOK(a) /\ a.held = d.held
         /\ a.win[w].active = k
         /\ \A v \in Windows : a.win[v].open = d.win[v].open
         /\ \A v \in Windows \ {w} : a.win[v].active = d.win[v].active
         /\ \A j \in d.held, t \in Lines : Agrees(d, j, t) /\ Alone(a, j) => Agrees(a, j, t)
<1> DEFINE s == SaveDraft(d, {w})
           shown == [SetText(s.win[w], DraftOf(s, k)) EXCEPT
                       !.active = k, !.armed = FALSE, !.asked = "", !.pos = 0]
           e == [s EXCEPT !.win[w] = shown]
           a == Render(e, {w})
<1>1. Activate(d, w, k) = a
  BY Zenon DEF Activate
<1>2. d \in Desks /\ {w} \in SUBSET Windows
  BY DEF DeskOK
<1>3. /\ s \in Desks
      /\ s.held = d.held /\ s.newest = d.newest /\ s.win = d.win
      /\ \A j \in Keys : (\A v \in {w} : d.win[v].active # j) => s.draft[j] = d.draft[j] /\ s.posted[j] = d.posted[j]
  BY <1>2, SaveDraftIs
<1>4. /\ DeskOK(s)
      /\ \A j \in d.held, t \in Lines : Agrees(d, j, t) =>
              /\ s.posted[j] = s.draft[j]
              /\ (\A v \in Windows : d.win[v].active = j => v \in {w}) => s.draft[j] = t
              /\ (\E v \in {w} : d.win[v].active = j) => s.draft[j] = t
  BY SaveDraftKeeps
<1> HIDE DEF s
<1>5. s.win[w] \in WindowTypes /\ DraftOf(s, k) \in Lines /\ MaxRecall \in Nat
  <2>1. "" \in Lines
    BY DEF Lines, Typed
  <2>2. QED BY <1>3, <2>1, WindowsAssumption DEF Desks, DraftOf
<1>6. /\ shown \in WindowTypes /\ shown.active = k /\ shown.text = DraftOf(s, k) /\ ~shown.armed
      /\ shown.open = s.win[w].open /\ shown.focus = s.win[w].focus /\ shown.pinned = s.win[w].pinned
      /\ shown.orphan = s.win[w].orphan
  <2> DEFINE b == SetText(s.win[w], DraftOf(s, k))
  <2>1. /\ b \in WindowTypes /\ b.text = DraftOf(s, k)
        /\ b.open = s.win[w].open /\ b.focus = s.win[w].focus /\ b.pinned = s.win[w].pinned
        /\ b.orphan = s.win[w].orphan
    BY <1>5, SetTextIs
  <2>2. shown = [b EXCEPT !.active = k, !.armed = FALSE, !.asked = "", !.pos = 0]
    OBVIOUS
  <2> HIDE DEF b, shown
  <2>3. 0 \in 0..MaxRecall /\ "" \in Lines
    <3>1. 0 \in 0..MaxRecall
      BY <1>5
    <3>2. "" \in Lines
      BY DEF Lines, Typed
    <3>3. QED BY <3>1, <3>2
  <2>4. QED BY <2>1, <2>2, <2>3 DEF WindowTypes
<1> HIDE DEF shown
<1>7. /\ e \in Desks /\ e.held = s.held /\ e.draft = s.draft /\ e.posted = s.posted /\ e.newest = s.newest
      /\ e.read = s.read /\ e.marked = s.marked
      /\ e.win[w] = shown /\ \A v \in Windows \ {w} : e.win[v] = s.win[v]
  BY <1>3, <1>6 DEF Desks
<1> HIDE DEF e
<1>8. Tidy(e)
  <2>1. Tidy(s) /\ s.win[w].open
    BY <1>3, <1>4 DEF DeskOK
  <2>2. QED BY ZenonT(40), <1>6, <1>7, <2>1 DEF Tidy
<1>9. Bare(e) /\ Pins(e)
  <2>1. Bare(s) /\ Pins(s) /\ Popouts \subseteq Windows
    BY <1>4 DEF DeskOK, Windows
  <2>2. Bare(e)
    BY <1>7, <2>1 DEF Bare
  <2>3. Pins(e)
    BY <1>6, <1>7, <2>1 DEF Pins
  <2>4. QED BY <2>2, <2>3
<1>10. \A v \in Windows \ {w} : Drawn(e, v)
  <2>1. \A v \in Windows : Drawn(s, v)
    BY <1>4 DEF DeskOK
  <2>2. QED BY <1>7, <2>1 DEF Drawn
<1>11. /\ DeskOK(a) /\ a.held = e.held /\ a.draft = e.draft /\ a.posted = e.posted
       /\ \A v \in Windows : a.win[v].active = e.win[v].active /\ a.win[v].text = e.win[v].text
                             /\ a.win[v].open = e.win[v].open
  BY <1>2, <1>7, <1>8, <1>9, <1>10, RenderIs
<1> HIDE DEF a
<1>12. /\ a.held = d.held /\ a.win[w].active = k /\ a.win[w].text = DraftOf(s, k)
       /\ \A v \in Windows : a.win[v].open = d.win[v].open
       /\ \A v \in Windows \ {w} : a.win[v].active = d.win[v].active /\ a.win[v].text = d.win[v].text
       /\ a.draft = s.draft /\ a.posted = s.posted
  BY <1>3, <1>6, <1>7, <1>11
<1>13. ASSUME NEW j \in d.held, NEW t \in Lines, Agrees(d, j, t), Alone(a, j) PROVE Agrees(a, j, t)
  <2>1. /\ \A v \in Windows : d.win[v].active = j => d.win[v].text = t
        /\ (\A v \in Windows : d.win[v].active # j) => d.draft[j] = t
        /\ d.posted[j] = d.draft[j] /\ j \in Keys
    BY <1>2, <1>13 DEF Agrees, Desks
  <2>2. /\ s.posted[j] = s.draft[j]
        /\ (\A v \in Windows : d.win[v].active = j => v = w) => s.draft[j] = t
        /\ d.win[w].active = j => s.draft[j] = t
    BY <1>4, <1>13
  <2>3. CASE j # k
    <3>1. \A v \in Windows : a.win[v].active = j => v # w /\ d.win[v].active = j
      BY <1>12, <2>3
    <3>2. (\A v \in Windows : a.win[v].active # j) => s.draft[j] = t
      BY <1>12, <2>2
    <3>3. \A v \in Windows : a.win[v].active = j => a.win[v].text = t
      BY <1>12, <2>1, <3>1
    <3>4. QED BY <1>12, <2>2, <3>2, <3>3 DEF Agrees
  <2>4. CASE j = k
    <3>1. \A v \in Windows : a.win[v].active = j => v = w
      BY <1>12, <1>13, <2>4 DEF Alone
    <3>2. s.draft[j] = t
      BY <1>12, <2>2, <3>1
    <3>3. DraftOf(s, k) = t
      BY <1>3, <1>13, <2>4, <3>2 DEF DraftOf
    <3>4. QED BY <1>12, <2>2, <2>4, <3>1, <3>2, <3>3 DEF Agrees
  <2>5. QED BY <2>3, <2>4
<1>14. QED BY <1>1, <1>11, <1>12, <1>13

\* Closing windows saves what they showed.
LEMMA DetachIs ==
  ASSUME NEW d, DeskOK(d), NEW ws \in SUBSET Windows
  PROVE  LET c == Detach(d, ws) IN
         /\ DeskOK(c) /\ c.held = d.held
         /\ \A v \in Windows \ ws : c.win[v] = d.win[v]
         /\ \A w \in ws : c.win[w] = NewWindow
         /\ \A k \in d.held, t \in Lines : Agrees(d, k, t) => Agrees(c, k, t)
<1> DEFINE s == SaveDraft(d, ws)
           wi == [w \in Windows |-> IF w \in ws THEN NewWindow ELSE s.win[w]]
           c == [s EXCEPT !.win = wi]
<1>1. Detach(d, ws) = c
  BY Zenon DEF Detach
<1>2. d \in Desks
  BY DEF DeskOK
<1>3. /\ s \in Desks /\ s.held = d.held /\ s.win = d.win
  BY <1>2, SaveDraftIs
<1>4. /\ DeskOK(s)
      /\ \A k \in d.held, t \in Lines : Agrees(d, k, t) =>
              /\ s.posted[k] = s.draft[k]
              /\ (\A w \in Windows : d.win[w].active = k => w \in ws) => s.draft[k] = t
              /\ (\E w \in ws : d.win[w].active = k) => s.draft[k] = t
  BY SaveDraftKeeps
<1> HIDE DEF s
<1>5. wi \in [Windows -> WindowTypes] /\ \A w \in Windows : wi[w] = IF w \in ws THEN NewWindow ELSE d.win[w]
  BY <1>3, NewWindowIs DEF Desks
<1> HIDE DEF wi
<1>6. /\ c \in Desks /\ c.held = s.held /\ c.draft = s.draft /\ c.posted = s.posted /\ c.newest = s.newest
      /\ c.read = s.read /\ c.marked = s.marked /\ c.win = wi
  BY <1>3, <1>5 DEF Desks
<1> HIDE DEF c
<1>7. DeskOK(c)
  <2>1. Tidy(s) /\ Bare(s) /\ Pins(s) /\ (\A w \in Windows : Drawn(s, w)) /\ Popouts \subseteq Windows
    BY <1>4 DEF DeskOK, Windows
  <2>2. Tidy(c)
    BY <1>3, <1>5, <1>6, <2>1, NewWindowIs DEF Tidy
  <2>3. Bare(c)
    BY <1>6, <2>1 DEF Bare
  <2>4. Pins(c)
    BY <1>3, <1>5, <1>6, <2>1, NewWindowIs DEF Pins
  <2>5. \A w \in Windows : Drawn(c, w)
    BY <1>3, <1>5, <1>6, <2>1, NewWindowIs, KeysAre DEF Drawn
  <2>6. QED BY <1>6, <2>2, <2>3, <2>4, <2>5 DEF DeskOK
<1>8. ASSUME NEW k \in d.held, NEW t \in Lines, Agrees(d, k, t) PROVE Agrees(c, k, t)
  <2>1. k \in Keys /\ \A w \in Windows : c.win[w].active = k => w \notin ws /\ c.win[w] = d.win[w]
    BY <1>2, <1>5, <1>6, NewWindowIs, KeysAre DEF Desks
  <2>2. (\A w \in Windows : c.win[w].active # k) => \A w \in Windows : d.win[w].active = k => w \in ws
    BY <1>5, <1>6
  <2>3. c.posted[k] = c.draft[k] /\ ((\A w \in Windows : c.win[w].active # k) => c.draft[k] = t)
    BY <1>4, <1>6, <1>8, <2>2
  <2>4. \A w \in Windows : c.win[w].active = k => c.win[w].text = t
    BY <1>8, <2>1 DEF Agrees
  <2>5. QED BY <2>3, <2>4 DEF Agrees
<1>9. QED BY <1>1, <1>3, <1>5, <1>6, <1>7, <1>8

\* A desk with one of its windows replaced
OneSet(d, w, r) == [d EXCEPT !.win[w] = r]

\* One window changes, and shows what it showed.
LEMMA WindowSet ==
  ASSUME NEW d, DeskOK(d), NEW w \in Windows, NEW r \in WindowTypes,
         r.open = d.win[w].open, r.active = d.win[w].active, r.focus => d.win[w].focus,
         r.armed => r.asked = "long", r.pinned = d.win[w].pinned, r.orphan = d.win[w].orphan,
         r.drawn = d.win[w].drawn, r.late = d.win[w].late
  PROVE  LET e == OneSet(d, w, r) IN
         /\ DeskOK(e)
         /\ e.held = d.held /\ e.draft = d.draft /\ e.posted = d.posted /\ e.recalls = d.recalls
         /\ e.win[w] = r /\ \A v \in Windows \ {w} : e.win[v] = d.win[v]
         /\ \A k \in Keys, t \in Lines : Agrees(d, k, t) /\ (d.win[w].active = k => r.text = t) => Agrees(e, k, t)
<1> DEFINE e == OneSet(d, w, r)
<1>1. d \in Desks /\ Tidy(d) /\ Bare(d) /\ Pins(d) /\ (\A v \in Windows : Drawn(d, v)) /\ Popouts \subseteq Windows
  BY DEF DeskOK, Windows
<1>2. /\ e \in Desks /\ e.held = d.held /\ e.draft = d.draft /\ e.posted = d.posted /\ e.newest = d.newest
      /\ e.read = d.read /\ e.marked = d.marked /\ e.recalls = d.recalls
      /\ e.win[w] = r /\ \A v \in Windows \ {w} : e.win[v] = d.win[v]
  BY <1>1 DEF Desks, OneSet
<1> HIDE DEF e
<1>3. Tidy(e)
  BY <1>1, <1>2 DEF Tidy
<1>4. Bare(e)
  <2>1. Bare(d)
    BY <1>1
  <2>2. e.held = d.held /\ e.draft = d.draft /\ e.newest = d.newest /\ e.read = d.read /\ e.marked = d.marked
    BY <1>2
  <2>3. QED BY ZenonT(40), <2>1, <2>2 DEF Bare
<1>5. Pins(e)
  BY <1>1, <1>2 DEF Pins
<1>6. \A v \in Windows : Drawn(e, v)
  BY <1>1, <1>2 DEF Drawn
<1>7. \A k \in Keys, t \in Lines : Agrees(d, k, t) /\ (d.win[w].active = k => r.text = t) => Agrees(e, k, t)
  BY <1>2 DEF Agrees
<1>8. DeskOK(e)
  BY <1>2, <1>3, <1>4, <1>5, <1>6 DEF DeskOK
<1>9. QED BY <1>2, <1>7, <1>8 DEF e

--------------------------------------------------------------------------------
(* What each step does to the invariant *)

\* What the desk is
LEMMA DeskIs ==
  /\ Desk.held = held /\ Desk.draft = draft /\ Desk.recalls = recalls /\ Desk.newest = newest
  /\ Desk.read = read /\ Desk.win = win /\ Desk.posted = posted /\ Desk.marked = marked
BY DEF Desk

\* A step makes of the windows, the store and the server what its desk says; a
\* conversation that is not excused afterwards is shown by one window at most.
LEMMA BecomesIs ==
  ASSUME NEW d, DeskOK(d), NEW wk, NEW ex \in SUBSET Keys, Becomes(d, wk, ex)
  PROVE  /\ Desk' = d /\ work' = wk /\ excused' \subseteq Keys
         /\ \A k \in Keys \ excused' : k \notin ex /\ Alone(d, k)
<1>1. d \in Desks /\ Tidy(d)
  BY DEF DeskOK
<1>2. Desk' = d
  <2>1. d = [held |-> d.held, draft |-> d.draft, recalls |-> d.recalls, newest |-> d.newest, read |-> d.read,
             win |-> d.win, posted |-> d.posted, marked |-> d.marked]
    BY <1>1 DEF Desks
  <2>2. /\ held' = d.held /\ draft' = d.draft /\ recalls' = d.recalls
        /\ newest' = d.newest /\ read' = d.read
        /\ win' = d.win /\ posted' = d.posted /\ marked' = d.marked
    BY DEF Becomes
  <2>3. Desk' = [held |-> held', draft |-> draft', recalls |-> recalls', newest |-> newest', read |-> read',
                 win |-> win', posted |-> posted', marked |-> marked']
    BY DEF Desk
  <2>4. QED BY <2>1, <2>2, <2>3, Zenon
<1>3. work' = wk /\ excused' = ex \cup {k \in Keys : Cardinality(ShowingIn(d.win, k)) > 1}
  BY DEF Becomes
<1>4. ASSUME NEW k \in Keys, ~(Cardinality(ShowingIn(d.win, k)) > 1) PROVE Alone(d, k)
  <2>1. SUFFICES ASSUME NEW v \in Windows, NEW u \in Windows, d.win[v].active = k, d.win[u].active = k, v # u
                 PROVE  FALSE
    BY DEF Alone
  <2> DEFINE S == ShowingIn(d.win, k)
  <2>2. {v, u} \subseteq S /\ S \subseteq Windows
    BY <1>1, <2>1, KeysAre DEF ShowingIn, OpenWindows, Tidy
  <2>3. IsFiniteSet(S)
    BY <2>2, KeysAre, FS_Subset
  <2>4. Cardinality({v, u}) = 2
    <3>1. IsFiniteSet({v}) /\ Cardinality({v}) = 1
      BY FS_Singleton
    <3>2. Cardinality({v} \cup {u}) = Cardinality({v}) + 1
      BY <2>1, <3>1, FS_AddElement
    <3>3. {v} \cup {u} = {v, u}
      OBVIOUS
    <3>4. QED BY <3>1, <3>2, <3>3
  <2>5. Cardinality({v, u}) <= Cardinality(S) /\ Cardinality(S) \in Nat
    BY <2>2, <2>3, FS_Subset, FS_CardinalityType
  <2>6. QED BY <1>4, <2>4, <2>5
<1>5. QED BY <1>2, <1>3, <1>4

\* A step keeps the invariant if its desk is in order and what was left is there.
LEMMA StepOK ==
  ASSUME NEW d, DeskOK(d), NEW wk \in [Keys -> Lines], NEW ex \in SUBSET Keys, Becomes(d, wk, ex),
         Control', running' => d.win[Main].open,
         running' => \A k \in d.held \ ex : Alone(d, k) => Agrees(d, k, wk[k])
  PROVE  WindowsInv'
<1>1. /\ Desk' = d /\ work' = wk /\ excused' \subseteq Keys
      /\ \A k \in Keys \ excused' : k \notin ex /\ Alone(d, k)
  BY BecomesIs
<1>2. held' = d.held /\ win' = d.win /\ d.held \subseteq Keys
  BY DEF Becomes, DeskOK, Desks
<1>3. DeskOK(Desk')
  BY <1>1
<1>4. running' => \A k \in held' \ excused' : Agrees(Desk', k, work'[k])
  BY <1>1, <1>2
<1>5. \A k \in Keys \ excused' : Alone(Desk', k)
  BY <1>1
<1>6. running' => win'[Main].open
  BY <1>2
<1> HIDE DEF Desk, DeskOK, Agrees, Alone
<1>7. QED BY <1>1, <1>3, <1>4, <1>5, <1>6, Zenon DEF WindowsInv

\* What the invariant says of a desk before a step
LEMMA Before ==
  ASSUME WindowsInv
  PROVE  /\ DeskOK(Desk) /\ Control /\ excused \in SUBSET Keys /\ work \in [Keys -> Lines]
         /\ running => \A k \in held \ excused : Agrees(Desk, k, work[k])
         /\ running => win[Main].open
         /\ held \subseteq Keys /\ win \in [Windows -> WindowTypes] /\ draft \in [Keys -> Lines]
         /\ recalls \in [Keys -> 0..MaxRecall] /\ newest \in [Keys -> 0..MaxRows]
         /\ read \in [Keys -> 0..MaxRows] /\ posted \in [Keys -> Lines] /\ marked \in [Keys -> 0..MaxRows]
         /\ \A w \in Windows : win[w].focus \/ win[w].active # None => win[w].open
<1>1. DeskOK(Desk) /\ Control /\ excused \in SUBSET Keys /\ work \in [Keys -> Lines]
      /\ (running => \A k \in held \ excused : Agrees(Desk, k, work[k]))
      /\ (running => win[Main].open)
  BY DEF WindowsInv
<1>2. Desk \in Desks /\ Tidy(Desk)
  BY <1>1 DEF DeskOK
<1>3. /\ held \subseteq Keys /\ win \in [Windows -> WindowTypes] /\ draft \in [Keys -> Lines]
      /\ recalls \in [Keys -> 0..MaxRecall] /\ newest \in [Keys -> 0..MaxRows]
      /\ read \in [Keys -> 0..MaxRows] /\ posted \in [Keys -> Lines] /\ marked \in [Keys -> 0..MaxRows]
  BY <1>2, DeskIs DEF Desks
<1>4. \A w \in Windows : win[w].focus \/ win[w].active # None => win[w].open
  BY <1>2, DeskIs DEF Tidy
<1>5. QED BY <1>1, <1>3, <1>4

\* A move counts as one.
LEMMA ControlKept ==
  ASSUME Control, Move \/ moves' = moves, connected' \in BOOLEAN, complete' \in BOOLEAN, running' \in BOOLEAN,
         split' \in {"none", "asked"}
  PROVE  Control'
BY WindowsAssumption DEF Control, Move

\* The focus comes to a window: it marks what it shows.
LEMMA FocusOK == ASSUME WindowsInv, NEW w \in Windows, Focus(w), running PROVE WindowsInv'
<1> DEFINE foc(v) == [win[v] EXCEPT !.focus = v = w]
           wi == [v \in Windows |-> foc(v)]
           e == [Desk EXCEPT !.win = wi]
           m == MarkRead(e, {w})
<1>1. Becomes(m, work, excused) /\ UNCHANGED <<link, story>> /\ win[w].open
  BY DeskIs DEF Focus
<1>2. /\ DeskOK(Desk) /\ Control /\ win \in [Windows -> WindowTypes]
      /\ Desk \in Desks /\ Tidy(Desk) /\ Bare(Desk) /\ Pins(Desk) /\ (\A v \in Windows : Drawn(Desk, v))
      /\ Popouts \subseteq Windows
  BY Before DEF DeskOK, Windows
<1>3. ASSUME NEW v \in Windows
      PROVE  /\ foc(v) \in WindowTypes /\ foc(v).focus = (v = w)
             /\ foc(v).open = win[v].open /\ foc(v).active = win[v].active /\ foc(v).text = win[v].text
             /\ foc(v).armed = win[v].armed /\ foc(v).asked = win[v].asked /\ foc(v).pinned = win[v].pinned
             /\ foc(v).orphan = win[v].orphan /\ foc(v).drawn = win[v].drawn /\ foc(v).late = win[v].late
  <2>1. win[v] \in WindowTypes /\ (v = w) \in BOOLEAN
    BY <1>2
  <2>2. ASSUME NEW r \in WindowTypes, NEW b \in BOOLEAN
        PROVE  LET z == [r EXCEPT !.focus = b] IN
             /\ z \in WindowTypes /\ z.focus = b
             /\ z.open = r.open /\ z.active = r.active /\ z.text = r.text
             /\ z.armed = r.armed /\ z.asked = r.asked /\ z.pinned = r.pinned
             /\ z.orphan = r.orphan /\ z.drawn = r.drawn /\ z.late = r.late
    BY DEF WindowTypes
  <2>3. QED BY <2>1, <2>2
<1>4. wi \in [Windows -> WindowTypes] /\ \A v \in Windows : wi[v] = foc(v)
  BY <1>3
<1> HIDE DEF wi, foc
<1>5. /\ e \in Desks /\ e.win = wi /\ e.held = held /\ e.draft = draft /\ e.newest = newest
      /\ e.read = read /\ e.posted = posted /\ e.marked = marked
  BY <1>2, <1>4, DeskIs DEF Desks
<1> HIDE DEF e
<1>6. Bare(e)
  <2>1. e.held = Desk.held /\ e.draft = Desk.draft /\ e.newest = Desk.newest /\ e.read = Desk.read /\ e.marked = Desk.marked
    BY <1>5, DeskIs
  <2>2. QED BY <1>2, <2>1, Zenon DEF Bare
<1>7. /\ m \in Desks
      /\ m.held = e.held /\ m.draft = e.draft /\ m.newest = e.newest
      /\ m.read = e.read /\ m.win = e.win /\ m.posted = e.posted
      /\ \A k \in Keys :
           /\ m.marked[k] >= e.marked[k]
           /\ (\E v \in {w} : e.win[v].focus /\ e.win[v].active = k) => m.marked[k] >= e.newest[k]
  BY <1>5, <1>6, MarkReadIs
<1> HIDE DEF m
<1>8. Tidy(m)
  <2>1. \A v \in Windows : m.win[v] = foc(v)
    BY <1>4, <1>5, <1>7
  <2>2. \A v \in Windows : (~win[v].open => win[v].active = None) /\ (win[v].armed => win[v].asked = "long")
    BY <1>2, DeskIs DEF Tidy
  <2>3. ASSUME NEW v \in Windows, ~m.win[v].open PROVE m.win[v].active = None /\ ~m.win[v].focus
    <3>1. m.win[v] = foc(v) /\ foc(v).open = win[v].open /\ foc(v).active = win[v].active
          /\ foc(v).focus = (v = w)
      BY <1>3, <2>1
    <3>2. ~win[v].open /\ v # w
      BY <1>1, <2>3, <3>1
    <3>3. win[v].active = None
      BY <2>2, <3>2
    <3>4. QED BY <3>1, <3>2, <3>3
  <2>4. \A u, v \in Windows : m.win[u].focus /\ m.win[v].focus => u = v
    BY <1>3, <2>1
  <2>5. \A v \in Windows : m.win[v].armed => m.win[v].asked = "long"
    BY <1>3, <2>1, <2>2
  <2>6. QED BY <2>3, <2>4, <2>5 DEF Tidy
<1>9. Bare(m)
  <2>1. ASSUME NEW k \in Keys PROVE m.read[k] <= m.marked[k]
    <3>1. m.marked[k] \in 0..MaxRows /\ marked[k] \in 0..MaxRows /\ read[k] \in 0..MaxRows
      BY <1>5, <1>7 DEF Desks
    <3>2. m.marked[k] >= marked[k] /\ m.read = read
      BY <1>5, <1>7
    <3>3. read[k] <= marked[k]
      BY <1>2, DeskIs DEF Bare
    <3>4. QED BY <3>1, <3>2, <3>3
  <2>2. QED BY <1>6, <1>7, <2>1 DEF Bare
<1>10. Pins(m)
  BY <1>2, <1>3, <1>4, <1>5, <1>7, DeskIs DEF Pins
<1>11. ASSUME NEW v \in Windows PROVE Drawn(m, v)
  <2>1. SUFFICES ASSUME NEW k \in Keys, m.win[v].active = k, ~m.win[v].late
                 PROVE  m.win[v].drawn = m.newest[k] /\ (m.win[v].focus => m.marked[k] >= m.newest[k])
    BY DEF Drawn
  <2>2. m.win[v] = foc(v) /\ e.win[v] = foc(v)
    BY <1>4, <1>5, <1>7
  <2>3. win[v].active = k /\ ~win[v].late
    BY <1>3, <2>1, <2>2
  <2>4. win[v].drawn = newest[k]
    BY <1>2, <2>3, DeskIs DEF Drawn
  <2>5. m.win[v].focus => m.marked[k] >= m.newest[k]
    BY <1>3, <1>7, <2>1, <2>2
  <2>6. QED BY <1>3, <1>5, <1>7, <2>2, <2>4, <2>5
<1>12. DeskOK(m)
  BY <1>7, <1>8, <1>9, <1>10, <1>11 DEF DeskOK
<1>13. \A k \in Keys, t \in Lines : Agrees(Desk, k, t) => Agrees(m, k, t)
  <2>1. \A v \in Windows : m.win[v].active = Desk.win[v].active /\ m.win[v].text = Desk.win[v].text
    BY <1>3, <1>4, <1>5, <1>7, DeskIs
  <2>2. m.posted = Desk.posted /\ m.draft = Desk.draft
    BY <1>5, <1>7, DeskIs
  <2>3. QED BY <2>1, <2>2 DEF Agrees
<1>14. Control' /\ (running' => m.win[Main].open)
  <2>1. Control' /\ running' = running
    BY <1>1, <1>2, ControlKept DEF link, story, Control
  <2>2. Main \in Windows
    BY DEF Windows
  <2>3. QED BY <1>3, <1>4, <1>5, <1>7, <2>1, <2>2, Before
<1>15. \A k \in m.held \ excused : Agrees(m, k, work[k])
  BY <1>5, <1>7, <1>13, Before
<1>16. QED BY <1>1, <1>12, <1>14, <1>15, StepOK, Before

\* A step that changes one window keeps the invariant if what it leaves in the text
\* is what the user left there.
LEMMA WindowStep ==
  ASSUME WindowsInv, running, NEW w \in Windows, NEW r \in WindowTypes,
         r.open = win[w].open, r.active = win[w].active, r.focus => win[w].focus,
         r.armed => r.asked = "long", r.pinned = win[w].pinned, r.orphan = win[w].orphan,
         r.drawn = win[w].drawn, r.late = win[w].late,
         NEW wk \in [Keys -> Lines], NEW ex \in SUBSET Keys, Becomes([Desk EXCEPT !.win[w] = r], wk, ex),
         Move \/ moves' = moves, connected' = connected, complete' = complete, running' = running, split' = split,
         \A k \in held \ ex : k # win[w].active => k \notin excused /\ wk[k] = work[k],
         LET k == win[w].active IN k \in held \ ex => posted[k] = draft[k] /\ r.text = wk[k]
  PROVE  WindowsInv'
<1> DEFINE e == OneSet(Desk, w, r)
<1>1. DeskOK(Desk) /\ Control /\ win[Main].open /\ held \subseteq Keys /\ Main \in Windows
      /\ \A k \in held \ excused : Agrees(Desk, k, work[k])
  BY Before DEF Windows
<1>2. /\ DeskOK(e)
      /\ e.held = Desk.held /\ e.draft = Desk.draft /\ e.posted = Desk.posted
      /\ e.win[w] = r /\ \A v \in Windows \ {w} : e.win[v] = Desk.win[v]
      /\ \A k \in Keys, t \in Lines : Agrees(Desk, k, t) /\ (Desk.win[w].active = k => r.text = t) => Agrees(e, k, t)
  <2>1. /\ r.open = Desk.win[w].open /\ r.active = Desk.win[w].active /\ (r.focus => Desk.win[w].focus)
        /\ r.pinned = Desk.win[w].pinned /\ r.orphan = Desk.win[w].orphan
        /\ r.drawn = Desk.win[w].drawn /\ r.late = Desk.win[w].late
    BY DeskIs
  <2>2. QED BY SMTT(30), <1>1, <2>1, WindowSet
<1> HIDE DEF e
<1>3. e.win[Main].open
  BY <1>1, <1>2, DeskIs
<1>4. ASSUME NEW k \in e.held \ ex, Alone(e, k) PROVE Agrees(e, k, wk[k])
  <2>1. k \in held \ ex /\ k \in Keys /\ wk[k] \in Lines
    BY <1>1, <1>2, DeskIs
  <2>2. CASE k # win[w].active
    <3>1. Agrees(Desk, k, wk[k])
      BY <1>1, <2>1, <2>2
    <3>2. QED BY <1>2, <2>1, <2>2, <3>1, DeskIs
  <2>3. CASE k = win[w].active
    <3>1. posted[k] = draft[k] /\ r.text = wk[k]
      BY <2>1, <2>3
    <3>2. \A v \in Windows : e.win[v].active = k => v = w
      BY <1>2, <1>4, <2>3 DEF Alone
    <3>3. e.posted[k] = e.draft[k] /\ e.win[w].text = wk[k] /\ e.win[w].active = k
      BY <1>2, <2>3, <3>1, DeskIs
    <3>4. QED BY <3>2, <3>3 DEF Agrees
  <2>4. QED BY <2>2, <2>3
<1>5. Control'
  BY <1>1, ControlKept DEF Control
<1>6. Becomes(e, wk, ex)
  BY DEF e, OneSet
<1>7. QED BY <1>2, <1>3, <1>4, <1>5, <1>6, StepOK

\* The focus goes.
LEMMA BlurOK == ASSUME WindowsInv, NEW w \in Windows, Blur(w), running PROVE WindowsInv'
<1> DEFINE r == [Desk.win[w] EXCEPT !.focus = FALSE]
<1>1. Becomes([Desk EXCEPT !.win[w] = r], work, excused) /\ Move
      /\ connected' = connected /\ complete' = complete /\ running' = running /\ split' = split
  BY DEF Blur, link
<1>2. win[w] \in WindowTypes /\ Desk.win = win /\ (win[w].armed => win[w].asked = "long")
  BY Before, DeskIs DEF DeskOK, Tidy
<1>3. /\ r \in WindowTypes /\ r.open = win[w].open /\ r.active = win[w].active /\ (r.focus => win[w].focus)
      /\ (r.armed => r.asked = "long") /\ r.pinned = win[w].pinned /\ r.orphan = win[w].orphan
      /\ r.drawn = win[w].drawn /\ r.late = win[w].late /\ r.text = win[w].text
  BY <1>2 DEF WindowTypes
<1> HIDE DEF r
<1>4. win[w].active \in held \ excused =>
        posted[win[w].active] = draft[win[w].active] /\ r.text = work[win[w].active]
  BY <1>3, Before, DeskIs DEF Agrees
<1>5. QED BY <1>1, <1>3, <1>4, Before, WindowStep

\* The user types: that is what was left, wherever it was before.
LEMMA TypeOKs == ASSUME WindowsInv, NEW w \in Windows, NEW text \in Typed, Type(w, text), running PROVE WindowsInv'
<1> DEFINE r == [SetText(Desk.win[w], text) EXCEPT !.asked = ""]
           k == win[w].active
           wk == [work EXCEPT ![k] = text]
           ex == IF posted[k] = draft[k] THEN excused \ {k} ELSE excused
<1>1. Becomes([Desk EXCEPT !.win[w] = r], wk, ex) /\ Move
      /\ connected' = connected /\ complete' = complete /\ running' = running /\ split' = split
      /\ k # None /\ text # win[w].text
  BY DEF Type, link
<1>2. win[w] \in WindowTypes /\ Desk.win = win /\ text \in Lines /\ "" \in Lines
  BY Before, DeskIs DEF Lines, Typed
<1>3. /\ r \in WindowTypes /\ r.open = win[w].open /\ r.active = win[w].active /\ r.focus = win[w].focus
      /\ ~r.armed /\ r.pinned = win[w].pinned /\ r.orphan = win[w].orphan
      /\ r.drawn = win[w].drawn /\ r.late = win[w].late /\ r.text = text
  <2> DEFINE s == SetText(Desk.win[w], text)
  <2>1. /\ s \in WindowTypes /\ s.text = text /\ ~s.armed
        /\ s.open = win[w].open /\ s.active = win[w].active /\ s.focus = win[w].focus /\ s.pinned = win[w].pinned
        /\ s.orphan = win[w].orphan /\ s.late = win[w].late /\ s.drawn = win[w].drawn
    BY ZenonT(40), <1>1, <1>2, SetTextIs
  <2>2. r = [s EXCEPT !.asked = ""]
    OBVIOUS
  <2> HIDE DEF s, r
  <2>3. QED BY <1>2, <2>1, <2>2 DEF WindowTypes
<1> HIDE DEF r
<1>4. k \in Keys /\ work \in [Keys -> Lines] /\ excused \in SUBSET Keys
  BY <1>1, <1>2, Before DEF WindowTypes
<1>5. wk \in [Keys -> Lines] /\ wk[k] = text /\ (\A j \in Keys \ {k} : wk[j] = work[j]) /\ ex \in SUBSET Keys
  BY <1>2, <1>4
<1>6. \A j \in held \ ex : j # win[w].active => j \notin excused /\ wk[j] = work[j]
  BY <1>5, Before
<1>7. k \in held \ ex => posted[k] = draft[k]
  BY Before, DeskIs DEF Agrees
<1> HIDE DEF wk, ex
<1>8. QED BY <1>1, <1>3, <1>5, <1>6, <1>7, WindowStep

\* A line from the history takes the place of the text.
LEMMA RecallOK == ASSUME WindowsInv, NEW w \in Windows, NEW up \in BOOLEAN, Recall(w, up), running PROVE WindowsInv'
<1> DEFINE r0 == win[w]
           k == r0.active
           next == RecallStep(r0.pos, recalls[k], up)
           stash == IF r0.pos = 0 /\ next # 0 THEN r0.text ELSE r0.stash
           text == IF next \in 1..recalls[k] THEN "recalled" ELSE stash
           asked == IF text = r0.text THEN r0.asked ELSE ""
           s == SetText(r0, text)
           r == [s EXCEPT !.pos = next, !.stash = stash, !.asked = asked]
<1>1. /\ Becomes([Desk EXCEPT !.win[w] = r], work, excused \cup {k}) /\ Move
      /\ connected' = connected /\ complete' = complete /\ running' = running /\ split' = split
      /\ k \in held
  <2>1. s.asked = r0.asked
    BY DEF SetText
  <2>2. QED BY <2>1 DEF Recall, link
<1>2. /\ r0 \in WindowTypes /\ k \in Keys /\ recalls[k] \in 0..MaxRecall /\ MaxRecall \in Nat
      /\ (r0.armed => r0.asked = "long")
  BY <1>1, Before, DeskIs, WindowsAssumption DEF DeskOK, Tidy
<1>3. next \in 0..MaxRecall
  <2>1. r0.pos \in 0..MaxRecall
    BY <1>2 DEF WindowTypes
  <2>2. \A p, l \in 0..MaxRecall : RecallStep(p, l, up) \in 0..MaxRecall
    <3>1. SUFFICES ASSUME NEW p \in 0..MaxRecall, NEW l \in 0..MaxRecall PROVE RecallStep(p, l, up) \in 0..MaxRecall
      OBVIOUS
    <3>2. CASE l = 0
      BY <1>2, <3>2 DEF RecallStep
    <3>3. CASE l # 0 /\ up
      BY <1>2, <3>3 DEF RecallStep
    <3>4. CASE l # 0 /\ ~up
      BY <1>2, <3>4 DEF RecallStep
    <3>5. QED BY <3>2, <3>3, <3>4
  <2>3. QED BY <1>2, <2>1, <2>2
<1> HIDE DEF next
<1>4. stash \in Lines /\ text \in Lines /\ asked \in Lines /\ (text = r0.text => asked = r0.asked)
  BY <1>2 DEF WindowTypes, Lines, Typed
<1> HIDE DEF stash, text, asked
<1>5. /\ r \in WindowTypes /\ r.open = win[w].open /\ r.active = win[w].active /\ r.focus = win[w].focus
      /\ (r.armed => r.asked = "long") /\ r.pinned = win[w].pinned /\ r.orphan = win[w].orphan
      /\ r.drawn = win[w].drawn /\ r.late = win[w].late
  <2>1. /\ s \in WindowTypes /\ s.text = text /\ (s.armed => r0.armed /\ r0.text = text)
        /\ s.open = win[w].open /\ s.active = win[w].active /\ s.focus = win[w].focus /\ s.pinned = win[w].pinned
        /\ s.orphan = win[w].orphan /\ s.late = win[w].late /\ s.drawn = win[w].drawn
    BY <1>2, <1>4, SetTextIs
  <2> HIDE DEF s
  <2>2. /\ r \in WindowTypes /\ r.open = s.open /\ r.active = s.active /\ r.focus = s.focus
        /\ r.armed = s.armed /\ r.asked = asked /\ r.pinned = s.pinned /\ r.orphan = s.orphan
        /\ r.drawn = s.drawn /\ r.late = s.late
    BY <1>3, <1>4, <2>1 DEF WindowTypes
  <2> HIDE DEF r
  <2>3. QED BY <1>2, <1>4, <2>1, <2>2
<1> HIDE DEF r
<1>6. excused \cup {k} \in SUBSET Keys
  BY <1>2, Before
<1>7. QED BY <1>1, <1>5, <1>6, Before, WindowStep

\* Another conversation is shown.
LEMMA SwitchToOK == ASSUME WindowsInv, NEW w \in Windows, NEW k \in Keys, SwitchTo(w, k), running PROVE WindowsInv'
<1> DEFINE a == Activate(Desk, w, k)
<1>1. Becomes(a, work, excused) /\ UNCHANGED <<link, story>> /\ win[w].open
  BY DEF SwitchTo
<1>2. /\ DeskOK(a) /\ a.held = held /\ \A v \in Windows : a.win[v].open = win[v].open
      /\ \A j \in held, t \in Lines : Agrees(Desk, j, t) /\ Alone(a, j) => Agrees(a, j, t)
  BY <1>1, Before, DeskIs, ActivateIs
<1> HIDE DEF a
<1>3. Control' /\ running' = running
  BY <1>1, Before, ControlKept DEF Control, link, story
<1>4. a.win[Main].open
  BY <1>2, Before DEF Windows
<1>5. \A j \in a.held \ excused : Alone(a, j) => Agrees(a, j, work[j])
  BY <1>2, Before
<1>6. QED BY <1>1, <1>2, <1>3, <1>4, <1>5, Before, StepOK

\* A message that would be split is asked about first.
LEMMA RefuseOK == ASSUME WindowsInv, NEW w \in Windows, Refuse(w), running PROVE WindowsInv'
<1> DEFINE r == IF connected THEN [win[w] EXCEPT !.armed = TRUE, !.asked = win[w].text] ELSE win[w]
<1>1. Becomes([Desk EXCEPT !.win[w] = r], work, excused) /\ UNCHANGED <<link, story>>
      /\ (connected => win[w].text = "long")
  BY DEF Refuse, NeedsConfirmation
<1>2. win[w] \in WindowTypes /\ (win[w].armed => win[w].asked = "long")
  BY Before, DeskIs DEF DeskOK, Tidy
<1>3. /\ r \in WindowTypes /\ r.open = win[w].open /\ r.active = win[w].active /\ (r.focus => win[w].focus)
      /\ (r.armed => r.asked = "long") /\ r.pinned = win[w].pinned /\ r.orphan = win[w].orphan
      /\ r.drawn = win[w].drawn /\ r.late = win[w].late /\ r.text = win[w].text
  BY <1>1, <1>2 DEF WindowTypes
<1> HIDE DEF r
<1>4. win[w].active \in held \ excused =>
        posted[win[w].active] = draft[win[w].active] /\ r.text = work[win[w].active]
  BY <1>3, Before, DeskIs DEF Agrees
<1>5. moves' = moves /\ connected' = connected /\ complete' = complete /\ running' = running /\ split' = split
  BY <1>1 DEF link, story
<1>6. QED BY <1>1, <1>3, <1>4, <1>5, Before, WindowStep

\* A sent line is gone from the composer.
LEMMA SentIs ==
  ASSUME NEW d, DeskOK(d), NEW w \in Windows, d.win[w].active \in Keys
  PROVE  LET e == Sent(d, w) IN
         /\ DeskOK(e) /\ e.held = d.held
         /\ \A v \in Windows : e.win[v].open = d.win[v].open /\ e.win[v].active = d.win[v].active
         /\ \A k \in Keys, t \in Lines : Agrees(d, k, t) =>
              /\ k # d.win[w].active => Agrees(e, k, t)
              /\ k = d.win[w].active /\ Alone(d, k) => Agrees(e, k, "")
<1> DEFINE k == d.win[w].active
           s == SetText(d.win[w], "")
           r == [s EXCEPT !.pos = 0]
           c == OneSet(d, w, r)
           n == IF k \in d.held /\ d.recalls[k] < MaxRecall THEN d.recalls[k] + 1 ELSE d.recalls[k]
           e == [c EXCEPT !.recalls[k] = n]
<1>1. /\ d \in Desks /\ d.win[w] \in WindowTypes /\ d.recalls[k] \in 0..MaxRecall /\ MaxRecall \in Nat
      /\ (d.win[w].armed => d.win[w].asked = "long") /\ "" \in Lines
  <2>1. (d.win[w].armed => d.win[w].asked = "long") /\ "" \in Lines
    BY DEF DeskOK, Tidy, Lines, Typed
  <2>2. QED BY <2>1, WindowsAssumption DEF DeskOK, Desks
<1>2. Sent(d, w) = e
  <2>1. c.recalls = d.recalls
    BY <1>1 DEF Desks, OneSet
  <2> HIDE DEF r
  <2>2. e = [d EXCEPT !.win[w] = r, !.recalls[k] = n]
    BY <1>1, <2>1 DEF Desks, OneSet
  <2>3. Sent(d, w) = [d EXCEPT !.win[w] = r, !.recalls[k] = n]
    BY DEF Sent, r
  <2>4. QED BY <2>2, <2>3
<1>3. /\ r \in WindowTypes /\ r.text = "" /\ (r.armed => r.asked = "long")
      /\ r.open = d.win[w].open /\ r.active = d.win[w].active /\ r.focus = d.win[w].focus
      /\ r.pinned = d.win[w].pinned /\ r.orphan = d.win[w].orphan
      /\ r.drawn = d.win[w].drawn /\ r.late = d.win[w].late
  <2>1. /\ s \in WindowTypes /\ s.text = "" /\ (s.armed => s.asked = "long")
        /\ s.open = d.win[w].open /\ s.active = d.win[w].active /\ s.focus = d.win[w].focus
        /\ s.pinned = d.win[w].pinned /\ s.orphan = d.win[w].orphan
        /\ s.drawn = d.win[w].drawn /\ s.late = d.win[w].late
    BY <1>1, SetTextIs
  <2>2. r = [s EXCEPT !.pos = 0] /\ 0 \in 0..MaxRecall
    <3>1. MaxRecall \in Nat
      BY <1>1
    <3>2. 0 \in 0..MaxRecall
      BY <3>1
    <3>3. QED BY <3>2
  <2> HIDE DEF s, r
  <2>3. /\ r \in WindowTypes /\ r.text = s.text /\ r.armed = s.armed /\ r.asked = s.asked
        /\ r.open = s.open /\ r.active = s.active /\ r.focus = s.focus
        /\ r.pinned = s.pinned /\ r.orphan = s.orphan /\ r.drawn = s.drawn /\ r.late = s.late
    BY <2>1, <2>2 DEF WindowTypes
  <2>4. QED BY <2>1, <2>3
<1> HIDE DEF r
<1>4. /\ DeskOK(c)
      /\ c.held = d.held /\ c.draft = d.draft /\ c.posted = d.posted /\ c.recalls = d.recalls
      /\ c.win[w] = r /\ \A v \in Windows \ {w} : c.win[v] = d.win[v]
      /\ \A j \in Keys, t \in Lines : Agrees(d, j, t) /\ (d.win[w].active = j => r.text = t) => Agrees(c, j, t)
  BY ZenonT(40), <1>3, WindowSet
<1> HIDE DEF c
<1>5. n \in 0..MaxRecall
  <2>1. MaxRecall \in Nat
    BY <1>1
  <2>2. \A i \in 0..MaxRecall : i < MaxRecall => i + 1 \in 0..MaxRecall
    BY <2>1
  <2>3. QED BY <1>1, <2>2, Zenon
<1> HIDE DEF n
<1>6. /\ e \in Desks /\ e.held = c.held /\ e.draft = c.draft /\ e.posted = c.posted /\ e.newest = c.newest
      /\ e.read = c.read /\ e.marked = c.marked /\ e.win = c.win
  <2>1. c \in Desks
    BY <1>4 DEF DeskOK
  <2>2. QED BY <1>5, <2>1 DEF Desks
<1> HIDE DEF e
<1>7. DeskOK(e)
  <2>1. Tidy(c) /\ Bare(c) /\ Pins(c) /\ \A v \in Windows : Drawn(c, v)
    BY <1>4 DEF DeskOK
  <2>2. Tidy(e)
    BY <1>6, <2>1, Zenon DEF Tidy
  <2>3. Bare(e)
    BY <1>6, <2>1, Zenon DEF Bare
  <2>4. Pins(e)
    BY <1>6, <2>1, Zenon DEF Pins
  <2>5. \A v \in Windows : Drawn(e, v)
    BY ZenonT(40), <1>6, <2>1 DEF Drawn
  <2>6. QED BY <1>6, <2>2, <2>3, <2>4, <2>5 DEF DeskOK
<1>8. \A v \in Windows : e.win[v].open = d.win[v].open /\ e.win[v].active = d.win[v].active
  BY <1>3, <1>4, <1>6
<1>9. ASSUME NEW j \in Keys, NEW t \in Lines, Agrees(d, j, t)
      PROVE  /\ j # k => Agrees(e, j, t)
             /\ j = k /\ Alone(d, j) => Agrees(e, j, "")
  <2>1. \A u : Agrees(c, j, u) => Agrees(e, j, u)
    BY <1>6 DEF Agrees
  <2>2. CASE j # k
    BY <1>4, <1>9, <2>1, <2>2
  <2>3. CASE j = k /\ Alone(d, j)
    <3>1. \A v \in Windows : d.win[v].active = j => v = w
      BY <2>3 DEF Alone
    <3>2. \A v \in Windows : e.win[v].active = j => e.win[v].text = ""
      BY <1>3, <1>4, <1>6, <1>8, <3>1
    <3>3. e.posted[j] = e.draft[j] /\ e.win[w].active = j
      BY <1>4, <1>6, <1>8, <1>9, <2>3 DEF Agrees
    <3>4. Agrees(e, j, "")
      BY <3>2, <3>3 DEF Agrees
    <3>5. QED BY <2>3, <3>4
  <2>4. QED BY <2>2, <2>3
<1>10. QED BY <1>2, <1>4, <1>6, <1>7, <1>8, <1>9

\* A line is sent, one that is split only when the user was asked.
LEMMA SubmitOK == ASSUME WindowsInv, NEW w \in Windows, Submit(w), running PROVE WindowsInv'
<1> DEFINE k == win[w].active
           r == [Desk.win[w] EXCEPT !.armed = FALSE]
           u == OneSet(Desk, w, r)
           query == win[w].text = "query"
           b == IF query THEN Activate(u, w, Renamed) ELSE u
           e == Sent(b, w)
           wk == [work EXCEPT ![k] = ""]
           ex == IF query THEN excused \cup {k, Renamed} ELSE excused
<1>1. Becomes(e, wk, ex) /\ UNCHANGED <<link, moves>> /\ k # None /\ ~NeedsConfirmation(win[w])
      /\ split' = IF win[w].text # "long" THEN split
                  ELSE IF AllowSplit \/ win[w].asked = "long" THEN "asked" ELSE "unasked"
  BY DEF Submit, OneSet
<1>2. /\ win[w] \in WindowTypes /\ Desk.win = win /\ (win[w].armed => win[w].asked = "long")
      /\ DeskOK(Desk) /\ Control /\ win[Main].open /\ held \subseteq Keys /\ Main \in Windows
      /\ (\A j \in held \ excused : Agrees(Desk, j, work[j])) /\ Desk.held = held
      /\ work \in [Keys -> Lines] /\ excused \in SUBSET Keys /\ "" \in Lines
  BY Before, DeskIs DEF DeskOK, Tidy, Windows, Lines, Typed
<1>3. k \in Keys /\ Renamed \in Keys /\ win[w].open
  BY <1>1, <1>2, Before DEF WindowTypes, Keys
<1>4. /\ r \in WindowTypes /\ r.open = Desk.win[w].open /\ r.active = Desk.win[w].active
      /\ r.focus = Desk.win[w].focus
      /\ ~r.armed /\ r.pinned = Desk.win[w].pinned /\ r.orphan = Desk.win[w].orphan
      /\ r.drawn = Desk.win[w].drawn /\ r.late = Desk.win[w].late /\ r.text = Desk.win[w].text
  BY <1>2 DEF WindowTypes
<1> HIDE DEF r
<1>5. /\ DeskOK(u) /\ u.held = held
      /\ u.win[w] = r /\ \A v \in Windows \ {w} : u.win[v] = win[v]
      /\ \A j \in Keys, t \in Lines :
           Agrees(Desk, j, t) /\ (Desk.win[w].active = j => r.text = t) => Agrees(u, j, t)
  <2>1. /\ r \in WindowTypes /\ r.open = Desk.win[w].open /\ r.active = Desk.win[w].active
        /\ (r.focus => Desk.win[w].focus) /\ (r.armed => r.asked = "long")
        /\ r.pinned = Desk.win[w].pinned /\ r.orphan = Desk.win[w].orphan
        /\ r.drawn = Desk.win[w].drawn /\ r.late = Desk.win[w].late
    BY <1>4
  <2>2. /\ DeskOK(u) /\ u.held = Desk.held
        /\ u.win[w] = r /\ \A v \in Windows \ {w} : u.win[v] = Desk.win[v]
        /\ \A j \in Keys, t \in Lines :
             Agrees(Desk, j, t) /\ (Desk.win[w].active = j => r.text = t) => Agrees(u, j, t)
    <3>1. DeskOK(Desk)
      BY <1>2
    <3>2. QED BY <2>1, <3>1, WindowSet
  <2>3. QED BY <1>2, <2>2
<1> HIDE DEF u
<1>6. \A j \in held \ excused : Agrees(u, j, work[j])
  <2>1. ASSUME NEW j \in held \ excused PROVE Agrees(u, j, work[j])
    <3>1. Agrees(Desk, j, work[j]) /\ j \in Keys /\ work[j] \in Lines
      BY <1>2
    <3>2. Desk.win[w].active = j => r.text = work[j]
      BY <1>4, <3>1 DEF Agrees
    <3>3. QED BY <1>5, <3>1, <3>2
  <2>2. QED BY <2>1
<1>7. u.win[w].open /\ u.win[Main].open /\ u.win[w].active = k
  BY <1>2, <1>3, <1>4, <1>5
<1>8. /\ DeskOK(b) /\ b.held = held /\ b.win[Main].open
      /\ b.win[w].active = IF query THEN Renamed ELSE k
      /\ \A j \in held \ excused : Alone(b, j) => Agrees(b, j, work[j])
  <2>1. CASE query
    <3> DEFINE a == Activate(u, w, Renamed)
    <3>1. /\ DeskOK(a) /\ a.held = u.held /\ a.win[w].active = Renamed
          /\ \A v \in Windows : a.win[v].open = u.win[v].open
          /\ \A j \in u.held, t \in Lines : Agrees(u, j, t) /\ Alone(a, j) => Agrees(a, j, t)
      BY <1>3, <1>5, <1>7, ActivateIs
    <3>2. b = a
      BY <2>1
    <3> HIDE DEF a, b
    <3>3. QED BY <1>2, <1>5, <1>6, <1>7, <2>1, <3>1, <3>2
  <2>2. CASE ~query
    <3>1. b = u
      BY <2>2
    <3> HIDE DEF b
    <3>2. QED BY <1>5, <1>6, <1>7, <2>2, <3>1
  <2>3. QED BY <2>1, <2>2
<1> HIDE DEF b
<1>9. b.win[w].active \in Keys
  BY <1>3, <1>8
<1>10. /\ DeskOK(e) /\ e.held = b.held
       /\ \A v \in Windows : e.win[v].open = b.win[v].open /\ e.win[v].active = b.win[v].active
       /\ \A j \in Keys, t \in Lines : Agrees(b, j, t) =>
            /\ j # b.win[w].active => Agrees(e, j, t)
            /\ j = b.win[w].active /\ Alone(b, j) => Agrees(e, j, "")
  BY <1>8, <1>9, SentIs
<1> HIDE DEF e
<1>11. ASSUME NEW j \in e.held \ ex, Alone(e, j) PROVE Agrees(e, j, wk[j])
  <2>1. j \in held \ excused /\ j \in Keys /\ work[j] \in Lines /\ (query => j # k /\ j # Renamed)
    BY <1>2, <1>8, <1>10
  <2>2. Alone(b, j)
    BY <1>10, <1>11 DEF Alone
  <2>3. Agrees(b, j, work[j])
    BY <1>8, <2>1, <2>2
  <2>4. CASE j = k
    BY <1>2, <1>8, <1>10, <2>1, <2>2, <2>3, <2>4
  <2>5. CASE j # k
    <3>1. wk[j] = work[j] /\ j # b.win[w].active
      BY <1>2, <1>8, <2>1, <2>5
    <3>2. QED BY <1>10, <2>1, <2>3, <3>1
  <2>6. QED BY <2>4, <2>5
<1>12. Control' /\ e.win[Main].open
  <2>1. split' \in {"none", "asked"}
    <3>1. win[w].text = "long" => AllowSplit \/ win[w].asked = "long"
      BY <1>1, <1>2 DEF NeedsConfirmation
    <3>2. QED BY <1>1, <1>2, <3>1 DEF Control
  <2>2. moves' = moves /\ connected' = connected /\ complete' = complete /\ running' = running
    BY <1>1 DEF link
  <2>3. Control'
    BY <1>2, <2>1, <2>2, ControlKept DEF Control
  <2>4. QED BY <1>2, <1>8, <1>10, <2>3
<1>13. wk \in [Keys -> Lines] /\ ex \in SUBSET Keys
  BY <1>2, <1>3
<1> HIDE DEF wk, ex
<1>14. QED BY <1>1, <1>10, <1>11, <1>12, <1>13, StepOK

\* A conversation is popped out into a new window.
LEMMA PopOutOK == ASSUME WindowsInv, NEW w \in Windows, NEW k \in Keys, PopOut(w, k), running PROVE WindowsInv'
<1> DEFINE new == [NewWindow EXCEPT !.open = TRUE, !.pinned = k]
<1>1. PICK p \in Popouts : ~win[p].open /\ Becomes(Activate([Desk EXCEPT !.win[p] = new], p, k), work, excused)
  BY DEF PopOut
<1> DEFINE b == [Desk EXCEPT !.win[p] = new]
           a == Activate(b, p, k)
<1>2. k \in held /\ Move /\ UNCHANGED <<link, split>> /\ p \in Windows /\ Main \in Windows
  BY DEF PopOut, Windows
<1>3. /\ DeskOK(Desk) /\ Control /\ win[Main].open /\ held \subseteq Keys
      /\ Desk \in Desks /\ Tidy(Desk) /\ Bare(Desk) /\ Pins(Desk) /\ (\A v \in Windows : Drawn(Desk, v))
      /\ (\A j \in held \ excused : Agrees(Desk, j, work[j])) /\ Desk.held = held /\ Desk.win = win
      /\ work \in [Keys -> Lines] /\ excused \in SUBSET Keys /\ Popouts \subseteq Windows
  BY Before, DeskIs DEF DeskOK, Windows
<1>4. new \in WindowTypes /\ new.open /\ new.pinned = k /\ new.active = None /\ ~new.focus /\ ~new.armed
  BY NewWindowIs DEF WindowTypes
<1> HIDE DEF new
<1>5. /\ b \in Desks /\ b.held = held /\ b.draft = Desk.draft /\ b.posted = Desk.posted /\ b.newest = Desk.newest
      /\ b.read = Desk.read /\ b.marked = Desk.marked
      /\ b.win[p] = new /\ \A v \in Windows \ {p} : b.win[v] = win[v]
  BY <1>2, <1>3, <1>4 DEF Desks
<1> HIDE DEF b
<1>6. DeskOK(b)
  <2>1. Tidy(b)
    BY <1>3, <1>4, <1>5 DEF Tidy
  <2>2. Bare(b)
    BY <1>3, <1>5, Zenon DEF Bare
  <2>3. Pins(b)
    BY <1>2, <1>3, <1>4, <1>5 DEF Pins
  <2>4. \A v \in Windows : Drawn(b, v)
    BY <1>3, <1>4, <1>5, KeysAre DEF Drawn
  <2>5. QED BY <1>5, <2>1, <2>2, <2>3, <2>4 DEF DeskOK
<1>7. \A j \in held \ excused : Agrees(b, j, work[j])
  <2>1. ASSUME NEW j \in held \ excused PROVE Agrees(b, j, work[j])
    <3>1. Agrees(Desk, j, work[j]) /\ j \in Keys
      BY <1>3
    <3>2. win[p].active # j /\ new.active # j
      BY <1>1, <1>2, <1>3, <1>4, <3>1, KeysAre DEF Tidy
    <3>3. QED BY <1>3, <1>5, <3>1, <3>2 DEF Agrees
  <2>2. QED BY <2>1
<1>8. b.win[p].open
  BY <1>4, <1>5
<1>9. /\ DeskOK(a) /\ a.held = b.held /\ \A v \in Windows : a.win[v].open = b.win[v].open
      /\ \A j \in b.held, t \in Lines : Agrees(b, j, t) /\ Alone(a, j) => Agrees(a, j, t)
  BY <1>2, <1>6, <1>8, ActivateIs
<1>10. Becomes(a, work, excused)
  BY <1>1 DEF b
<1> HIDE DEF a
<1>11. Control' /\ a.win[Main].open
  BY <1>2, <1>3, <1>4, <1>5, <1>9, ControlKept DEF Control, link
<1>12. \A j \in a.held \ excused : Alone(a, j) => Agrees(a, j, work[j])
  BY <1>3, <1>5, <1>7, <1>9
<1>13. QED BY <1>3, <1>9, <1>10, <1>11, <1>12, StepOK

\* A popout closes.
LEMMA ClosePopoutOK == ASSUME WindowsInv, NEW w \in Windows, ClosePopout(w), running PROVE WindowsInv'
<1> DEFINE c == Detach(Desk, {w})
<1>1. Becomes(c, work, excused) /\ UNCHANGED <<link, story>> /\ w \in Popouts
  BY DEF ClosePopout
<1>2. /\ DeskOK(c) /\ c.held = held /\ \A v \in Windows \ {w} : c.win[v] = win[v]
      /\ \A j \in held, t \in Lines : Agrees(Desk, j, t) => Agrees(c, j, t)
  <2>1. {w} \in SUBSET Windows
    OBVIOUS
  <2>2. QED BY <2>1, Before, DeskIs, DetachIs
<1> HIDE DEF c
<1>3. Control'
  BY <1>1, Before, ControlKept DEF Control, link, story
<1>4. c.win[Main].open
  BY <1>1, <1>2, Before, WindowsAssumption DEF Windows
<1>5. \A j \in c.held \ excused : Agrees(c, j, work[j])
  BY <1>2, Before
<1>6. QED BY <1>1, <1>2, <1>3, <1>4, <1>5, Before, StepOK

\* A step that changes what the store holds, and not the windows
LEMMA StoreSet ==
  ASSUME NEW d, DeskOK(d), NEW e \in Desks, e.win = d.win, d.held \subseteq e.held, e.newest = d.newest,
         Bare(e), \A k \in Keys : e.marked[k] >= d.marked[k]
  PROVE  /\ DeskOK(e)
         /\ \A k \in Keys, t \in Lines :
              Agrees(d, k, t) /\ e.draft[k] = d.draft[k] /\ e.posted[k] = d.posted[k] => Agrees(e, k, t)
<1>1. d \in Desks /\ Tidy(d) /\ Bare(d) /\ Pins(d) /\ \A w \in Windows : Drawn(d, w)
  BY DEF DeskOK
<1>2. Tidy(e) /\ Pins(e)
  BY <1>1, Zenon DEF Tidy, Pins
<1>3. ASSUME NEW w \in Windows, NEW k \in Keys, e.win[w].active = k, ~e.win[w].late
      PROVE  e.win[w].drawn = e.newest[k] /\ (e.win[w].focus => e.marked[k] >= e.newest[k])
  <2>1. d.win[w].drawn = d.newest[k] /\ (d.win[w].focus => d.marked[k] >= d.newest[k])
    BY <1>1, <1>3 DEF Drawn
  <2>2. d.marked[k] \in Nat /\ e.marked[k] \in Nat /\ d.newest[k] \in Nat
    <3>1. d.marked[k] \in 0..MaxRows /\ e.marked[k] \in 0..MaxRows /\ d.newest[k] \in 0..MaxRows
      BY <1>1 DEF Desks
    <3>2. QED BY <3>1
  <2>3. e.marked[k] >= d.marked[k]
    OBVIOUS
  <2>4. QED BY <2>1, <2>2, <2>3
<1>4. \A w \in Windows : Drawn(e, w)
  BY <1>3 DEF Drawn
<1>5. DeskOK(e)
  BY <1>2, <1>4 DEF DeskOK
<1>6. \A k \in Keys, t \in Lines :
        Agrees(d, k, t) /\ e.draft[k] = d.draft[k] /\ e.posted[k] = d.posted[k] => Agrees(e, k, t)
  BY DEF Agrees
<1>7. QED BY <1>5, <1>6

\* A step of the store that leaves the text of those not excused keeps the invariant.
LEMMA StoreStep ==
  ASSUME WindowsInv, running, NEW e \in Desks, e.win = win, held \subseteq e.held, e.newest = newest,
         Bare(e), \A k \in Keys : e.marked[k] >= marked[k],
         NEW ex \in SUBSET Keys, excused \subseteq ex, e.held \subseteq held \cup ex,
         \A k \in Keys \ ex : e.draft[k] = draft[k] /\ e.posted[k] = posted[k],
         Becomes(e, work, ex), Control', running' = running
  PROVE  WindowsInv'
<1>1. /\ DeskOK(Desk) /\ win[Main].open /\ held \subseteq Keys /\ work \in [Keys -> Lines]
      /\ \A k \in held \ excused : Agrees(Desk, k, work[k])
  BY Before
<1>2. /\ DeskOK(e)
      /\ \A k \in Keys, t \in Lines :
           Agrees(Desk, k, t) /\ e.draft[k] = draft[k] /\ e.posted[k] = posted[k] => Agrees(e, k, t)
  BY <1>1, DeskIs, StoreSet
<1>3. \A k \in e.held \ ex : Agrees(e, k, work[k])
  <2>1. ASSUME NEW k \in e.held \ ex PROVE Agrees(e, k, work[k])
    <3>1. k \in held \ excused /\ k \in Keys /\ work[k] \in Lines
      BY <1>1
    <3>2. Agrees(Desk, k, work[k])
      BY <1>1, <3>1
    <3>3. QED BY <1>2, <3>1, <3>2
  <2>2. QED BY <2>1
<1>4. e.win[Main].open
  BY <1>1
<1>5. QED BY <1>1, <1>2, <1>3, <1>4, StepOK

\* A frame leaves the connection and the windows running.
LEMMA FrameKeepsControl == ASSUME Control, Move, UNCHANGED <<link, split>> PROVE Control' /\ running' = running
BY ControlKept DEF Control, link

\* What a desk is, piece by piece
LEMMA DeskParts ==
  ASSUME WindowsInv
  PROVE  /\ Desk \in Desks /\ Tidy(Desk) /\ Bare(Desk) /\ Pins(Desk) /\ \A w \in Windows : Drawn(Desk, w)
         /\ MaxRows \in Nat /\ MaxRecall \in Nat
         /\ (\A k \in Keys \ held : draft[k] = "" /\ newest[k] = 0) /\ \A k \in Keys : read[k] <= marked[k]
<1>1. /\ Desk \in Desks /\ Tidy(Desk) /\ Bare(Desk) /\ Pins(Desk) /\ (\A w \in Windows : Drawn(Desk, w))
      /\ MaxRows \in Nat /\ MaxRecall \in Nat
  BY Before, WindowsAssumption DEF DeskOK
<1>2. (\A k \in Keys \ held : draft[k] = "" /\ newest[k] = 0) /\ \A k \in Keys : read[k] <= marked[k]
  <2>1. Desk.held = held /\ Desk.draft = draft /\ Desk.newest = newest /\ Desk.read = read /\ Desk.marked = marked
    BY DeskIs
  <2>2. QED BY <1>1, <2>1, Zenon DEF Bare
<1>3. QED BY <1>1, <1>2

\* Another device reads.
LEMMA ReadFrameOK == ASSUME WindowsInv, NEW k \in Keys, ReadFrame(k), running PROVE WindowsInv'
<1>1. PICK upTo \in marked[k]..newest[k] :
        Becomes([Desk EXCEPT !.read[k] = upTo, !.marked[k] = upTo], work, excused)
  BY DEF ReadFrame
<1> DEFINE e == [Desk EXCEPT !.read[k] = upTo, !.marked[k] = upTo]
<1>2. Desk \in Desks /\ Bare(Desk) /\ excused \in SUBSET Keys /\ Control
  BY Before, DeskParts
<1>3. marked[k] \in 0..MaxRows /\ newest[k] \in 0..MaxRows /\ MaxRows \in Nat
  BY Before, DeskParts
<1>4. upTo \in 0..MaxRows /\ upTo >= marked[k]
  BY <1>3
<1>5. /\ e \in Desks /\ e.win = win /\ e.held = held /\ e.newest = newest /\ e.draft = draft /\ e.posted = posted
      /\ e.read = [read EXCEPT ![k] = upTo] /\ e.marked = [marked EXCEPT ![k] = upTo]
  BY <1>2, <1>4, DeskIs DEF Desks
<1> HIDE DEF e
<1>6. read \in [Keys -> 0..MaxRows] /\ marked \in [Keys -> 0..MaxRows]
  BY Before
<1>7. Bare(e)
  <2>1. ASSUME NEW j \in Keys PROVE e.read[j] <= e.marked[j]
    <3>1. read[j] <= marked[j]
      BY <1>2, DeskIs DEF Bare
    <3>2. QED BY <1>4, <1>5, <1>6, <3>1
  <2>2. \A j \in Keys \ e.held : e.draft[j] = "" /\ e.newest[j] = 0
    BY <1>5, DeskParts, Zenon
  <2>3. QED BY <2>1, <2>2 DEF Bare
<1>8. \A j \in Keys : e.marked[j] >= marked[j]
  BY <1>4, <1>5, <1>6
<1>9. Becomes(e, work, excused)
  BY <1>1 DEF e
<1>10. Control' /\ running' = running
  BY <1>2, FrameKeepsControl DEF ReadFrame
<1>11. QED BY <1>2, <1>5, <1>7, <1>8, <1>9, <1>10, StoreStep

\* Another device writes: its draft takes the place of the one here.
LEMMA DraftFrameOK ==
  ASSUME WindowsInv, NEW k \in Keys, NEW text \in Drafts, DraftFrame(k, text), running PROVE WindowsInv'
<1> DEFINE po == IF k \in flight THEN posted[k] ELSE text
           e == [Desk EXCEPT !.draft[k] = text, !.posted[k] = po]
<1>1. Becomes(e, work, excused \cup {k}) /\ k \in held
  <2>1. Desk.posted[k] = posted[k]
    BY DeskIs
  <2>2. QED BY <2>1 DEF DraftFrame
<1>2. /\ Desk \in Desks /\ Bare(Desk) /\ excused \cup {k} \in SUBSET Keys /\ Control /\ text \in Lines
      /\ po \in Lines
  BY Before, DeskParts DEF Lines, Typed, Drafts
<1> HIDE DEF po
<1>3. /\ e \in Desks /\ e.win = win /\ e.held = held /\ e.newest = newest /\ e.read = read /\ e.marked = marked
      /\ e.draft = [draft EXCEPT ![k] = text] /\ e.posted = [posted EXCEPT ![k] = po]
  BY <1>2, DeskIs DEF Desks
<1> HIDE DEF e
<1>4. Bare(e)
  <2>1. \A j \in Keys \ {k} : e.draft[j] = draft[j]
    BY <1>3, Before
  <2>2. \A j \in Keys \ e.held : e.draft[j] = "" /\ e.newest[j] = 0
    <3>1. ASSUME NEW j \in Keys \ e.held PROVE e.draft[j] = "" /\ e.newest[j] = 0
      <4>1. j \in Keys \ held /\ j # k
        BY <1>1, <1>3
      <4>2. draft[j] = "" /\ newest[j] = 0
        BY <4>1, DeskParts
      <4>3. QED BY <1>3, <2>1, <4>1, <4>2
    <3>2. QED BY <3>1
  <2>3. \A j \in Keys : e.read[j] <= e.marked[j]
    BY <1>2, <1>3, DeskIs DEF Bare
  <2>4. QED BY <2>2, <2>3 DEF Bare
<1>5. \A j \in Keys : e.marked[j] >= marked[j]
  <2>1. ASSUME NEW j \in Keys PROVE e.marked[j] >= marked[j]
    <3>1. marked[j] \in 0..MaxRows /\ MaxRows \in Nat /\ e.marked = marked
      BY <1>3, Before, DeskParts
    <3>2. marked[j] >= marked[j]
      BY <3>1
    <3>3. QED BY <3>1, <3>2
  <2>2. QED BY <2>1
<1>6. \A j \in Keys \ (excused \cup {k}) : e.draft[j] = draft[j] /\ e.posted[j] = posted[j]
  BY <1>3, Before
<1>7. Control' /\ running' = running
  BY <1>2, FrameKeepsControl DEF DraftFrame
<1>8. QED BY <1>1, <1>2, <1>3, <1>4, <1>5, <1>6, <1>7, StoreStep

\* The server's list of sent lines comes.
LEMMA RecallsFrameOK == ASSUME WindowsInv, NEW k \in Keys, RecallsFrame(k), running PROVE WindowsInv'
<1>1. PICK len \in 0..MaxRecall : Becomes([Desk EXCEPT !.recalls[k] = len], work, excused)
  BY DEF RecallsFrame
<1> DEFINE e == [Desk EXCEPT !.recalls[k] = len]
<1>2. Desk \in Desks /\ Bare(Desk) /\ excused \in SUBSET Keys /\ Control
  BY Before, DeskParts
<1>3. /\ e \in Desks /\ e.win = win /\ e.held = held /\ e.newest = newest /\ e.read = read /\ e.marked = marked
      /\ e.draft = draft /\ e.posted = posted
  BY <1>2, DeskIs DEF Desks
<1> HIDE DEF e
<1>4. Bare(e)
  BY <1>2, <1>3, DeskIs, Zenon DEF Bare
<1>5. \A j \in Keys : e.marked[j] >= marked[j]
  <2>1. \A j \in Keys : marked[j] \in 0..MaxRows
    BY Before
  <2>2. QED BY <1>3, <2>1
<1>6. Becomes(e, work, excused)
  BY <1>1 DEF e
<1>7. Control' /\ running' = running
  BY <1>2, FrameKeepsControl DEF RecallsFrame
<1>8. QED BY <1>2, <1>3, <1>4, <1>5, <1>6, <1>7, StoreStep

\* A conversation is opened.
LEMMA OpenedFrameOK == ASSUME WindowsInv, NEW k \in Keys, OpenedFrame(k), running PROVE WindowsInv'
<1> DEFINE e == [Desk EXCEPT !.held = @ \cup {k}]
<1>1. Becomes(e, work, excused \cup {k})
  BY DEF OpenedFrame
<1>2. Desk \in Desks /\ Bare(Desk) /\ excused \cup {k} \in SUBSET Keys /\ Control
  BY Before, DeskParts
<1>3. /\ e \in Desks /\ e.win = win /\ e.held = held \cup {k} /\ e.newest = newest /\ e.read = read
      /\ e.marked = marked /\ e.draft = draft /\ e.posted = posted
  BY <1>2, DeskIs DEF Desks
<1> HIDE DEF e
<1>4. Bare(e)
  <2>1. \A j \in Keys \ e.held : e.draft[j] = "" /\ e.newest[j] = 0
    BY <1>2, <1>3, DeskIs DEF Bare
  <2>2. \A j \in Keys : e.read[j] <= e.marked[j]
    BY <1>2, <1>3, DeskIs DEF Bare
  <2>3. QED BY <2>1, <2>2 DEF Bare
<1>5. \A j \in Keys : e.marked[j] >= marked[j]
  <2>1. \A j \in Keys : marked[j] \in 0..MaxRows
    BY Before
  <2>2. QED BY <1>3, <2>1
<1>6. Control' /\ running' = running
  BY <1>2, FrameKeepsControl DEF OpenedFrame
<1>7. QED BY <1>1, <1>2, <1>3, <1>4, <1>5, <1>6, StoreStep

\* A row comes, and the windows that show the conversation draw it.
LEMMA NewRowOK == ASSUME WindowsInv, NEW k \in Keys, NewRow(k), running PROVE WindowsInv'
<1> DEFINE e == [Desk EXCEPT !.newest[k] = @ + 1]
           ws == Showing(k)
           r == Render(e, ws)
<1>1. Becomes(r, work, excused) /\ k \in held /\ newest[k] < MaxRows
  BY DEF NewRow
<1>2. /\ Desk \in Desks /\ Tidy(Desk) /\ Bare(Desk) /\ Pins(Desk) /\ (\A w \in Windows : Drawn(Desk, w))
      /\ excused \in SUBSET Keys /\ Control /\ newest \in [Keys -> 0..MaxRows] /\ MaxRows \in Nat
  BY Before, DeskParts
<1>3. newest[k] + 1 \in 0..MaxRows
  <2>1. newest[k] \in 0..MaxRows
    BY <1>2
  <2>2. QED BY <1>1, <1>2, <2>1
<1>4. /\ e \in Desks /\ e.win = win /\ e.held = held /\ e.read = read /\ e.marked = marked
      /\ e.draft = draft /\ e.posted = posted /\ \A j \in Keys \ {k} : e.newest[j] = newest[j]
  BY <1>2, <1>3, DeskIs DEF Desks
<1> HIDE DEF e
<1>5. Tidy(e) /\ Pins(e)
  BY <1>2, <1>4, DeskIs, Zenon DEF Tidy, Pins
<1>6. Bare(e)
  <2>1. \A j \in Keys \ e.held : e.draft[j] = "" /\ e.newest[j] = 0
    BY <1>1, <1>2, <1>4, DeskIs DEF Bare
  <2>2. \A j \in Keys : e.read[j] <= e.marked[j]
    BY <1>2, <1>4, DeskIs DEF Bare
  <2>3. QED BY <2>1, <2>2 DEF Bare
<1>7. ws \in SUBSET Windows
  BY DEF Showing, ShowingIn, OpenWindows
<1>8. \A w \in Windows \ ws : Drawn(e, w)
  <2>1. \A w \in Windows \ ws : win[w].active # k
    BY <1>1, Before, KeysAre DEF Showing, ShowingIn, OpenWindows
  <2>2. QED BY <1>2, <1>4, <2>1, DeskIs DEF Drawn
<1> HIDE DEF ws
<1>9. /\ DeskOK(r) /\ r.held = held /\ r.draft = draft /\ r.posted = posted
      /\ \A w \in Windows : r.win[w].active = win[w].active /\ r.win[w].text = win[w].text
                            /\ r.win[w].open = win[w].open
  BY <1>4, <1>5, <1>6, <1>7, <1>8, RenderIs
<1> HIDE DEF r
<1>10. \A j \in r.held \ excused : Agrees(r, j, work[j])
  <2>1. \A j \in held \ excused : Agrees(Desk, j, work[j])
    BY Before
  <2>2. QED BY <1>9, <2>1, DeskIs DEF Agrees
<1>11. Control' /\ running' = running
  BY <1>2, FrameKeepsControl DEF NewRow
<1>12. r.win[Main].open
  BY <1>9, Before DEF Windows
<1>13. QED BY <1>1, <1>2, <1>9, <1>10, <1>11, <1>12, Before, StepOK

\* A window whose conversation was closed under it
Stale(r, late, orphan) == [r EXCEPT !.late = late, !.orphan = orphan]

\* That is all that changes of it.
LEMMA StaleIs ==
  ASSUME NEW r \in WindowTypes, NEW late \in BOOLEAN, NEW orphan \in BOOLEAN
  PROVE  LET z == Stale(r, late, orphan) IN
         /\ z \in WindowTypes /\ (~z.late => ~late) /\ (orphan => z.orphan)
         /\ z.open = r.open /\ z.active = r.active /\ z.text = r.text
         /\ z.armed = r.armed /\ z.asked = r.asked /\ z.pinned = r.pinned
         /\ z.focus = r.focus /\ z.drawn = r.drawn
BY DEF Stale, WindowTypes

\* A conversation is closed: a popout of it closes, another window shows it late.
LEMMA ClosedFrameOK == ASSUME WindowsInv, NEW k \in Keys, ClosedFrame(k), running PROVE WindowsInv'
<1> DEFINE popped == {p \in Popouts : win[p].open /\ win[p].pinned = k}
           mark(w) == [win[w] EXCEPT !.late = @ \/ win[w].active = k, !.orphan = @ \/ w \in popped]
           wi == [w \in Windows |-> mark(w)]
           e == [Dropped(Desk, k) EXCEPT !.win = wi]
           ws == IF complete THEN popped ELSE {}
           c == Detach(e, ws)
<1>1. Becomes(c, work, excused \cup {k}) /\ k \in held
  BY DEF ClosedFrame
<1>2. /\ Desk \in Desks /\ Tidy(Desk) /\ Bare(Desk) /\ Pins(Desk) /\ (\A w \in Windows : Drawn(Desk, w))
      /\ excused \cup {k} \in SUBSET Keys /\ Control /\ win \in [Windows -> WindowTypes]
      /\ MaxRows \in Nat /\ MaxRecall \in Nat /\ Popouts \subseteq Windows
  BY Before, DeskParts DEF Windows
<1>3. ASSUME NEW w \in Windows
      PROVE  /\ mark(w) \in WindowTypes
             /\ (~mark(w).late => ~win[w].late /\ win[w].active # k)
             /\ (win[w].orphan => mark(w).orphan) /\ (w \in popped => mark(w).orphan)
             /\ mark(w).open = win[w].open /\ mark(w).active = win[w].active /\ mark(w).text = win[w].text
             /\ mark(w).armed = win[w].armed /\ mark(w).asked = win[w].asked /\ mark(w).pinned = win[w].pinned
             /\ mark(w).focus = win[w].focus /\ mark(w).drawn = win[w].drawn
  <2> DEFINE a == win[w].late \/ win[w].active = k
             b == win[w].orphan \/ w \in popped
  <2>1. win[w] \in WindowTypes /\ a \in BOOLEAN /\ b \in BOOLEAN
    BY <1>2
  <2>2. mark(w) = Stale(win[w], a, b)
    BY <2>1 DEF WindowTypes, Stale
  <2>3. (~a => ~win[w].late /\ win[w].active # k) /\ (win[w].orphan => b) /\ (w \in popped => b)
    OBVIOUS
  <2> HIDE DEF a, b, mark, popped
  <2> DEFINE z == Stale(win[w], a, b)
  <2>4. /\ z \in WindowTypes /\ (~z.late => ~a) /\ (b => z.orphan)
        /\ z.open = win[w].open /\ z.active = win[w].active /\ z.text = win[w].text
        /\ z.armed = win[w].armed /\ z.asked = win[w].asked /\ z.pinned = win[w].pinned
        /\ z.focus = win[w].focus /\ z.drawn = win[w].drawn
    BY <2>1, StaleIs
  <2> HIDE DEF z
  <2>5. mark(w) = z
    BY <2>2 DEF z
  <2>6. QED BY <2>3, <2>4, <2>5
<1>4. wi \in [Windows -> WindowTypes] /\ \A w \in Windows : wi[w] = mark(w)
  BY <1>3
<1> HIDE DEF wi, mark
<1>5. /\ e \in Desks /\ e.win = wi /\ e.held = held \ {k} /\ e.draft = [draft EXCEPT ![k] = ""]
      /\ e.newest = [newest EXCEPT ![k] = 0] /\ e.read = [read EXCEPT ![k] = 0]
      /\ e.marked = [marked EXCEPT ![k] = 0] /\ e.posted = posted
  <2>1. "" \in Lines /\ 0 \in 0..MaxRows /\ 0 \in 0..MaxRecall
    <3>1. "" \in Lines
      BY DEF Lines, Typed
    <3>2. MaxRows \in Nat /\ MaxRecall \in Nat
      BY <1>2
    <3>3. 0 \in 0..MaxRows /\ 0 \in 0..MaxRecall
      BY <3>2
    <3>4. QED BY <3>1, <3>3
  <2>2. QED BY ZenonT(40), <1>2, <1>4, <2>1, DeskIs DEF Desks, Dropped
<1> HIDE DEF e
<1>6. ASSUME NEW w \in Windows
      PROVE  /\ (~e.win[w].late => ~win[w].late /\ win[w].active # k)
             /\ (win[w].orphan => e.win[w].orphan) /\ (w \in popped => e.win[w].orphan)
             /\ e.win[w].open = win[w].open /\ e.win[w].active = win[w].active /\ e.win[w].text = win[w].text
             /\ e.win[w].armed = win[w].armed /\ e.win[w].asked = win[w].asked
             /\ e.win[w].pinned = win[w].pinned
             /\ e.win[w].focus = win[w].focus /\ e.win[w].drawn = win[w].drawn
  <2>1. e.win[w] = mark(w)
    BY <1>4, <1>5
  <2> HIDE DEF popped
  <2>2. QED BY <1>3, <2>1
<1>7. \A j \in Keys \ {k} : /\ e.draft[j] = draft[j] /\ e.newest[j] = newest[j]
                            /\ e.read[j] = read[j] /\ e.marked[j] = marked[j]
  BY ZenonT(40), <1>5, Before
<1>8. e.draft[k] = "" /\ e.newest[k] = 0 /\ e.read[k] = 0 /\ e.marked[k] = 0
  BY ZenonT(40), <1>5, Before
<1>9. Tidy(e)
  <2>1. \A w \in Windows : /\ e.win[w].open = Desk.win[w].open /\ e.win[w].active = Desk.win[w].active
                           /\ e.win[w].focus = Desk.win[w].focus /\ e.win[w].armed = Desk.win[w].armed
                           /\ e.win[w].asked = Desk.win[w].asked
    BY <1>6, DeskIs
  <2>2. QED BY <1>2, <2>1 DEF Tidy
<1>10. Bare(e)
  <2>1. ASSUME NEW j \in Keys \ e.held PROVE e.draft[j] = "" /\ e.newest[j] = 0
    <3>1. CASE j = k
      BY <1>8, <3>1
    <3>2. CASE j # k
      <4>1. j \in Keys \ held /\ j \in Keys \ {k}
        BY <1>5, <3>2
      <4>2. draft[j] = "" /\ newest[j] = 0
        BY <4>1, DeskParts
      <4>3. QED BY <1>7, <4>1, <4>2
    <3>3. QED BY <3>1, <3>2
  <2>2. ASSUME NEW j \in Keys PROVE e.read[j] <= e.marked[j]
    <3>1. CASE j = k
      <4>1. e.read[j] = 0 /\ e.marked[j] = 0
        BY <1>8, <3>1
      <4>2. QED BY <4>1
    <3>2. CASE j # k
      <4>1. read[j] <= marked[j] /\ j \in Keys \ {k}
        BY <3>2, DeskParts
      <4>2. QED BY <1>7, <4>1
    <3>3. QED BY <3>1, <3>2
  <2>3. QED BY <2>1, <2>2 DEF Bare
<1>11. Pins(e)
  <2>1. ASSUME NEW p \in Popouts, e.win[p].open PROVE e.win[p].pinned \in e.held \/ e.win[p].orphan
    <3>1. /\ p \in Windows /\ win[p].open /\ e.win[p].pinned = win[p].pinned
          /\ (win[p].orphan => e.win[p].orphan) /\ (p \in popped => e.win[p].orphan)
      BY <1>2, <1>6, <2>1
    <3>2. win[p].pinned \in held \/ win[p].orphan
      BY <1>2, <3>1, DeskIs DEF Pins
    <3>3. win[p].pinned = k => p \in popped
      BY <3>1
    <3>4. QED BY <1>5, <3>1, <3>2, <3>3
  <2>2. QED BY <2>1 DEF Pins
<1>12. ASSUME NEW w \in Windows PROVE Drawn(e, w)
  <2>1. SUFFICES ASSUME NEW j \in Keys, e.win[w].active = j, ~e.win[w].late
                 PROVE  e.win[w].drawn = e.newest[j] /\ (e.win[w].focus => e.marked[j] >= e.newest[j])
    BY DEF Drawn
  <2>2. /\ win[w].active = j /\ ~win[w].late /\ j # k
        /\ e.win[w].drawn = win[w].drawn /\ e.win[w].focus = win[w].focus
    BY <1>6, <2>1
  <2>3. win[w].drawn = newest[j] /\ (win[w].focus => marked[j] >= newest[j])
    BY <1>2, <2>2, DeskIs DEF Drawn
  <2>4. QED BY <1>7, <2>2, <2>3
<1>13. DeskOK(e)
  BY <1>5, <1>9, <1>10, <1>11, <1>12 DEF DeskOK
<1>14. ASSUME NEW j \in held \ (excused \cup {k}) PROVE Agrees(e, j, work[j])
  <2>1. Agrees(Desk, j, work[j]) /\ j \in Keys \ {k}
    BY Before
  <2>2. e.posted[j] = Desk.posted[j] /\ e.draft[j] = Desk.draft[j]
    BY <1>5, <1>7, <2>1, DeskIs
  <2>3. \A w \in Windows : e.win[w].active = Desk.win[w].active /\ e.win[w].text = Desk.win[w].text
    BY <1>6, DeskIs
  <2>4. QED BY <2>1, <2>2, <2>3 DEF Agrees
<1>15. ws \in SUBSET Popouts
  OBVIOUS
<1> HIDE DEF ws, popped
<1>16. ws \in SUBSET Windows /\ Main \notin ws
  BY <1>2, <1>15, WindowsAssumption
<1>17. /\ DeskOK(c) /\ c.held = e.held /\ \A v \in Windows \ ws : c.win[v] = e.win[v]
       /\ \A j \in e.held, t \in Lines : Agrees(e, j, t) => Agrees(c, j, t)
  BY <1>13, <1>16, DetachIs
<1> HIDE DEF c
<1>18. \A j \in c.held \ (excused \cup {k}) : Agrees(c, j, work[j])
  <2>1. ASSUME NEW j \in c.held \ (excused \cup {k}) PROVE Agrees(c, j, work[j])
    <3>1. j \in held \ (excused \cup {k}) /\ j \in e.held /\ work[j] \in Lines
      BY <1>5, <1>17, Before
    <3>2. QED BY <1>14, <1>17, <3>1
  <2>2. QED BY <2>1
<1>19. Control' /\ running' = running
  BY <1>2, FrameKeepsControl DEF ClosedFrame
<1>20. c.win[Main].open
  <2>1. Main \in Windows \ ws /\ win[Main].open
    BY <1>16, Before DEF Windows
  <2>2. QED BY <1>6, <1>17, <2>1
<1>21. QED BY <1>1, <1>2, <1>17, <1>18, <1>19, <1>20, Before, StepOK

\* A desk with one conversation's part of it replaced
PartSet(d, k, hd, dr, po, rc, ne, re, ma) ==
  [d EXCEPT !.held = hd, !.draft[k] = dr, !.posted[k] = po, !.recalls[k] = rc,
            !.newest[k] = ne, !.read[k] = re, !.marked[k] = ma]

\* The rest stays.
LEMMA PartSetIs ==
  ASSUME NEW d \in Desks, NEW k \in Keys, NEW hd \in SUBSET Keys, NEW dr \in Lines, NEW po \in Lines,
         NEW rc \in 0..MaxRecall, NEW ne \in 0..MaxRows, NEW re \in 0..MaxRows, NEW ma \in 0..MaxRows
  PROVE  LET e == PartSet(d, k, hd, dr, po, rc, ne, re, ma) IN
         /\ e \in Desks /\ e.held = hd /\ e.win = d.win
         /\ e.draft[k] = dr /\ e.posted[k] = po /\ e.newest[k] = ne /\ e.read[k] = re /\ e.marked[k] = ma
         /\ \A j \in Keys \ {k} :
              /\ e.draft[j] = d.draft[j] /\ e.posted[j] = d.posted[j] /\ e.newest[j] = d.newest[j]
              /\ e.read[j] = d.read[j] /\ e.marked[j] = d.marked[j]
<1> DEFINE e == [d EXCEPT !.held = hd, !.draft[k] = dr, !.posted[k] = po, !.recalls[k] = rc,
                          !.newest[k] = ne, !.read[k] = re, !.marked[k] = ma]
           fd == [d.draft EXCEPT ![k] = dr]
           fp == [d.posted EXCEPT ![k] = po]
           fc == [d.recalls EXCEPT ![k] = rc]
           fn == [d.newest EXCEPT ![k] = ne]
           fr == [d.read EXCEPT ![k] = re]
           fm == [d.marked EXCEPT ![k] = ma]
<1>1. /\ fd \in [Keys -> Lines] /\ fp \in [Keys -> Lines] /\ fc \in [Keys -> 0..MaxRecall]
      /\ fn \in [Keys -> 0..MaxRows] /\ fr \in [Keys -> 0..MaxRows] /\ fm \in [Keys -> 0..MaxRows]
  BY DEF Desks
<1>2. /\ fd[k] = dr /\ fp[k] = po /\ fn[k] = ne /\ fr[k] = re /\ fm[k] = ma
      /\ \A j \in Keys \ {k} :
              /\ fd[j] = d.draft[j] /\ fp[j] = d.posted[j] /\ fn[j] = d.newest[j]
              /\ fr[j] = d.read[j] /\ fm[j] = d.marked[j]
  BY DEF Desks
<1>3. e = [d EXCEPT !.held = hd, !.draft = fd, !.posted = fp, !.recalls = fc, !.newest = fn, !.read = fr,
                    !.marked = fm]
  OBVIOUS
<1>4. PartSet(d, k, hd, dr, po, rc, ne, re, ma) = e
  BY Zenon DEF PartSet
<1> HIDE DEF fd, fp, fc, fn, fr, fm, e
<1>5. /\ e \in Desks /\ e.held = hd /\ e.win = d.win /\ e.draft = fd /\ e.posted = fp
      /\ e.newest = fn /\ e.read = fr /\ e.marked = fm
  BY <1>1, <1>3 DEF Desks
<1>6. QED BY <1>2, <1>4, <1>5

\* A desk without the renamed conversation, whose windows follow
Gone(d, k) == [Dropped(d, k) EXCEPT !.posted[k] = "", !.win = [w \in Windows |-> Retarget(@[w])]]

\* The rest stays.
LEMMA GoneIs ==
  ASSUME NEW d \in Desks, NEW k \in Keys, \A w \in Windows : Retarget(d.win[w]) \in WindowTypes
  PROVE  LET e == Gone(d, k) IN
         /\ e \in Desks /\ e.held = d.held \ {k}
         /\ e.draft[k] = "" /\ e.posted[k] = "" /\ e.newest[k] = 0 /\ e.read[k] = 0 /\ e.marked[k] = 0
         /\ \A w \in Windows : e.win[w] = Retarget(d.win[w])
         /\ \A j \in Keys \ {k} :
              /\ e.draft[j] = d.draft[j] /\ e.posted[j] = d.posted[j] /\ e.newest[j] = d.newest[j]
              /\ e.read[j] = d.read[j] /\ e.marked[j] = d.marked[j]
<1> DEFINE c == Dropped(d, k)
           e == [c EXCEPT !.posted[k] = "", !.win = [w \in Windows |-> Retarget(@[w])]]
           hd == d.held \ {k}
           fd == [d.draft EXCEPT ![k] = ""]
           fp == [d.posted EXCEPT ![k] = ""]
           fc == [d.recalls EXCEPT ![k] = 0]
           fn == [d.newest EXCEPT ![k] = 0]
           fr == [d.read EXCEPT ![k] = 0]
           fm == [d.marked EXCEPT ![k] = 0]
           wi == [w \in Windows |-> Retarget(d.win[w])]
<1>1. /\ hd \in SUBSET Keys /\ wi \in [Windows -> WindowTypes]
      /\ fd \in [Keys -> Lines] /\ fp \in [Keys -> Lines] /\ fc \in [Keys -> 0..MaxRecall]
      /\ fn \in [Keys -> 0..MaxRows] /\ fr \in [Keys -> 0..MaxRows] /\ fm \in [Keys -> 0..MaxRows]
  <2>1. "" \in Lines
    BY DEF Lines, Typed
  <2>2. MaxRows \in Nat /\ MaxRecall \in Nat
    BY WindowsAssumption
  <2>3. 0 \in 0..MaxRows /\ 0 \in 0..MaxRecall
    BY <2>2
  <2>4. /\ d.held \subseteq Keys /\ d.draft \in [Keys -> Lines] /\ d.posted \in [Keys -> Lines]
        /\ d.recalls \in [Keys -> 0..MaxRecall] /\ d.newest \in [Keys -> 0..MaxRows]
        /\ d.read \in [Keys -> 0..MaxRows] /\ d.marked \in [Keys -> 0..MaxRows]
    BY DEF Desks
  <2>5. fd \in [Keys -> Lines] /\ fp \in [Keys -> Lines] /\ hd \in SUBSET Keys /\ wi \in [Windows -> WindowTypes]
    BY <2>1, <2>4
  <2>6. \A n : \A f \in [Keys -> 0..n] : 0 \in 0..n => [f EXCEPT ![k] = 0] \in [Keys -> 0..n]
    OBVIOUS
  <2>7. QED BY <2>3, <2>4, <2>5, <2>6
<1>2. /\ fd[k] = "" /\ fp[k] = "" /\ fn[k] = 0 /\ fr[k] = 0 /\ fm[k] = 0 /\ \A w \in Windows : wi[w] = Retarget(d.win[w])
      /\ \A j \in Keys \ {k} :
              /\ fd[j] = d.draft[j] /\ fp[j] = d.posted[j] /\ fn[j] = d.newest[j]
              /\ fr[j] = d.read[j] /\ fm[j] = d.marked[j]
  BY DEF Desks
<1>3. c = [d EXCEPT !.held = hd, !.draft = fd, !.recalls = fc, !.newest = fn, !.read = fr, !.marked = fm]
  BY DEF Dropped
<1>4. c.posted = d.posted /\ c.win = d.win
  <2> HIDE DEF c, hd, fd, fp, fc, fn, fr, fm, wi
  <2>1. QED BY <1>3 DEF Desks
<1>5. e = [c EXCEPT !.posted = fp, !.win = wi]
  <2>1. [w \in Windows |-> Retarget(c.win[w])] = wi
    BY <1>4
  <2>2. e = [c EXCEPT !.posted[k] = "", !.win = wi]
    BY <2>1, Zenon
  <2> HIDE DEF c, e
  <2>3. QED BY <1>4, <2>2
<1>6. Gone(d, k) = e
  BY Zenon DEF Gone
<1> HIDE DEF c, hd, fd, fp, fc, fn, fr, fm, wi, e
<1>7. /\ e \in Desks /\ e.held = hd /\ e.win = wi /\ e.draft = fd /\ e.posted = fp
      /\ e.newest = fn /\ e.read = fr /\ e.marked = fm
  BY <1>1, <1>3, <1>5 DEF Desks
<1>8. QED BY <1>2, <1>6, <1>7 DEF hd

\* What a window that follows a rename is
LEMMA RetargetIs ==
  ASSUME NEW r \in WindowTypes
  PROVE  LET z == Retarget(r) IN
         /\ z \in WindowTypes /\ (~z.late => ~r.late /\ r.active # Renamed)
         /\ z.active = IF r.active = Peer THEN Renamed ELSE r.active
         /\ z.pinned = IF r.pinned = Peer THEN Renamed ELSE r.pinned
         /\ z.open = r.open /\ z.text = r.text /\ z.armed = r.armed /\ z.asked = r.asked
         /\ z.focus = r.focus /\ z.drawn = r.drawn /\ z.orphan = r.orphan
<1> DEFINE late == r.late \/ r.active = Renamed
           act == IF r.active = Peer THEN Renamed ELSE r.active
           pin == IF r.pinned = Peer THEN Renamed ELSE r.pinned
           z == [r EXCEPT !.pinned = pin, !.active = act, !.late = late]
<1>1. Retarget(r) = z
  BY DEF Retarget, WindowTypes
<1>2. late \in BOOLEAN /\ act \in Keys \cup {None} /\ pin \in Keys \cup {None}
      /\ (~late => ~r.late /\ r.active # Renamed)
  BY DEF WindowTypes, Keys
<1> HIDE DEF late, act, pin
<1>3. /\ z \in WindowTypes /\ (~z.late => ~late) /\ z.active = act /\ z.pinned = pin
      /\ z.open = r.open /\ z.text = r.text /\ z.armed = r.armed /\ z.asked = r.asked
      /\ z.focus = r.focus /\ z.drawn = r.drawn /\ z.orphan = r.orphan
  BY <1>2 DEF WindowTypes
<1> HIDE DEF z
<1>4. QED BY <1>1, <1>2, <1>3 DEF act, pin

\* A conversation is renamed, and its windows and its text follow it.
LEMMA RenamedFrameOK ==
  ASSUME WindowsInv, RenamedFrame, running
  PROVE  /\ WindowsInv'
         /\ posted' = [posted EXCEPT ![Renamed] = IF posted[Peer] # "" THEN posted[Peer] ELSE @, ![Peer] = ""]
<1> DEFINE dr == IF draft[Peer] # "" THEN draft[Peer] ELSE draft[Renamed]
           po == IF posted[Peer] # "" THEN posted[Peer] ELSE posted[Renamed]
           ne == Later(newest[Renamed], newest[Peer])
           ma == Later(marked[Renamed], marked[Peer])
           hd == held \cup {Renamed}
           moved == PartSet(Desk, Renamed, hd, dr, po, recalls[Peer], ne, read[Peer], ma)
           gone == Gone(moved, Peer)
           lost == IF Peer \in excused \/ Renamed \in held \/ posted[Renamed] # "" \/ Showing(Renamed) # {}
                     THEN {Renamed} ELSE {}
           ws == Showing(Peer)
           r == Render(gone, ws)
           wk == [work EXCEPT ![Renamed] = work[Peer], ![Peer] = ""]
           ex == (excused \ {Peer, Renamed}) \cup lost
<1>1. Peer \in held /\ Becomes(r, wk, ex)
  <2> DEFINE m == [Desk EXCEPT
               !.held = @ \cup {Renamed},
               !.draft[Renamed] = IF draft[Peer] # "" THEN draft[Peer] ELSE @,
               !.posted[Renamed] = IF posted[Peer] # "" THEN posted[Peer] ELSE @,
               !.recalls[Renamed] = recalls[Peer],
               !.newest[Renamed] = Later(@, newest[Peer]),
               !.read[Renamed] = read[Peer],
               !.marked[Renamed] = Later(@, marked[Peer])]
             g == [Dropped(m, Peer) EXCEPT !.posted[Peer] = "", !.win = [w \in Windows |-> Retarget(@[w])]]
  <2>1. Peer \in held /\ Becomes(Render(g, ws), wk, ex)
    BY Zenon DEF RenamedFrame
  <2>2. m = moved
    BY DeskIs DEF PartSet
  <2> HIDE DEF m, moved
  <2>3. g = gone
    BY <2>2, Zenon DEF Gone
  <2>4. QED BY <2>1, <2>3, Zenon
<1>2. /\ Desk \in Desks /\ Tidy(Desk) /\ Bare(Desk) /\ Pins(Desk) /\ (\A w \in Windows : Drawn(Desk, w))
      /\ excused \in SUBSET Keys /\ Control /\ Popouts \subseteq Windows
      /\ Peer \in Keys /\ Renamed \in Keys /\ Peer # Renamed
      /\ win \in [Windows -> WindowTypes] /\ work \in [Keys -> Lines] /\ held \subseteq Keys
  BY Before, DeskParts, KeysAre DEF Windows
<1>3. hd \in SUBSET Keys /\ dr \in Lines /\ po \in Lines /\ recalls[Peer] \in 0..MaxRecall /\ read[Peer] \in 0..MaxRows
  BY <1>2, Before
<1>4. ne \in 0..MaxRows /\ ma \in 0..MaxRows /\ ma >= marked[Peer] /\ read[Peer] <= ma
  <2>1. /\ newest[Peer] \in 0..MaxRows /\ newest[Renamed] \in 0..MaxRows
        /\ marked[Peer] \in 0..MaxRows /\ marked[Renamed] \in 0..MaxRows
        /\ read[Peer] \in 0..MaxRows /\ MaxRows \in Nat
    BY <1>2, Before, DeskParts
  <2>2. read[Peer] <= marked[Peer]
    BY <1>2, DeskParts
  <2>3. QED BY <2>1, <2>2 DEF Later
<1> HIDE DEF hd, dr, po, ne, ma
<1>5. /\ moved \in Desks /\ moved.held = hd /\ moved.win = win
      /\ moved.draft[Renamed] = dr /\ moved.posted[Renamed] = po /\ moved.read[Renamed] = read[Peer]
      /\ moved.marked[Renamed] = ma
      /\ \A j \in Keys \ {Renamed} :
           /\ moved.draft[j] = draft[j] /\ moved.posted[j] = posted[j] /\ moved.newest[j] = newest[j]
           /\ moved.read[j] = read[j] /\ moved.marked[j] = marked[j]
  <2>1. /\ Desk \in Desks /\ Renamed \in Keys /\ hd \in SUBSET Keys /\ dr \in Lines /\ po \in Lines
        /\ recalls[Peer] \in 0..MaxRecall /\ ne \in 0..MaxRows /\ read[Peer] \in 0..MaxRows /\ ma \in 0..MaxRows
    BY <1>2, <1>3, <1>4
  <2>2. /\ moved \in Desks /\ moved.held = hd /\ moved.win = Desk.win
        /\ moved.draft[Renamed] = dr /\ moved.posted[Renamed] = po /\ moved.newest[Renamed] = ne
        /\ moved.read[Renamed] = read[Peer] /\ moved.marked[Renamed] = ma
        /\ \A j \in Keys \ {Renamed} :
             /\ moved.draft[j] = Desk.draft[j] /\ moved.posted[j] = Desk.posted[j]
             /\ moved.newest[j] = Desk.newest[j]
             /\ moved.read[j] = Desk.read[j] /\ moved.marked[j] = Desk.marked[j]
    BY <2>1, PartSetIs
  <2> HIDE DEF moved
  <2>3. QED BY <2>2, DeskIs
<1> HIDE DEF moved
<1>6. /\ gone \in Desks /\ gone.held = moved.held \ {Peer}
      /\ gone.draft[Peer] = "" /\ gone.posted[Peer] = "" /\ gone.newest[Peer] = 0 /\ gone.read[Peer] = 0 /\ gone.marked[Peer] = 0
      /\ \A w \in Windows : gone.win[w] = Retarget(win[w])
      /\ \A j \in Keys \ {Peer} :
           /\ gone.draft[j] = moved.draft[j] /\ gone.posted[j] = moved.posted[j] /\ gone.newest[j] = moved.newest[j]
           /\ gone.read[j] = moved.read[j] /\ gone.marked[j] = moved.marked[j]
  <2>1. \A w \in Windows : Retarget(moved.win[w]) \in WindowTypes
    BY <1>2, <1>5, RetargetIs
  <2>2. /\ gone \in Desks /\ gone.held = moved.held \ {Peer}
        /\ gone.draft[Peer] = "" /\ gone.posted[Peer] = "" /\ gone.newest[Peer] = 0 /\ gone.read[Peer] = 0 /\ gone.marked[Peer] = 0
        /\ \A w \in Windows : gone.win[w] = Retarget(moved.win[w])
        /\ \A j \in Keys \ {Peer} :
            /\ gone.draft[j] = moved.draft[j] /\ gone.posted[j] = moved.posted[j] /\ gone.newest[j] = moved.newest[j]
            /\ gone.read[j] = moved.read[j] /\ gone.marked[j] = moved.marked[j]
    <3>1. moved \in Desks /\ Peer \in Keys
      BY <1>2, <1>5
    <3>2. QED BY <2>1, <3>1, GoneIs
  <2> HIDE DEF gone
  <2>3. QED BY <1>5, <2>2
<1> HIDE DEF gone
<1>7. /\ gone.held = (held \cup {Renamed}) \ {Peer}
      /\ gone.draft[Peer] = "" /\ gone.posted[Peer] = "" /\ gone.newest[Peer] = 0 /\ gone.read[Peer] = 0 /\ gone.marked[Peer] = 0
      /\ gone.draft[Renamed] = dr /\ gone.posted[Renamed] = po
      /\ gone.read[Renamed] = read[Peer] /\ gone.marked[Renamed] = ma
      /\ \A j \in Keys \ {Peer, Renamed} :
           /\ gone.draft[j] = draft[j] /\ gone.posted[j] = posted[j] /\ gone.newest[j] = newest[j]
           /\ gone.read[j] = read[j] /\ gone.marked[j] = marked[j]
  <2>1. /\ gone.held = (held \cup {Renamed}) \ {Peer}
        /\ gone.draft[Peer] = "" /\ gone.posted[Peer] = "" /\ gone.newest[Peer] = 0 /\ gone.read[Peer] = 0 /\ gone.marked[Peer] = 0
    BY <1>5, <1>6 DEF hd
  <2>2. Renamed \in Keys \ {Peer}
    BY <1>2
  <2>3. /\ gone.draft[Renamed] = dr /\ gone.posted[Renamed] = po
        /\ gone.read[Renamed] = read[Peer] /\ gone.marked[Renamed] = ma
    <3>1. /\ gone.draft[Renamed] = moved.draft[Renamed] /\ gone.posted[Renamed] = moved.posted[Renamed]
          /\ gone.newest[Renamed] = moved.newest[Renamed]
          /\ gone.read[Renamed] = moved.read[Renamed] /\ gone.marked[Renamed] = moved.marked[Renamed]
      BY <1>6, <2>2, Zenon
    <3>2. QED BY <1>5, <3>1
  <2>4. ASSUME NEW j \in Keys \ {Peer, Renamed}
        PROVE  /\ gone.draft[j] = draft[j] /\ gone.posted[j] = posted[j] /\ gone.newest[j] = newest[j]
               /\ gone.read[j] = read[j] /\ gone.marked[j] = marked[j]
    <3>1. j \in Keys \ {Peer} /\ j \in Keys \ {Renamed}
      OBVIOUS
    <3>2. /\ gone.draft[j] = moved.draft[j] /\ gone.posted[j] = moved.posted[j]
          /\ gone.newest[j] = moved.newest[j]
          /\ gone.read[j] = moved.read[j] /\ gone.marked[j] = moved.marked[j]
      BY <1>6, <3>1, Zenon
    <3>3. /\ moved.draft[j] = draft[j] /\ moved.posted[j] = posted[j] /\ moved.newest[j] = newest[j]
          /\ moved.read[j] = read[j] /\ moved.marked[j] = marked[j]
      BY <1>5, <3>1, Zenon
    <3>4. QED BY <3>2, <3>3
  <2>5. QED BY <2>1, <2>3, <2>4
<1>8. ASSUME NEW w \in Windows
      PROVE  /\ (~gone.win[w].late => ~win[w].late /\ win[w].active # Renamed)
             /\ gone.win[w].active = (IF win[w].active = Peer THEN Renamed ELSE win[w].active)
             /\ gone.win[w].pinned = (IF win[w].pinned = Peer THEN Renamed ELSE win[w].pinned)
             /\ gone.win[w].open = win[w].open /\ gone.win[w].text = win[w].text
             /\ gone.win[w].armed = win[w].armed /\ gone.win[w].asked = win[w].asked
             /\ gone.win[w].focus = win[w].focus /\ gone.win[w].drawn = win[w].drawn
             /\ gone.win[w].orphan = win[w].orphan
  <2>1. gone.win[w] = Retarget(win[w]) /\ win[w] \in WindowTypes
    BY <1>2, <1>6
  <2>2. QED BY <2>1, RetargetIs
<1>9. Tidy(gone)
  <2>1. ASSUME NEW w \in Windows PROVE win[w].active = None => gone.win[w].active = None
    BY <1>2, <1>8, KeysAre
  <2>2. QED BY <1>2, <1>8, <2>1, DeskIs DEF Tidy
<1>10. Bare(gone)
  <2>1. ASSUME NEW j \in Keys \ gone.held PROVE gone.draft[j] = "" /\ gone.newest[j] = 0
    <3>1. CASE j = Peer
      BY <1>7, <3>1
    <3>2. CASE j # Peer
      <4>1. j \in Keys \ {Peer, Renamed} /\ j \in Keys \ held
        BY <1>2, <1>7, <3>2
      <4>2. draft[j] = "" /\ newest[j] = 0
        BY <4>1, DeskParts
      <4>3. QED BY <1>7, <4>1, <4>2
    <3>3. QED BY <3>1, <3>2
  <2>2. ASSUME NEW j \in Keys PROVE gone.read[j] <= gone.marked[j]
    <3>1. CASE j = Peer
      <4>1. gone.read[j] = 0 /\ gone.marked[j] = 0
        BY <1>7, <3>1
      <4>2. QED BY <4>1
    <3>2. CASE j = Renamed
      BY <1>4, <1>7, <3>2
    <3>3. CASE j # Peer /\ j # Renamed
      <4>1. read[j] <= marked[j] /\ j \in Keys \ {Peer, Renamed}
        BY <3>3, DeskParts
      <4>2. QED BY <1>7, <4>1
    <3>4. QED BY <3>1, <3>2, <3>3
  <2>3. QED BY <2>1, <2>2 DEF Bare
<1>11. Pins(gone)
  <2>1. ASSUME NEW p \in Popouts, gone.win[p].open PROVE gone.win[p].pinned \in gone.held \/ gone.win[p].orphan
    <3>1. p \in Windows /\ win[p].open
      BY <1>2, <1>8, <2>1
    <3>2. win[p].pinned \in held \/ win[p].orphan
      BY <1>2, <3>1, DeskIs DEF Pins
    <3>3. /\ gone.win[p].pinned = IF win[p].pinned = Peer THEN Renamed ELSE win[p].pinned
          /\ gone.win[p].orphan = win[p].orphan /\ gone.held = (held \cup {Renamed}) \ {Peer}
      BY <1>7, <1>8, <3>1
    <3>4. QED BY <1>2, <3>2, <3>3
  <2>2. QED BY <2>1 DEF Pins
<1>12. ws \in SUBSET Windows /\ \A w \in Windows : w \in ws <=> win[w].active = Peer
  BY <1>2, Before, KeysAre DEF Showing, ShowingIn, OpenWindows
<1> HIDE DEF ws
<1>13. ASSUME NEW w \in Windows \ ws PROVE Drawn(gone, w)
  <2>1. SUFFICES ASSUME NEW j \in Keys, gone.win[w].active = j, ~gone.win[w].late
                 PROVE  gone.win[w].drawn = gone.newest[j] /\ (gone.win[w].focus => gone.marked[j] >= gone.newest[j])
    BY DEF Drawn
  <2>2. win[w].active = j /\ ~win[w].late /\ j \in Keys \ {Peer, Renamed}
    BY <1>8, <1>12, <2>1
  <2>3. win[w].drawn = newest[j] /\ (win[w].focus => marked[j] >= newest[j])
    BY <1>2, <2>2, DeskIs DEF Drawn
  <2>4. QED BY <1>7, <1>8, <2>2, <2>3
<1>14. /\ DeskOK(r) /\ r.held = gone.held /\ r.draft = gone.draft /\ r.posted = gone.posted
       /\ \A w \in Windows : r.win[w].active = gone.win[w].active /\ r.win[w].text = gone.win[w].text
                             /\ r.win[w].open = gone.win[w].open
  BY <1>6, <1>9, <1>10, <1>11, <1>12, <1>13, RenderIs
<1> HIDE DEF r
<1>15. wk \in [Keys -> Lines] /\ wk[Renamed] = work[Peer] /\ \A j \in Keys \ {Peer, Renamed} : wk[j] = work[j]
  <2>1. "" \in Lines /\ work[Peer] \in Lines
    BY <1>2 DEF Lines, Typed
  <2>2. QED BY <1>2, <2>1
<1> HIDE DEF wk
<1>16. ASSUME NEW j \in r.held \ ex PROVE Agrees(r, j, wk[j])
  <2>1. j \in Keys /\ j # Peer /\ j \in held \cup {Renamed} /\ j \notin ex
    BY ZenonT(40), <1>2, <1>7, <1>14, <1>16
  <2>2. CASE j # Renamed
    <3>1. j \in Keys \ {Peer, Renamed} /\ j \in held \ excused
      BY <2>1, <2>2
    <3>2. Agrees(Desk, j, work[j])
      BY <3>1, Before
    <3>3. /\ posted[j] = draft[j] /\ ((\A w \in Windows : win[w].active # j) => draft[j] = work[j])
          /\ \A w \in Windows : win[w].active = j => win[w].text = work[j]
      BY <3>2, DeskIs DEF Agrees
    <3>4. \A w \in Windows : (r.win[w].active = j <=> win[w].active = j) /\ r.win[w].text = win[w].text
      BY ZenonT(40), <1>8, <1>14, <3>1
    <3>5. r.posted[j] = posted[j] /\ r.draft[j] = draft[j] /\ wk[j] = work[j]
      BY <1>7, <1>14, <1>15, <3>1
    <3>6. QED BY <3>3, <3>4, <3>5 DEF Agrees
  <2>3. CASE j = Renamed
    <3>1. Peer \notin excused /\ Renamed \notin held /\ posted[Renamed] = "" /\ Showing(Renamed) = {}
      BY <2>1, <2>3
    <3>2. draft[Renamed] = "" /\ \A w \in Windows : win[w].active # Renamed
      <4>1. draft[Renamed] = ""
        BY <1>2, <3>1, DeskParts
      <4>2. \A w \in Windows : win[w].active = Renamed => w \in Showing(Renamed)
        BY <1>2, Before, KeysAre DEF Showing, ShowingIn, OpenWindows
      <4>3. QED BY <3>1, <4>1, <4>2
    <3>3. Agrees(Desk, Peer, work[Peer])
      BY <1>1, <3>1, Before
    <3>4. /\ posted[Peer] = draft[Peer] /\ ((\A w \in Windows : win[w].active # Peer) => draft[Peer] = work[Peer])
          /\ \A w \in Windows : win[w].active = Peer => win[w].text = work[Peer]
      BY <3>3, DeskIs DEF Agrees
    <3>5. dr = draft[Peer] /\ po = draft[Peer]
      BY <3>1, <3>2, <3>4 DEF dr, po
    <3>6. \A w \in Windows : (r.win[w].active = j <=> win[w].active = Peer) /\ r.win[w].text = win[w].text
      BY ZenonT(40), <1>2, <1>8, <1>14, <2>3, <3>2
    <3>7. r.posted[j] = draft[Peer] /\ r.draft[j] = draft[Peer] /\ wk[j] = work[Peer]
      BY <1>7, <1>14, <1>15, <2>3, <3>5
    <3>8. QED BY <3>4, <3>6, <3>7 DEF Agrees
  <2>4. QED BY <2>2, <2>3
<1>17. ex \in SUBSET Keys
  BY <1>2
<1> HIDE DEF ex
<1>18. Control' /\ running' = running
  BY <1>2, FrameKeepsControl DEF RenamedFrame
<1>19. r.win[Main].open
  BY <1>8, <1>14, Before DEF Windows
<1>20. posted' = [posted EXCEPT ![Renamed] = IF posted[Peer] # "" THEN posted[Peer] ELSE @, ![Peer] = ""]
  <2>1. posted' = gone.posted /\ gone.posted \in [Keys -> Lines]
    BY <1>1, <1>6, <1>14 DEF Becomes, Desks
  <2>2. gone.posted[Peer] = "" /\ gone.posted[Renamed] = po
    BY <1>7
  <2>3. posted \in [Keys -> Lines] /\ \A j \in Keys \ {Peer, Renamed} : gone.posted[j] = posted[j]
    BY <1>7, Before
  <2>4. QED BY <1>2, <2>1, <2>2, <2>3 DEF po
<1>21. WindowsInv'
  BY <1>1, <1>14, <1>15, <1>16, <1>17, <1>18, <1>19, StepOK
<1>22. QED BY <1>20, <1>21

\* The connection goes and comes back: the windows stay as they are.
LEMMA SocketOK == ASSUME WindowsInv, SocketLost \/ SocketBack, running PROVE WindowsInv'
<1>1. /\ Becomes(Desk, work, excused) /\ (Move \/ moves' = moves) /\ running' = running /\ split' = split
      /\ connected' \in BOOLEAN /\ (complete' = FALSE \/ complete' = complete)
  BY DEF SocketLost, SocketBack, story
<1>2. Control'
  BY <1>1, Before, ControlKept DEF Control
<1>3. Desk.win[Main].open /\ \A k \in Desk.held \ excused : Agrees(Desk, k, work[k])
  BY Before, DeskIs
<1>4. QED BY <1>1, <1>2, <1>3, Before, StepOK

\* After the burst the main window shows a conversation.
LEMMA BurstDoneOK == ASSUME WindowsInv, BurstDone, running PROVE WindowsInv'
<1>1. UNCHANGED <<connected, running, story>> /\ complete' = TRUE
  BY DEF BurstDone
<1>2. Control' /\ running' = running
  BY <1>1, Before, ControlKept DEF Control, story
<1>3. CASE Becomes(Desk, work, excused)
  <2>1. Desk.win[Main].open /\ \A k \in Desk.held \ excused : Agrees(Desk, k, work[k])
    BY Before, DeskIs
  <2>2. QED BY <1>2, <1>3, <2>1, Before, StepOK
<1>4. ASSUME NEW k \in SelectFirst, Becomes(Activate(Desk, Main, k), work, excused) PROVE WindowsInv'
  <2> DEFINE a == Activate(Desk, Main, k)
  <2>1. k \in Keys /\ Main \in Windows /\ Desk.win[Main].open
    BY Before, DeskIs, KeysAre DEF SelectFirst, Windows
  <2>2. /\ DeskOK(a) /\ a.held = held /\ \A v \in Windows : a.win[v].open = win[v].open
        /\ \A j \in held, t \in Lines : Agrees(Desk, j, t) /\ Alone(a, j) => Agrees(a, j, t)
    BY <2>1, Before, DeskIs, ActivateIs
  <2>3. Becomes(a, work, excused)
    BY <1>4
  <2> HIDE DEF a
  <2>4. \A j \in a.held \ excused : Alone(a, j) => Agrees(a, j, work[j])
    BY <2>2, Before
  <2>5. a.win[Main].open
    BY <2>1, <2>2, DeskIs
  <2>6. QED BY <1>2, <2>2, <2>3, <2>4, <2>5, Before, StepOK
<1>5. Becomes(Desk, work, excused) \/ \E k \in SelectFirst : Becomes(Activate(Desk, Main, k), work, excused)
  BY DEF BurstDone
<1>6. QED BY <1>3, <1>4, <1>5

\* The application ends: the windows save what they show, whoever hears of it.
LEMMA QuitOK == ASSUME WindowsInv, Quit PROVE WindowsInv'
<1> DEFINE c == Detach(Desk, OpenWindows(win))
<1>1. /\ Becomes(c, work, excused)
      /\ running' = FALSE /\ UNCHANGED <<complete, connected, story>>
  BY DEF Quit
<1>2. OpenWindows(win) \in SUBSET Windows
  BY DEF OpenWindows
<1>3. DeskOK(c)
  BY <1>2, Before, DetachIs
<1> HIDE DEF c
<1>4. Control' /\ ~running'
  BY <1>1, Before, ControlKept DEF Control, story
<1>5. QED BY <1>1, <1>3, <1>4, Before, StepOK

\* The server takes a draft: nothing changes here.
LEMMA DeliverOK == ASSUME WindowsInv, NEW k \in Keys, Deliver(k), running PROVE WindowsInv'
<1>1. Becomes(Desk, work, excused) /\ Move /\ UNCHANGED <<link, split>>
  BY DEF Deliver
<1>2. Control' /\ running' = running
  BY <1>1, Before, FrameKeepsControl
<1>3. Desk.win[Main].open /\ \A j \in Desk.held \ excused : Agrees(Desk, j, work[j])
  BY Before, DeskIs
<1>4. QED BY <1>1, <1>2, <1>3, Before, StepOK

--------------------------------------------------------------------------------
(* The theorems *)

\* At the start there is one window, which shows nothing.
LEMMA InitOK == ASSUME Init PROVE WindowsInv
<1>1. /\ "" \in Lines /\ 0 \in 0..MaxRows /\ 0 \in 0..MaxRecall /\ 0 \in 0..MaxMoves
  <2>1. "" \in Lines
    BY DEF Lines, Typed
  <2>2. MaxRows \in Nat /\ MaxRecall \in Nat /\ MaxMoves \in Nat
    BY WindowsAssumption
  <2>3. 0 \in 0..MaxRows /\ 0 \in 0..MaxRecall /\ 0 \in 0..MaxMoves
    BY <2>2
  <2>4. QED BY <2>1, <2>3
<1> DEFINE open == [NewWindow EXCEPT !.open = TRUE]
<1>2. /\ open \in WindowTypes /\ open.open /\ open.active = None /\ ~open.focus /\ ~open.armed
  BY NewWindowIs DEF WindowTypes
<1>3. /\ Main \in Windows /\ Main \notin Popouts /\ Popouts \subseteq Windows
      /\ win = [w \in Windows |-> IF w = Main THEN open ELSE NewWindow]
  BY WindowsAssumption DEF Windows, Init
<1> HIDE DEF open
<1>4. /\ win \in [Windows -> WindowTypes] /\ win[Main].open /\ \A p \in Popouts : ~win[p].open
      /\ \A w \in Windows : win[w].active = None /\ ~win[w].focus /\ ~win[w].armed
  BY <1>2, <1>3, NewWindowIs
<1>5. /\ held = {Channel, Peer} /\ held \subseteq Keys
      /\ draft = [k \in Keys |-> ""] /\ posted = [k \in Keys |-> ""] /\ work = [k \in Keys |-> ""]
      /\ recalls = [k \in Keys |-> 0] /\ newest = [k \in Keys |-> 0]
      /\ read = [k \in Keys |-> 0] /\ marked = [k \in Keys |-> 0] /\ excused = {}
  BY DEF Init, Keys
<1>6. Desk \in Desks
  <2>1. /\ held \in SUBSET Keys /\ draft \in [Keys -> Lines] /\ recalls \in [Keys -> 0..MaxRecall]
        /\ newest \in [Keys -> 0..MaxRows] /\ read \in [Keys -> 0..MaxRows] /\ posted \in [Keys -> Lines]
        /\ marked \in [Keys -> 0..MaxRows]
    BY <1>1, <1>5
  <2>2. QED BY <1>4, <2>1 DEF Desks, Desk
<1>7. Tidy(Desk)
  BY <1>4, DeskIs DEF Tidy
<1>8. Bare(Desk)
  <2>1. \A k \in Keys : draft[k] = "" /\ newest[k] = 0 /\ read[k] = 0 /\ marked[k] = 0
    BY <1>5
  <2>2. \A k \in Keys : Desk.draft[k] = "" /\ Desk.newest[k] = 0
    BY <2>1, DeskIs
  <2>3. \A k \in Keys : Desk.read[k] <= Desk.marked[k]
    <3>1. ASSUME NEW k \in Keys PROVE read[k] <= marked[k]
      <4>1. read[k] = 0 /\ marked[k] = 0
        BY <2>1
      <4>2. QED BY <4>1
    <3>2. QED BY <3>1, DeskIs
  <2>4. QED BY <2>2, <2>3 DEF Bare
<1>9. Pins(Desk) /\ (\A w \in Windows : Drawn(Desk, w)) /\ \A k \in Keys : Alone(Desk, k)
  <2>1. \A w \in Windows : Desk.win[w].active \notin Keys
    BY <1>4, DeskIs, KeysAre
  <2>2. Pins(Desk)
    BY <1>4, DeskIs DEF Pins
  <2>3. QED BY <2>1, <2>2 DEF Drawn, Alone
<1>10. \A k \in held : Agrees(Desk, k, work[k])
  <2>1. ASSUME NEW k \in held PROVE Agrees(Desk, k, work[k])
    <3>1. k \in Keys /\ draft[k] = "" /\ posted[k] = "" /\ work[k] = ""
      BY <1>5
    <3>2. \A w \in Windows : win[w].active # k
      BY <1>4, <3>1, KeysAre
    <3>3. QED BY <3>1, <3>2, DeskIs DEF Agrees
  <2>2. QED BY <2>1
<1>11. Control
  BY <1>1 DEF Init, Control
<1>12. work \in [Keys -> Lines]
  BY <1>1, <1>5
<1>13. DeskOK(Desk)
  BY <1>6, <1>7, <1>8, <1>9 DEF DeskOK
<1>14. QED BY <1>4, <1>5, <1>9, <1>10, <1>11, <1>12, <1>13 DEF WindowsInv

\* Every step keeps it.
LEMMA NextOK == ASSUME WindowsInv, [Next]_vars PROVE WindowsInv'
<1>1. CASE UNCHANGED vars
  <2>1. /\ Desk' = Desk /\ excused' = excused /\ work' = work /\ running' = running /\ held' = held
        /\ win' = win /\ connected' = connected /\ complete' = complete /\ split' = split /\ moves' = moves
    BY <1>1 DEF vars, server, link, story, Desk
  <2>2. Control'
    BY <2>1 DEF WindowsInv, Control
  <2>3. DeskOK(Desk') /\ (\A k \in Keys \ excused' : Alone(Desk', k))
    BY <2>1 DEF WindowsInv
  <2>4. running' => \A k \in held' \ excused' : Agrees(Desk', k, work'[k])
    BY <2>1 DEF WindowsInv
  <2>5. excused' \subseteq Keys /\ work' \in [Keys -> Lines] /\ (running' => win'[Main].open)
    BY <2>1 DEF WindowsInv
  <2> HIDE DEF Desk, DeskOK, Agrees, Alone, Control
  <2>6. QED BY <2>2, <2>3, <2>4, <2>5, Zenon DEF WindowsInv
<1>2. CASE Next
  <2>1. running
    BY <1>2 DEF Next
  <2>2. ASSUME NEW w \in Windows, User(w) PROVE WindowsInv'
    <3>1. CASE Focus(w)
      BY <2>1, <3>1, FocusOK
    <3>2. CASE Blur(w)
      BY <2>1, <3>2, BlurOK
    <3>3. CASE Refuse(w)
      BY <2>1, <3>3, RefuseOK
    <3>4. CASE Submit(w)
      BY <2>1, <3>4, SubmitOK
    <3>5. CASE ClosePopout(w)
      BY <2>1, <3>5, ClosePopoutOK
    <3>6. CASE \E text \in Typed : Type(w, text)
      BY <2>1, <3>6, TypeOKs
    <3>7. CASE \E up \in BOOLEAN : Recall(w, up)
      BY <2>1, <3>7, RecallOK
    <3>8. CASE \E k \in Keys : SwitchTo(w, k) \/ PopOut(w, k)
      BY <2>1, <3>8, SwitchToOK, PopOutOK
    <3>9. QED BY <2>2, <3>1, <3>2, <3>3, <3>4, <3>5, <3>6, <3>7, <3>8, Zenon DEF User
  <2>3. ASSUME NEW k \in Keys, Frame(k) PROVE WindowsInv'
    <3>1. CASE NewRow(k)
      BY <2>1, <3>1, NewRowOK
    <3>2. CASE ReadFrame(k)
      BY <2>1, <3>2, ReadFrameOK
    <3>3. CASE RecallsFrame(k)
      BY <2>1, <3>3, RecallsFrameOK
    <3>4. CASE OpenedFrame(k)
      BY <2>1, <3>4, OpenedFrameOK
    <3>5. CASE ClosedFrame(k)
      BY <2>1, <3>5, ClosedFrameOK
    <3>6. CASE \E text \in Drafts : DraftFrame(k, text)
      BY <2>1, <3>6, DraftFrameOK
    <3>7. QED BY <2>3, <3>1, <3>2, <3>3, <3>4, <3>5, <3>6, Zenon DEF Frame
  <2>4. CASE RenamedFrame
    BY <2>1, <2>4, RenamedFrameOK
  <2>5. CASE SocketLost \/ SocketBack \/ \E k \in Keys : Deliver(k)
    BY <2>1, <2>5, SocketOK, DeliverOK
  <2>6. CASE BurstDone
    BY <2>1, <2>6, BurstDoneOK
  <2>7. CASE Quit
    BY <2>7, QuitOK
  <2>8. QED BY <1>2, <2>2, <2>3, <2>4, <2>5, <2>6, <2>7, Zenon DEF Next
<1>3. QED BY <1>1, <1>2

\* A step that queues what it says keeps the server's drafts known.
LEMMA QueuesOK ==
  ASSUME WireInv, Queues
  PROVE  WireInv'
<1> DEFINE told == {k \in Keys : posted'[k] # posted[k]}
<1>1. flight' = flight \cup told /\ missed' = missed \ told /\ kept' = kept
  BY DEF Queues
<1>2. ASSUME NEW k \in Keys \ (flight' \cup missed') PROVE kept'[k] = posted'[k]
  <2>1. k \notin told /\ k \notin flight \cup missed
    BY <1>1, <1>2
  <2>2. posted'[k] = posted[k] /\ kept[k] = posted[k]
    BY <2>1 DEF WireInv
  <2>3. QED BY <1>1, <2>2
<1>3. QED BY <1>1, <1>2 DEF WireInv

\* So does one that changes no draft, whether it delivers a verb or loses some.
LEMMA NothingSaid ==
  ASSUME WireInv, posted' = posted, posted \in [Keys -> Lines],
         \/ /\ \E k \in flight : flight' = flight \ {k} /\ kept' = [kept EXCEPT ![k] = posted[k]]
            /\ missed' = missed
         \/ /\ \E gone \in SUBSET flight : flight' = flight \ gone /\ missed' = missed \cup gone
            /\ kept' = kept
  PROVE  WireInv'
<1>1. CASE /\ \E k \in flight : flight' = flight \ {k} /\ kept' = [kept EXCEPT ![k] = posted[k]]
           /\ missed' = missed
  <2>1. PICK k \in flight : flight' = flight \ {k} /\ kept' = [kept EXCEPT ![k] = posted[k]]
    BY <1>1
  <2>2. k \in Keys /\ kept' \in [Keys -> Lines] /\ kept'[k] = posted[k]
        /\ \A j \in Keys \ {k} : kept'[j] = kept[j]
    BY <2>1 DEF WireInv
  <2>3. QED BY <1>1, <2>1, <2>2 DEF WireInv
<1>2. CASE /\ \E gone \in SUBSET flight : flight' = flight \ gone /\ missed' = missed \cup gone
           /\ kept' = kept
  BY <1>2 DEF WireInv
<1>3. QED BY <1>1, <1>2

\* The draft of another device is the server's.
LEMMA DraftFrameWire ==
  ASSUME WindowsInv, WireInv, NEW k \in Keys, NEW text \in Drafts, DraftFrame(k, text)
  PROVE  WireInv'
<1>1. /\ posted' = [posted EXCEPT ![k] = IF k \in flight THEN @ ELSE text]
      /\ kept' = [kept EXCEPT ![k] = text] /\ missed' = missed \ {k} /\ flight' = flight
  BY DeskIs, Before DEF DraftFrame, Becomes, Desk
<1>2. text \in Lines /\ posted \in [Keys -> Lines]
  BY Before DEF Lines, Typed, Drafts
<1>3. ASSUME NEW j \in Keys \ (flight' \cup missed') PROVE kept'[j] = posted'[j]
  <2>1. CASE j = k
    BY <1>1, <1>2, <1>3, <2>1 DEF WireInv
  <2>2. CASE j # k
    BY <1>1, <1>2, <1>3, <2>2 DEF WireInv
  <2>3. QED BY <2>1, <2>2
<1>4. QED BY <1>1, <1>2, <1>3 DEF WireInv

\* The drafts move with their conversation, there as here.
LEMMA RenamedFrameWire ==
  ASSUME WindowsInv, WireInv, RenamedFrame, running
  PROVE  WireInv'
<1>1. /\ posted' = [posted EXCEPT ![Renamed] = IF posted[Peer] # "" THEN posted[Peer] ELSE @, ![Peer] = ""]
      /\ posted \in [Keys -> Lines]
  BY RenamedFrameOK, Before
<1>2. /\ kept' = [kept EXCEPT ![Renamed] = IF kept[Peer] # "" THEN kept[Peer] ELSE @, ![Peer] = ""]
      /\ flight' = flight \ {Peer, Renamed}
      /\ missed' = (missed \ {Peer}) \cup {k \in {Renamed} : {Peer, Renamed} \cap (flight \cup missed) # {}}
  BY Zenon DEF RenamedFrame
<1>3. Peer \in Keys /\ Renamed \in Keys /\ Peer # Renamed /\ "" \in Lines
  BY KeysAre DEF Keys, Lines, Typed
<1>4. kept' \in [Keys -> Lines] /\ flight' \subseteq Keys /\ missed' \subseteq Keys
  BY <1>2, <1>3 DEF WireInv
<1>5. ASSUME NEW j \in Keys \ (flight' \cup missed') PROVE kept'[j] = posted'[j]
  <2>1. CASE j = Peer
    BY <1>1, <1>2, <1>3, <2>1 DEF WireInv
  <2>2. CASE j = Renamed
    <3>1. Peer \notin flight \cup missed /\ Renamed \notin flight \cup missed
      BY <1>2, <1>5, <2>2
    <3>2. kept[Peer] = posted[Peer] /\ kept[Renamed] = posted[Renamed]
      BY <1>3, <3>1 DEF WireInv
    <3>3. QED BY <1>1, <1>2, <1>3, <2>2, <3>2 DEF WireInv
  <2>3. CASE j \notin {Peer, Renamed}
    <3>1. j \notin flight \cup missed
      BY <1>2, <1>5, <2>3
    <3>2. kept[j] = posted[j]
      BY <1>5, <3>1 DEF WireInv
    <3>3. QED BY <1>1, <1>2, <2>3, <3>2 DEF WireInv
  <2>4. QED BY <2>1, <2>2, <2>3
<1>6. QED BY <1>4, <1>5 DEF WireInv

\* Every step keeps what is known of the server's drafts.
LEMMA NextWire == ASSUME WindowsInv, WireInv, [Next]_vars PROVE WireInv'
<1>1. CASE UNCHANGED vars
  BY <1>1 DEF vars, server, wire, WireInv
<1>2. CASE Next
  <2>1. running /\ posted \in [Keys -> Lines]
    BY <1>2, Before DEF Next
  <2>2. ASSUME NEW w \in Windows, User(w) PROVE Queues
    BY <2>2, Zenon DEF User, Focus, Blur, Refuse, Submit, ClosePopout, Type, Recall, SwitchTo, PopOut
  <2>3. ASSUME NEW k \in Keys, Frame(k) PROVE WireInv'
    <3>1. CASE \E text \in Drafts : DraftFrame(k, text)
      BY <3>1, DraftFrameWire
    <3>2. CASE NewRow(k) \/ ReadFrame(k) \/ RecallsFrame(k) \/ OpenedFrame(k) \/ ClosedFrame(k)
      <4>1. Queues
        BY <3>2, Zenon DEF NewRow, ReadFrame, RecallsFrame, OpenedFrame, ClosedFrame
      <4>2. QED BY <4>1, QueuesOK
    <3>3. QED BY <2>3, <3>1, <3>2, Zenon DEF Frame
  <2>4. CASE RenamedFrame
    BY <2>1, <2>4, RenamedFrameWire
  <2>5. CASE \E k \in Keys : Deliver(k)
    <3>1. /\ \E k \in flight : flight' = flight \ {k} /\ kept' = [kept EXCEPT ![k] = posted[k]]
          /\ missed' = missed /\ posted' = posted
      BY <2>5, DeskIs DEF Deliver, Becomes
    <3>2. QED BY <2>1, <3>1, NothingSaid
  <2>6. CASE SocketLost
    <3>1. /\ \E gone \in SUBSET flight : flight' = flight \ gone /\ missed' = missed \cup gone
          /\ kept' = kept /\ posted' = posted
      BY <2>6, DeskIs DEF SocketLost, Becomes
    <3>2. QED BY <2>1, <3>1, NothingSaid
  <2>7. CASE SocketBack \/ BurstDone \/ Quit
    <3>1. Queues
      BY <2>7, Zenon DEF SocketBack, BurstDone, Quit
    <3>2. QED BY <3>1, QueuesOK
  <2>8. QED BY <1>2, <2>2, <2>3, <2>4, <2>5, <2>6, <2>7, QueuesOK, Zenon DEF Next
<1>3. QED BY <1>1, <1>2

\* The invariants hold in every state.
LEMMA WindowsHold == Spec => [](WindowsInv /\ WireInv)
<1>1. Init => WindowsInv /\ WireInv
  <2>1. ASSUME Init PROVE WireInv
    BY <2>1 DEF Init, WireInv, Lines, Typed
  <2>2. QED BY <2>1, InitOK
<1>2. WindowsInv /\ WireInv /\ [Next]_vars => (WindowsInv /\ WireInv)'
  BY NextOK, NextWire
<1>3. QED BY <1>1, <1>2, PTL DEF Spec

\* Of the windows one at most has the focus.
LEMMA OneFocus == ASSUME WindowsInv PROVE Cardinality({w \in Windows : win[w].focus}) <= 1
<1> DEFINE F == {w \in Windows : win[w].focus}
<1>1. \A v, w \in F : v = w
  BY Before, DeskParts, DeskIs DEF Tidy
<1>2. CASE F = {}
  <2>1. Cardinality(F) = 0
    BY <1>2, FS_EmptySet
  <2>2. QED BY <2>1
<1>3. ASSUME NEW w \in F PROVE Cardinality(F) <= 1
  <2>1. F = {w}
    BY <1>1, <1>3
  <2>2. Cardinality(F) = 1
    BY <2>1, FS_Singleton
  <2>3. QED BY <2>2
<1>4. QED BY <1>2, <1>3

\* What the user wrote in a conversation and did not send is in the composer that
\* shows it, or in its draft (activate and save_draft, window.rs:2715, 5193), and
\* the server has that draft once it has heard of it, unless the verb was lost with
\* its connection: for any number of popouts, rows, lines and moves.
THEOREM TextIsKept == Spec => []ComposerAgrees
<1>1. ASSUME WindowsInv, WireInv PROVE ComposerAgrees
  <2>1. /\ Control /\ excused \subseteq Keys /\ work \in [Keys -> Lines]
        /\ held \subseteq Keys /\ win \in [Windows -> WindowTypes] /\ draft \in [Keys -> Lines]
        /\ recalls \in [Keys -> 0..MaxRecall] /\ newest \in [Keys -> 0..MaxRows]
        /\ read \in [Keys -> 0..MaxRows] /\ posted \in [Keys -> Lines] /\ marked \in [Keys -> 0..MaxRows]
        /\ Cardinality({w \in Windows : win[w].focus}) <= 1
    BY <1>1, Before, OneFocus
  <2>2. TypeOK
    BY <1>1, <2>1 DEF TypeOK, Control, WindowTypes, WireInv
  <2>3. ASSUME running, NEW k \in held \ excused
        PROVE  /\ k \notin flight \cup missed => kept[k] = draft[k]
               /\ Showing(k) = {} => draft[k] = work[k]
               /\ \A w \in Showing(k) : win[w].text = work[k]
    <3>1. Agrees(Desk, k, work[k]) /\ k # None
      BY <1>1, <2>1, <2>3, Before, KeysAre
    <3>2. /\ posted[k] = draft[k] /\ ((\A w \in Windows : win[w].active # k) => draft[k] = work[k])
          /\ \A w \in Windows : win[w].active = k => win[w].text = work[k]
      BY <3>1, DeskIs DEF Agrees
    <3>3. \A w \in Windows : win[w].active = k => w \in Showing(k)
      BY <1>1, <3>1, Before DEF Showing, ShowingIn, OpenWindows
    <3>4. Showing(k) \subseteq Windows /\ \A w \in Showing(k) : win[w].active = k
      BY DEF Showing, ShowingIn, OpenWindows
    <3>5. k \notin flight \cup missed => kept[k] = posted[k]
      BY <1>1, <2>1, <2>3 DEF WireInv
    <3>6. QED BY <3>2, <3>3, <3>4, <3>5
  <2>4. QED BY <2>2, <2>3 DEF ComposerAgrees
<1>2. QED BY <1>1, WindowsHold, PTL

\* A window draws the newest row of what it shows, the server knows it as read if
\* the window has the focus, and after the burst a popout has its conversation
\* (window.rs:1306, 1586, 1704).
THEOREM ShownAndRead == Spec => []ShownIsRead
<1>1. ASSUME WindowsInv PROVE ShownIsRead
  <2>1. \A p \in Popouts : win[p].open => win[p].pinned \in held \/ win[p].orphan
    BY <1>1, DeskParts, DeskIs DEF Pins
  <2>2. ASSUME NEW w \in OpenWindows(win), win[w].active \in held, ~win[w].late
        PROVE  /\ win[w].drawn = newest[win[w].active]
               /\ win[w].focus => marked[win[w].active] >= newest[win[w].active]
    <3>1. w \in Windows /\ win[w].active \in Keys
      BY <1>1, <2>2, Before DEF OpenWindows
    <3>2. QED BY <1>1, <2>2, <3>1, DeskParts, DeskIs DEF Drawn
  <2>3. QED BY <2>1, <2>2 DEF ShownIsRead
<1>2. QED BY <1>1, WindowsHold, PTL

\* A message is split only after the user was asked about this line and pressed
\* again (window.rs:209-212).
THEOREM SplitIsConfirmed == Spec => []SplitWasAsked
<1>1. WindowsInv => SplitWasAsked
  BY DEF WindowsInv, Control, SplitWasAsked
<1>2. QED BY <1>1, WindowsHold, PTL
================================================================================
