--------------------------------- MODULE Display ---------------------------------
(***************************************************************************)
(* What a window draws of its conversation (scully window.rs render_active,     *)
(* format.rs; lurker-proto consolidate.rs, event.rs): the rows that pass the    *)
(* filter, runs of presence noise folded into one line, and the fast path that  *)
(* appends new lines to what is drawn instead of drawing everything again.      *)
(*                                                                          *)
(* The rows are the numbers of what happened in the channel, which are their   *)
(* times too.                                                                *)
(***************************************************************************)
EXTENDS Naturals, Sequences, FiniteSets, FiniteSetsExt, SequencesExt

CONSTANTS
  People,    \* whoever is ever in the channel
  Me,        \* one of them
  Spares,    \* nicks that people can change to, beside their names
  Capacity,  \* RING_CAPACITY
  MaxNames,  \* chat.consolidate_max_names
  Delay,     \* chat.smart_filter_delay
  Unmask,    \* chat.smart_filter_join_unmask
  MaxTurns   \* bound: things that happen, pages fetched, settings changed, conversations opened

ASSUME DisplayAssumption ==
  /\ Me \in People /\ People \cap Spares = {}
  /\ {Capacity, MaxNames} \subseteq Nat \ {0} /\ {Delay, Unmask, MaxTurns} \subseteq Nat

VARIABLES
  log,      \* what has happened, each with the channel after it
  began,    \* the channel before it all
  from, upto,  \* the rows that the ring holds
  spoke,    \* last_spoke: of each nick, 0 for never
  mode,     \* the tier: all, smart, none
  folding,  \* chat.consolidate_events
  after,    \* divider_after: the read mark when the conversation was opened, 0 for none
  drawn,    \* the lines
  mark,     \* Drawn: how many rows that was, the first and the last
  looks

ring == <<from, upto, spoke>>
options == <<mode, folding>>
displayVars == <<log, began, ring, options, after, drawn, mark, looks>>

Nicks == People \cup Spares
Nobody == "nobody"

--------------------------------------------------------------------------------
(* The channel *)

World(i) == IF i = 0 THEN began ELSE log[i].world

\* What p can do in the channel w, and the channel after it (bound: one of the
\* people sets modes, the others change hosts)
Doings(w, p) ==
  LET event(type, new, v) == [type |-> type, who |-> p, nick |-> w.nick[p], new |-> new, world |-> v]
  IN IF p \notin w.present THEN {event("join", Nobody, [w EXCEPT !.present = @ \cup {p}])}
     ELSE {event(t, Nobody, w) : t \in {"message", IF p = Me THEN "mode" ELSE "chghost"}}
       \cup {event("quit", Nobody, [w EXCEPT !.present = @ \ {p}])}
       \cup {event("nick", n, [w EXCEPT !.nick[p] = n]) : n \in Nicks \ {w.nick[q] : q \in People}}

IsSelf(e) == e.who = Me
IsChat(e) == e.type = "message"
IsConsolidatable(e) == e.type \in {"join", "quit", "nick", "chghost"}
IsNoise(e) == IsConsolidatable(e) \/ e.type = "mode"

--------------------------------------------------------------------------------
(* The filter.  What is drawn depends on v: the log, the rows held, who spoke,  *)
(* the settings and the read mark.                                            *)

\* Around those who spoke: within the delay before, or a join within the unmask
\* window after it.
NearSpeech(v, i) ==
  LET e == v.log[i]
      s == v.spoke[e.nick]
  IN /\ s # 0
     /\ \/ s <= i /\ i - s <= Delay
        \/ e.type = "join" /\ Unmask > 0 /\ s > i /\ s - i <= Unmask

\* One's own rows are told by the nick one has by now.
Passes(v, i) ==
  CASE v.mode = "all" -> TRUE
    [] v.mode = "none" -> ~IsNoise(v.log[i])
    [] OTHER -> ~IsConsolidatable(v.log[i]) \/ v.log[i].nick = v.own \/ NearSpeech(v, i)

--------------------------------------------------------------------------------
(* consolidate *)

\* A nick that is taken over is its old bearer's no longer.
Unnamed(order, n) ==
  [k \in DOMAIN order |-> IF order[k].key = n THEN [order[k] EXCEPT !.key = Nobody] ELSE order[k]]

Acted(order, n, shown, action) ==
  IF \A k \in DOMAIN order : order[k].key # n
  THEN Append(order, [original |-> n, display |-> shown, key |-> shown, actions |-> <<action>>])
  ELSE [k \in DOMAIN order |->
         IF order[k].key # n THEN order[k]
         ELSE [order[k] EXCEPT !.display = IF action = "R" THEN shown ELSE @,
                               !.key = shown, !.actions = Append(@, action)]]

ActionOf == [join |-> "J", quit |-> "L", nick |-> "R", chghost |-> "H"]

\* One event of a run, by identity; a rename takes the identity along.
Identified(order, e) ==
  IF e.type = "nick" THEN Acted(Unnamed(order, e.new), e.nick, e.new, "R")
  ELSE Acted(order, e.nick, e.nick, ActionOf[e.type])

Classify(actions) ==
  LET presence == SelectSeq(actions, LAMBDA a : a \in {"J", "L"}) IN
  IF presence = <<>>
  THEN IF \E k \in DOMAIN actions : actions[k] = "R" THEN "Renamed" ELSE "Rehosted"
  ELSE CASE presence[1] = "L" /\ Last(presence) = "J" -> "Reconnected"
         [] presence[1] = "L" /\ Last(presence) = "L" -> "Left"
         [] presence[1] = "J" /\ Last(presence) = "J" -> "Joined"
         [] OTHER -> "JoinedAndLeft"

\* cap: within a group recent speakers come first, then first come; entry k is
\* spelled out if fewer than MaxNames come before it.
Spelled(group, k, speech) ==
  LET recent(m) == speech[group[m].display] # 0
      before == {m \in DOMAIN group :
                  /\ group[m].outcome = group[k].outcome
                  /\ \/ recent(m) /\ ~recent(k)
                     \/ recent(m) = recent(k) /\ m < k}
  IN Cardinality(before) < MaxNames

ConsolidateRun(v, run) ==
  LET order[n \in 0..Len(run)] == IF n = 0 THEN <<>> ELSE Identified(order[n - 1], v.log[run[n]])
      all == order[Len(run)]
      group == [k \in DOMAIN all |-> [outcome |-> Classify(all[k].actions),
                                      display |-> all[k].display, original |-> all[k].original]]
  IN [says |-> {[outcome |-> group[k].outcome, name |-> group[k].display,
                 was |-> IF group[k].outcome = "Renamed" THEN group[k].original ELSE Nobody] :
                  k \in DOMAIN group},
      named |-> {group[k].display : k \in {m \in DOMAIN group : Spelled(group, m, v.spoke)}}]

\* Consecutive consolidatable events are a run; anything else stands alone.
RunsOf(v, events) ==
  LET noise == {k \in DOMAIN events : IsConsolidatable(v.log[events[k]])}
      starts == {k \in DOMAIN events : k = 1 \/ ~v.folding \/ k \notin noise \/ k - 1 \notin noise}
      at == SetToSortSeq(starts, <)
  IN [n \in DOMAIN at |-> SubSeq(events, at[n], IF n < Len(at) THEN at[n + 1] - 1 ELSE Len(events))]

\* The rows of the ring as they are to be drawn
Rows(v) ==
  RunsOf(v, SelectSeq([k \in 1..(v.upto + 1 - v.from) |-> v.from + k - 1], LAMBDA i : Passes(v, i)))

--------------------------------------------------------------------------------
(* Drawing *)

\* line_for: the style of a line follows what happened.
LineKind == [message |-> "message", mode |-> "mode", chghost |-> "mode", join |-> "join",
             quit |-> "leave", nick |-> "nickchange"]

Line(kind, rows, c) == [kind |-> kind, rows |-> rows, says |-> c.says, named |-> c.named]
Untold == [says |-> {}, named |-> {}]

LineFor(v, run) ==
  IF Len(run) = 1 THEN Line(LineKind[v.log[run[1]].type], run, Untold)
  ELSE Line("summary", run, ConsolidateRun(v, run))

Divider == Line("divider", <<>>, Untold)

\* Each row's line, the divider before the first row past the mark, if any
LinesOf(v, runs, pin) ==
  LET lines == [n \in DOMAIN runs |-> LineFor(v, runs[n])]
      past == {n \in DOMAIN runs : runs[n][1] > pin}
  IN IF pin = 0 \/ past = {} THEN lines ELSE InsertAt(lines, Min(past), Divider)

RowSig(run) == <<run[1], Last(run)>>
Undrawn == [len |-> 0, first |-> <<>>, last |-> <<>>]
MarkOf(runs) == IF runs = <<>> THEN Undrawn
                ELSE [len |-> Len(runs), first |-> RowSig(runs[1]), last |-> RowSig(Last(runs))]

\* mutant: more rows under the same head are new rows at the end
CanAppendLonger(runs, prev) ==
  prev.len > 0 /\ Len(runs) > prev.len /\ prev.first = RowSig(runs[1])

\* Same head, more rows, and the last row drawn still sits where it was
CanAppend(runs, prev) ==
  /\ prev.len > 0 /\ Len(runs) > prev.len
  /\ prev.first = RowSig(runs[1]) /\ prev.last = RowSig(runs[prev.len])

View == [log |-> log, from |-> from, upto |-> upto, spoke |-> spoke, mode |-> mode,
         folding |-> folding, own |-> World(upto).nick[Me]]

\* render_active, over the ring and the settings as they are by now
Render(prev) ==
  \E v \in {View'} : \E runs \in {Rows(v)} :
    /\ drawn' = IF CanAppend(runs, prev)
                THEN drawn \o LinesOf(v, SubSeq(runs, prev.len + 1, Len(runs)), 0)
                ELSE LinesOf(v, runs, after')
    /\ mark' = MarkOf(runs)

--------------------------------------------------------------------------------
(* Steps *)

\* insert_ordered: who spoke, when; rows come in any order of time
Heard(events, rows) ==
  [n \in Nicks |-> Max({spoke[n]} \cup
     {i \in rows : IsChat(events[i]) /\ ~IsSelf(events[i]) /\ events[i].nick = n})]

TurnLeft == Len(log) + looks < MaxTurns + 2

Happens == \E p \in People : \E e \in Doings(World(Len(log)), p) :
  TurnLeft /\ log' = Append(log, e)

\* Something happens while the client does not hear it.
Unheard ==
  /\ Happens
  /\ UNCHANGED <<began, ring, options, after, drawn, mark, looks>>

\* New rows: live, and with what was missed before it; the ring lets go of the
\* oldest.
Arrive ==
  /\ UNCHANGED log \/ Happens
  /\ upto < Len(log')
  /\ upto' = Len(log')
  /\ from' = Max({from, Len(log') + 1 - Capacity})
  /\ \E events \in {log'} : spoke' = Heard(events, (upto + 1)..Len(events))
  /\ UNCHANGED <<began, options, after, looks>>
  /\ Render(mark)

Look == TurnLeft /\ looks' = looks + 1 /\ UNCHANGED <<log, began, upto>>

\* A row of older history
Page ==
  /\ Look
  /\ from > 1 /\ upto + 1 - from < Capacity
  /\ from' = from - 1
  /\ spoke' = Heard(log, {from - 1})
  /\ UNCHANGED <<options, after>>
  /\ Render(mark)

\* SettingsChanged: what was drawn does not count any more.
Settings ==
  /\ Look
  /\ mode' \in {"all", "smart", "none"} /\ folding' \in BOOLEAN /\ options' # options
  /\ UNCHANGED <<from, spoke, after>>
  /\ Render(Undrawn)

\* activate: the divider is pinned where the reading had come to.
Open ==
  /\ Look
  /\ after' \in {r \in 0..(upto - 1) : r # after}
  /\ UNCHANGED <<from, spoke, options>>
  /\ Render(Undrawn)

\* Everybody is there, one has said something and another has changed hosts; the
\* ring has both, or will page the first.  Bound: the other tiers are reached by a
\* change of settings.
DisplayInit ==
  /\ began = [present |-> People, nick |-> [p \in People |-> p]]
  /\ \E p \in People \ {Me} : \E said \in Doings(began, Me), moved \in Doings(began, p) :
       said.type = "message" /\ moved.type = "chghost" /\ log = <<said, moved>>
  /\ from \in {1, 2} /\ upto = 2
  /\ spoke = [n \in Nicks |-> 0]
  /\ mode = "all" /\ folding \in BOOLEAN
  /\ after = 0 /\ looks = 0
  /\ drawn = LinesOf(View, Rows(View), 0) /\ mark = MarkOf(Rows(View))

DisplayNext == Unheard \/ Arrive \/ Page \/ Settings \/ Open

--------------------------------------------------------------------------------
(* Properties *)

DisplayTypeOK ==
  /\ Len(log) + looks <= MaxTurns + 2 /\ from \in Nat /\ upto \in 0..Len(log)
  /\ spoke \in [Nicks -> 0..Len(log)] /\ mode \in {"all", "smart", "none"} /\ folding \in BOOLEAN
  /\ after \in 0..Len(log) /\ looks \in Nat

Undivided(lines) == SelectSeq(lines, LAMBDA l : l.kind # "divider")
Bare(lines) == [n \in DOMAIN lines |-> [lines[n] EXCEPT !.named = {}]]

\* What became of p between the channels after rows i and j
Fate(p, run) ==
  LET mine == {i \in ToSet(run) : log[i].who = p}
      moved(t) == \E i \in mine : log[i].type \in t
      was == p \in World(run[1] - 1).present
      is == p \in World(Last(run)).present
  IN IF moved({"join", "quit"})
     THEN IF was THEN IF is THEN "Reconnected" ELSE "Left" ELSE IF is THEN "Joined" ELSE "JoinedAndLeft"
     ELSE IF moved({"nick"}) THEN "Renamed" ELSE "Rehosted"

\* A folded line tells what happened to everybody in it, whatever names they
\* went by: who was there before and is there after, under the nick they have
\* now; and nobody who had spoken is left out for somebody who never did.
FoldedTruly ==
  mode = "all" => \A n \in DOMAIN drawn : drawn[n].kind = "summary" =>
    LET line == drawn[n]
        touched == {log[i].who : i \in ToSet(line.rows)}
        now(p) == World(Last(line.rows)).nick[p]
    IN /\ line.says = {[outcome |-> Fate(p, line.rows), name |-> now(p),
                        was |-> IF Fate(p, line.rows) = "Renamed" THEN World(line.rows[1] - 1).nick[p]
                                ELSE Nobody] : p \in touched}
       /\ \A a, b \in line.says : a.outcome = b.outcome /\ a.name \in line.named =>
            \/ b.name \in line.named \/ spoke[a.name] # 0
            \/ ~\E i \in from..Last(line.rows) : IsChat(log[i]) /\ ~IsSelf(log[i]) /\ log[i].nick = b.name

\* What the fast path has put together, over any sequence of live rows, fills,
\* pages, trims and settings, is what drawing everything again would give, and
\* a divider that is drawn stands where it then would; except which names a
\* summary spells out, and in the smart tier, where who speaks decides over rows
\* drawn before (window.rs:2898).  And what is drawn is true.
ShownAgrees ==
  /\ DisplayTypeOK /\ FoldedTruly
  /\ mode # "smart" =>
       \E whole \in {LinesOf(View, Rows(View), after)} :
         /\ Bare(Undivided(drawn)) = Bare(Undivided(whole))
         /\ Undivided(drawn) = drawn \/ Bare(drawn) = Bare(whole)
================================================================================
