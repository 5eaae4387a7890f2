---------------------------------- MODULE Typing ----------------------------------
(***************************************************************************)
(* The composer's completion (scully input.rs, window.rs complete_nick,        *)
(* refresh_suggestion_strip): what Tab and the suggestion chips put into a      *)
(* line, and the cycle that a further Tab goes on with.                        *)
(*                                                                          *)
(* A line is a sequence of words and positions count words: every word is as   *)
(* wide as every other, and the cursor stands at the end of one.               *)
(***************************************************************************)
EXTENDS Integers, Sequences

CONSTANTS
  MaxWords,   \* bound: words of a line
  MaxKeys     \* bound: keys pressed, clicks, and what comes from the clipboard

ASSUME TypingAssumption == {MaxWords, MaxKeys} \subseteq Nat \ {0}

VARIABLES
  line,     \* the words
  at,       \* the one that the cursor is in
  cycle,    \* completion: where it began, the candidates, the current one
  chips,    \* chip_values: the candidates on the suggestion strip
  strayed,  \* history: line or cursor changed since, and the cycle was kept
  origin,    \* history: the line that the cycle began with, and the cursor in it
  shift,    \* whether Shift is held down
  keys

typingVars == <<line, at, cycle, chips, strayed, origin, shift, keys>>

Word(sigil, name, tail) == [sigil |-> sigil, name |-> name, tail |-> tail]
Blank == Word("", "", "")
Partial(sigil) == Word(sigil, "p", "")  \* the beginning of a name
Pasted == Word("", "pasted", "")
Recalled == <<Word("", "an", ""), Word("", "old", ""), Word("", "line", "")>>

Known == <<"ping", "part">>     \* commands
Channels == <<"pub", "pets">>     \* channels of the network
Names == <<"pia", "paul">>      \* whoever spoke last, then the members
NoCycle == [anchor |-> 0, values |-> <<>>, index |-> 0]

--------------------------------------------------------------------------------
(* input.rs *)

\* A slash counts in the first column only.
Kind(l, pos) == CASE l[pos].sigil = "/" /\ pos = 1 -> "Command"
                  [] l[pos].sigil = "#" -> "Channel"
                  [] OTHER -> "Nick"

\* completion_candidates: a bare slash may ask for every command, anything else
\* needs a beginning.
Asked(l, pos) == Kind(l, pos) = "Command" \/ l[pos] # Blank
Beginning(word, values) ==
  CASE word.tail = "" /\ word.name \in {"", "p"} -> values  \* all the names here begin so
    [] word.tail = "" /\ \E i \in DOMAIN values : values[i] = word.name -> <<word.name>>
    [] OTHER -> <<>>

Candidates(l, pos) ==
  CASE ~Asked(l, pos) -> <<>>
    [] Kind(l, pos) = "Command" -> Beginning(l[pos], Known)
    [] Kind(l, pos) = "Channel" -> Beginning(l[pos], Channels)
    [] OTHER -> IF l[pos].sigil = "" THEN Beginning(l[pos], Names) ELSE <<>>

Inserted(value, kind, anchor) ==
  CASE kind = "Command" -> Word("/", value, "")
    [] kind = "Channel" -> Word("#", value, "")
    [] OTHER -> Word(IF value \in {"pub", "pets"} THEN "#" ELSE "", value,
                     IF anchor = 1 THEN ":" ELSE "")

\* complete: what stands before the anchor, the value, and what follows the cursor
Before(l, anchor) == SubSeq(l, 1, IF anchor > Len(l) THEN Len(l) ELSE anchor - 1)
Complete(l, pos, anchor, value, kind) ==
  Before(l, anchor) \o <<Inserted(value, kind, anchor), Blank>> \o SubSeq(l, pos + 1, Len(l))

--------------------------------------------------------------------------------
(* The entry *)

\* connect_changed and activate refresh the strip; moving the cursor does not.
Changed(l, pos) == /\ line' = l /\ at' = pos
                   /\ chips' = Candidates(l, pos)

Press == keys < MaxKeys /\ keys' = keys + 1
Key == Press /\ UNCHANGED shift
Strays == strayed' = (cycle # NoCycle) /\ UNCHANGED origin
Drops == cycle' = NoCycle /\ strayed' = FALSE /\ origin' = [line |-> <<Blank>>, at |-> 1]

\* A letter: any other key ends a cycle.
Type(sigil) ==
  /\ Key /\ line[at] = Blank
  /\ Changed([line EXCEPT ![at] = Partial(sigil)], at)
  /\ Drops

Space ==
  /\ Key /\ Len(line) < MaxWords
  /\ Changed(SubSeq(line, 1, at) \o <<Blank>> \o SubSeq(line, at + 1, Len(line)), at + 1)
  /\ Drops

\* Shift is a key like any other: its press comes to the handler before the Tab.
PressShift ==
  /\ Press /\ ~shift /\ shift' = TRUE
  /\ Drops /\ UNCHANGED <<line, at, chips>>

ReleaseShift ==
  /\ shift /\ shift' = FALSE
  /\ UNCHANGED <<line, at, cycle, chips, strayed, origin, keys>>

Direction == IF shift THEN -1 ELSE 1

\* The next candidate, or the one before it, around the end
Turned(step) == ((cycle.index + step - 1) % Len(cycle.values)) + 1

\* mutant: the text after the word is looked for where the cycle began
CycleAtAnchor(step) ==
  /\ Key /\ cycle # NoCycle
  /\ cycle' = [cycle EXCEPT !.index = Turned(step)]
  /\ Changed(Complete(line, cycle.anchor, cycle.anchor, cycle.values[Turned(step)], Kind(line, at)),
             Len(Before(line, cycle.anchor)) + 2)
  /\ UNCHANGED <<strayed, origin>>

\* complete_nick: a cycle goes on where it began, with the kind of the word that
\* the cursor is in by now.
Cycle(step) ==
  /\ Key /\ cycle # NoCycle
  /\ cycle' = [cycle EXCEPT !.index = Turned(step)]
  /\ Changed(Complete(line, at, cycle.anchor, cycle.values[Turned(step)], Kind(line, at)),
             Len(Before(line, cycle.anchor)) + 2)
  /\ UNCHANGED <<strayed, origin>>

Start(step) ==
  LET values == Candidates(line, at)
      first == IF step > 0 THEN 1 ELSE Len(values)
  IN /\ Key /\ cycle = NoCycle /\ values # <<>>
     /\ cycle' = [anchor |-> at, values |-> values, index |-> first]
     /\ Changed(Complete(line, at, at, values[first], Kind(line, at)), at + 1)
     /\ strayed' = FALSE /\ origin' = [line |-> line, at |-> at]

\* There is nothing to complete.
Fruitless ==
  /\ Key /\ cycle = NoCycle /\ Candidates(line, at) = <<>>
  /\ UNCHANGED <<line, at, cycle, chips, strayed, origin>>

Tab == Start(Direction) \/ Cycle(Direction) \/ Fruitless

\* Up: a line of the history.  The cycle stays.
Recall ==
  /\ Key /\ Changed(Recalled, Len(Recalled))
  /\ Strays /\ UNCHANGED cycle

\* The middle button, the palette: so does it here.  Before Ctrl+V and the
\* formatting keys the press of Ctrl has ended it.
Paste ==
  /\ Key /\ line[at] = Blank
  /\ Changed([line EXCEPT ![at] = Pasted], at)
  /\ Drops \/ (Strays /\ UNCHANGED cycle)

\* And when the cursor is put somewhere else.
Click ==
  /\ Key /\ at' \in DOMAIN line \ {at}
  /\ Strays /\ UNCHANGED <<line, cycle, chips>>

\* A chip: its value, for the word that the cursor is in by now
Chip(i) ==
  /\ Key /\ i \in DOMAIN chips /\ Asked(line, at)
  /\ Changed(Complete(line, at, at, chips[i], Kind(line, at)), at + 1)
  /\ Strays /\ UNCHANGED cycle

\* The line is sent, or another conversation is shown.
Leave ==
  /\ line # <<Blank>> /\ Key
  /\ Changed(<<Blank>>, 1)
  /\ Drops

TypingInit ==
  /\ line = <<Blank>> /\ at = 1 /\ cycle = NoCycle /\ chips = <<>>
  /\ strayed = FALSE /\ origin = [line |-> <<Blank>>, at |-> 1] /\ keys = 0
  /\ shift = FALSE

TypingNext ==
  \/ Space \/ Recall \/ Paste \/ Click \/ Leave
  \/ \E sigil \in {"", "/", "#"} : Type(sigil)
  \/ PressShift \/ ReleaseShift \/ Tab
  \/ \E i \in DOMAIN chips : Chip(i)

--------------------------------------------------------------------------------
(* Properties *)

\* One Tab more replaces the candidate and nothing else: the line is the one
\* that the cycle began with, completed once with the current candidate.
Laps == Complete(origin.line, origin.at, cycle.anchor, cycle.values[cycle.index],
                 Kind(origin.line, origin.at))

\* However often Tab is pressed, the line is what the first Tab would have made
\* of it with the current candidate: nothing before the word or after the cursor
\* is lost or left over, as long as the line was not changed while the cycle was
\* kept (complete_nick, window.rs:5288).  A cycle goes one way, or turns forward
\* when Shift is released: pressing Shift ends it.  A command and a channel in
\* the first column are left out: their second Tab writes a nick that is
\* addressed, though "cycling must keep completing the same category the cycle
\* started in" (window.rs:5292).
TabAgrees ==
  /\ at \in DOMAIN line /\ cycle.index \in DOMAIN cycle.values \cup {0}
  /\ cycle # NoCycle /\ ~strayed =>
       \/ line = Laps
       \/ origin.at = 1 /\ Kind(origin.line, 1) # "Nick"
================================================================================
