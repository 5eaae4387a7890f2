------------------------------- MODULE ChannelModes -------------------------------
(***************************************************************************)
(* A channel's modes (scully commands.rs, channeldialog.rs, modelist.rs;         *)
(* lurker-proto isupport.rs; the ISUPPORT cache of lurker-client store.rs):      *)
(* commands that give a user a mode, where `q` means owner on one kind of        *)
(* server and quiet on another, and the dialog that asks for a list and picks   *)
(* its lines out of the network's log.                                        *)
(*                                                                          *)
(* The log's rows are numbered as the server writes them.  What the client      *)
(* sends for the network is one queue: the first of it has gone out, the rest    *)
(* is still the client's own, which outlives a connection.                     *)
(***************************************************************************)
EXTENDS Naturals, Sequences, SequencesExt, FiniteSets, FiniteSetsExt

CONSTANTS
  Masks,      \* of a list's entries
  Slice,      \* rows of the log that a slice carries, and the ring holds
  MaxLog,     \* bound: rows of the log
  MaxFirst,   \* bound: rows after which no network is connected anew
  MaxAsked    \* bound: lines sent

ASSUME ChannelModesAssumption ==
  /\ Masks # {} /\ IsFiniteSet(Masks) /\ {Slice, MaxLog, MaxFirst, MaxAsked} \subseteq Nat \ {0}

VARIABLES
  (* the IRC server, and the bouncer that keeps its journal *)
  q,        \* what mode q is there: owner or quiet
  lists,    \* the list of each letter
  journal,
  out,      \* lines on their way to it, the client's own last
  (* the client *)
  online,
  got,      \* the rows of the log that have come
  told,     \* history: the ones that came live or in the connect burst
  held,     \* how many of `out` the client queues until there is a connection
  known,    \* isupport: what q is by the last 005 line merged, or unseen
  dialog,
  asked     \* lines sent

serverVars == <<q, lists, journal, out>>
modesVars == <<serverVars, online, held, got, told, known, dialog, asked>>

Letters == {"b", "e"}
Row(kind, of, mask) == [kind |-> kind, of |-> of, mask |-> mask]
NoMask == "no mask"

Newest(ids) == IF ids = {} THEN 0 ELSE Max(ids)
LastOf(ids, n) == {i \in ids : Cardinality({j \in ids : j > i}) < n}

NoDialog == [open |-> FALSE, collecting |-> FALSE, after |-> 0, shown |-> <<>>,
             ask |-> 0,                      \* history: the last request
             since |-> 0, till |-> 0,        \* history: the rows looked through for it
             reply |-> {}]                   \* history: the rows that answer it

--------------------------------------------------------------------------------
(* commands.rs *)

\* A command gives one mode to a user (bound: these; each has one that takes the
\* mode, and the rest of the table gives its line whatever the network).
Given == [op |-> "o", owner |-> "q", ban |-> "b", quiet |-> "q"]
Commands == DOMAIN Given \cup {"kickban", "a command without its user"}

IrcLine(verb, letter) == [verb |-> verb, letter |-> letter]
\* What the table does not claim goes out as it is: no server knows such a verb.
Fallback(c) == <<IrcLine(c, "")>>

\* mutant: quiet is offered whatever the network's letters are
ToRawAlways(c, qIsOwner) ==
  CASE c = "kickban" -> <<IrcLine("MODE", "b"), IrcLine("KICK", "")>>
    [] c = "owner" /\ qIsOwner -> <<IrcLine("MODE", "q")>>
    [] c \in {"op", "ban", "quiet"} -> <<IrcLine("MODE", Given[c])>>
    [] OTHER -> Fallback(c)

\* to_raw, and the second line that run_command sends for a kickban
ToRaw(c, qIsOwner) ==
  CASE c = "kickban" -> <<IrcLine("MODE", "b"), IrcLine("KICK", "")>>
    [] c = "owner" /\ qIsOwner -> <<IrcLine("MODE", "q")>>
    [] c = "quiet" /\ ~qIsOwner -> <<IrcLine("MODE", "q")>>
    [] c \in {"op", "ban"} -> <<IrcLine("MODE", Given[c])>>
    [] OTHER -> Fallback(c)

\* What a line does to the user it names
Effects(line) ==
  CASE line.verb = "KICK" -> {"kick"}
    [] line.verb = "MODE" -> {IF line.letter = "q" THEN q
                              ELSE CHOOSE n \in DOMAIN Given : Given[n] = line.letter}
    [] OTHER -> {}

Named(c) == IF c = "kickban" THEN {"ban", "kick"} ELSE {c}

--------------------------------------------------------------------------------
(* The client *)

\* cache_isupport: the lines are merged in the order they come, later ones over
\* earlier ones.
Merged(ids) ==
  LET tokens == {i \in ids : journal[i].kind = "isupport"}
  IN IF tokens = {} THEN known ELSE journal[Newest(tokens)].of

\* The masks of rows, in the order of the log
InOrder(rows) ==
  [n \in 1..Cardinality(rows) |->
     journal[CHOOSE i \in rows : Cardinality({j \in rows : j < i}) = n - 1].mask]

\* mutant: rows that were looked through are so again with the next signal
ScanAgain(d, ids) ==
  LET new == {i \in ids : i > d.after}
      entries == {i \in new : journal[i].kind = "entry"}
  IN IF ~d.open \/ ~d.collecting THEN d
     ELSE [d EXCEPT !.shown = @ \o InOrder(entries),
             !.collecting = \A i \in new : journal[i].kind # "end",
             !.till = Newest(ids)]

\* The dialog, told that the log has changed: the rows that are newer than the
\* ones it has looked through, whichever list they are of.
Scan(d, ids) ==
  LET new == {i \in ids : i > d.after}
      entries == {i \in new : journal[i].kind = "entry"}
  IN IF ~d.open \/ ~d.collecting THEN d
     ELSE [d EXCEPT !.shown = @ \o InOrder(entries),
             !.collecting = \A i \in new : journal[i].kind # "end",
             !.after = Newest(new \cup {d.after}), !.till = Newest(ids)]

Come(ids) ==
  /\ got' = got \cup ids /\ told' = told \cup ids
  /\ known' = Merged(ids)
  /\ dialog' = Scan(dialog, LastOf(got \cup ids, Slice))

\* A row comes as it is written ...
Deliver ==
  /\ online /\ Newest(got) < Len(journal)
  /\ Come({Newest(got) + 1})
  /\ UNCHANGED <<held, serverVars, online, asked>>

\* ... or in the slice of the connect burst.  A first connection is told of the
\* log without its rows.
Resume ==
  /\ ~online /\ online' = TRUE /\ held' = 0
  /\ Come(LastOf(DOMAIN journal \ 1..Newest(got), Slice))
  /\ UNCHANGED <<serverVars, asked>>

ColdStart ==
  /\ ~online /\ got = {} /\ online' = TRUE /\ held' = 0
  /\ got' = DOMAIN journal
  /\ UNCHANGED <<serverVars, told, known, dialog, asked>>

\* The first of the lines sent have come to the bouncer, the last are still the
\* client's own, and what was on the wire between them is lost.
Drop ==
  /\ online /\ online' = FALSE
  /\ \E come \in 0..Len(out) : \E took \in come..Len(out) :
       /\ out' = SubSeq(out, 1, come) \o SubSeq(out, took + 1, Len(out))
       /\ held' = Len(out) - took
  /\ UNCHANGED <<q, lists, journal, got, told, known, dialog, asked>>

Send(lines) ==
  /\ asked + Len(lines) <= MaxAsked
  /\ out' = out \o lines /\ asked' = asked + Len(lines)

\* The rows of the last registration are known to have come, and those before
\* it do not matter.
Certain ==
  LET registrations == {i \in DOMAIN journal : journal[i].kind = "isupport"}
  IN Newest(registrations) \in told

\* The composer refuses a command while the connection is down.
Command(c) ==
  /\ online
  /\ Send([i \in DOMAIN ToRaw(c, known = "owner") |->
             [line |-> ToRaw(c, known = "owner")[i], from |-> c, sure |-> Certain,
              crossed |-> FALSE, ask |-> 0]])
  /\ UNCHANGED <<held, q, lists, journal, online, got, told, known, dialog>>

\* From a channel's menu: without a first connection there is no channel.
OpenDialog ==
  /\ got # {} /\ ~dialog.open /\ dialog' = [NoDialog EXCEPT !.open = TRUE]
  /\ UNCHANGED <<held, serverVars, online, got, told, known, asked>>

CloseDialog ==
  /\ dialog.open /\ dialog' = NoDialog
  /\ UNCHANGED <<held, serverVars, online, got, told, known, asked>>

\* A list's button, online or not
AskList(letter) ==
  /\ got # {} /\ dialog.open
  /\ dialog' = [NoDialog EXCEPT !.open = TRUE, !.collecting = TRUE, !.ask = asked + 1,
                  !.after = Newest(got), !.since = Newest(got)]
  /\ Send(<<[line |-> IrcLine("LIST", letter), from |-> "dialog", sure |-> FALSE,
            crossed |-> FALSE, ask |-> asked + 1]>>)
  /\ held' = IF online THEN 0 ELSE held + 1
  /\ UNCHANGED <<q, lists, journal, online, got, told, known>>

--------------------------------------------------------------------------------
(* The IRC server *)

Reply(letter) ==
  LET masks == SetToSeq(lists[letter])
  IN [i \in 1..Cardinality(lists[letter]) |-> Row("entry", letter, masks[i])]
     \o <<Row("end", letter, NoMask)>>

Write(rows) == Len(journal) + Len(rows) <= MaxLog /\ journal' = journal \o rows

\* The next line that comes is carried out.
Serve ==
  /\ out # <<>> /\ held < Len(out) /\ out' = Tail(out)
  /\ LET m == Head(out) IN
     \/ /\ m.ask = 0
        /\ lists' = IF m.line = IrcLine("MODE", "b") THEN [lists EXCEPT !["b"] = Masks] ELSE lists
        /\ UNCHANGED <<journal, dialog>>
     \/ /\ m.ask > 0 /\ Write(Reply(m.line.letter))
        /\ dialog' = IF m.ask # dialog.ask THEN dialog
                     ELSE [dialog EXCEPT !.reply = Len(journal) + 1..Len(journal')]
        /\ UNCHANGED lists
  /\ UNCHANGED <<q, online, held, got, told, known, asked>>

\* The network is connected anew, perhaps to another server: what was on its
\* way there is lost, and what the client has still queued goes to the new one.
Register(v) ==
  /\ Len(journal) < MaxFirst
  /\ q' = v /\ Write(<<Row("isupport", v, NoMask)>>)
  /\ \E gone \in 0..Len(out) :
       /\ gone + held <= Len(out)
       /\ out' = [i \in 1..Len(out) - gone |-> [out[gone + i] EXCEPT !.crossed = @ \/ v # q]]
  /\ UNCHANGED <<lists, online, held, got, told, known, dialog, asked>>

\* Another device asks for the list.
OthersAsk(letter) ==
  /\ Write(Reply(letter))
  /\ UNCHANGED <<held, q, lists, out, online, got, told, known, dialog, asked>>

ModesInit ==
  /\ q \in {"owner", "quiet"} /\ lists = [b |-> {CHOOSE m \in Masks : TRUE}, e |-> {}]
  /\ journal = <<Row("isupport", q, NoMask)>> /\ out = <<>>
  /\ online = FALSE /\ held = 0 /\ got = {} /\ told = {} /\ known = "unseen" /\ dialog = NoDialog
  /\ asked = 0

\* The log, and who reads or writes it (bound: either commands are given, or the
\* dialog is used and one that changes a list)
Logs == Deliver \/ Resume \/ Drop \/ Serve
Talks == \/ Logs \/ ColdStart
         \/ \E v \in {"owner", "quiet"} : Register(v)
         \/ \E c \in Commands : Command(c)
Lists == \/ Logs \/ Command("ban") \/ OpenDialog \/ CloseDialog
         \/ \E letter \in Letters : AskList(letter) \/ OthersAsk(letter)

--------------------------------------------------------------------------------
(* Properties *)

\* A mode command does to its user what it is called, or nothing, once a 005
\* line of this registration came live or with a burst: "Guessing wrong silently
\* mutes someone you meant to promote, or vice versa" (commands.rs:49).  Not so
\* for one that was still queued when the network came to a server of the other
\* kind: it was made into a line when it was given, and goes out as it is.
DoesWhatItSays ==
  \A i \in DOMAIN out :
    out[i].sure /\ ~out[i].crossed => Effects(out[i].line) \subseteq Named(out[i].from)

\* Once its end has come the dialog shows the list that it asked for, each entry
\* once, however the log came: row by row, or in the slice after a connection
\* that was lost meanwhile.  Not so if rows of the answer were skipped by a
\* slice, or another list's rows lie among those it looked through.
Alone == \A i \in dialog.since + 1..dialog.till :
           journal[i].kind \in {"entry", "end"} => i \in dialog.reply

ListAgrees ==
  dialog.open /\ ~dialog.collecting /\ dialog.reply # {} /\ dialog.reply \subseteq got /\ Alone =>
    dialog.shown = [i \in 1..Cardinality(dialog.reply) - 1 |-> journal[Min(dialog.reply) + i - 1].mask]
================================================================================
