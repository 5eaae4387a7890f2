------------------------------ MODULE Scrollback ------------------------------
(***************************************************************************)
(* One conversation on one device: the store's ring for it (module Ring),   *)
(* the window that shows it and asks for history (scully window.rs, app.rs),*)
(* and the resume protocol that keeps it up to date across reconnects.      *)
(*                                                                          *)
(* The server is external: an ever-growing log of rows 1..head, all of this *)
(* conversation.  `frames` is everything between the server's send and the  *)
(* store's apply_frame, in order; `requests` is everything between App::send*)
(* and the server's answer, in order.                                       *)
(***************************************************************************)
EXTENDS Ring, FiniteSets

CONSTANTS
  HydrateLimit, \* rows of a "latest" reply (150)
  PageSizes,    \* rows a "before" reply may have, as the server counts a page
  AroundReach,  \* rows on each side of the anchor of an "around" reply (30)
  FirstRows,    \* bound: rows the log may start with
  MaxRows,      \* bound: rows the log can have
  MaxRequests,  \* bound: requests whose reply is not yet applied
  MaxLocal,     \* bound: lines the client injects
  MaxJumps,     \* bound: jumps to a search result
  MaxDrops      \* bound: connections lost

ASSUME LimitAssumption ==
  /\ HydrateLimit \in Nat \ {0} /\ AroundReach \in Nat
  /\ PageSizes \subseteq Nat \ {0} /\ PageSizes # {}

ASSUME BoundAssumption ==
  /\ MaxRows \in Nat /\ FirstRows \in 0..MaxRows /\ MaxRequests \in Nat
  /\ MaxLocal \in Nat /\ MaxJumps \in Nat /\ MaxDrops \in Nat

VARIABLES
  buf,       \* Store: the buffer
  known,     \* Store: whether the buffer exists at all
  cursor,    \* Store::cursor, as App publishes it for the next connect
  paging,    \* Window::paging
  head,      \* server: newest row of the log
  up,        \* whether a session is established
  frames,    \* frames the store has not applied yet
  requests,  \* history requests the server has not answered yet
  effects,   \* history: how often the side effects of each row have run
  spoiled,   \* history: which of the known hazards have struck (see Hazards)
  locals, jumps, drops \* how much of each bound is used up

server == <<head, up, requests>>
counts == <<locals, jumps, drops>>
vars == <<buf, known, cursor, paging, head, up, frames, requests, effects,
          spoiled, counts>>

-------------------------------------------------------------------------------
(* Data *)

Row == 1..MaxRows

Request == [mode : {"latest"}] \cup [mode : {"before"}, before : Row]
           \cup [mode : {"around"}, anchor : Row]

(* The rows from one id to another, oldest first. *)
Slice(from, to) == [i \in 1..(IF to < from THEN 0 ELSE to - from + 1) |-> from + i - 1]

(* The last n rows up to a row. *)
Ending(to, n) == Slice(IF to > n THEN to - n + 1 ELSE 1, to)

Snapshot == [kind |-> "snapshot", cursor |-> head]
Live(row) == [kind |-> "irc", row |-> row]
Backlog(mode, rows, more) ==
  [kind |-> "backlog", mode |-> mode, rows |-> rows, moreOlder |-> more]
History(mode, rows) ==
  [kind |-> "history", mode |-> mode, rows |-> rows,
   moreOlder |-> rows # <<>> /\ rows[1] > 1]

(* The connect bursts the server may send for a cursor.  Without one it     *)
(* sends a snapshot and a shell; else it fills the gap, or sends the newest *)
(* rows alone when it finds the gap too long to fill.                       *)
Bursts(since) ==
  LET newest == Ending(head, HydrateLimit) IN
  CASE since = 0    -> {<<Snapshot, Backlog("shell", <<>>, head > 0)>>}
    [] since # 0 /\ since = head -> {<<Backlog("shell", <<>>, TRUE)>>}
    [] OTHER        -> {<<Backlog("append", Slice(since + 1, head), TRUE)>>,
                        <<Backlog("replace", newest, newest[1] > 1)>>}

(* The hazards that `spoiled` records once they have struck. *)
Hazards == {
  "jump",   \* a slice around a search result was merged
  "overlap", \* replace kept rows that a gap separates from the slice
  "skip",   \* a snapshot moved the cursor past rows that a conversation in use lacks
  "local",  \* an older row was merged while a row without an id came last
  "clamp",  \* a slice was cut down to MaxMerge rows
  "cut",    \* a connection was lost with part of its burst undelivered
  "late"}   \* the old edge moved while the page asked for at it was on its way

-------------------------------------------------------------------------------
(* The store applies a frame *)

Higher(a, b) == IF a > b THEN a ELSE b

Clamped(frame) ==
  frame.mode # "shell" /\ ClampToAdjacentEnd(buf.ring, frame.rows) # frame.rows

(* The rows next to which a page was asked for have left the ring since. *)
EdgeMoves(coming, merged) ==
  /\ \/ \E i \in DOMAIN requests : requests[i].mode = "before"
     \/ \E i \in DOMAIN coming : coming[i].kind = "history" /\ coming[i].mode = "before"
  /\ OldestId(merged.ring) > OldestId(buf.ring)

(* An id the ring has passed is appended all the same. *)
BehindLocalRow(frame) ==
  /\ buf.ring # <<>> /\ Last(buf.ring) = LocalRow
  /\ \E row \in Ids(frame.rows) \ Ids(buf.ring) : row < NewestId(buf.ring)

(* Overlap is judged by the newest id held, not by the rows held, so rows   *)
(* may be kept that a gap separates from the slice.                         *)
KeepsAcrossGap(frame) ==
  LET older == {row \in Ids(buf.ring) : row < frame.rows[1]}
      newer == {row \in Ids(buf.ring) : row > Last(frame.rows)}
  IN  /\ frame.mode \in {"replace", "around", "latest"}
      /\ Overlaps(buf, frame.rows)
      /\ \/ older # {} /\ Max(older) < frame.rows[1] - 1
         \/ newer # {} /\ Min(newer) > Last(frame.rows) + 1

StruckBy(frame, merged) ==
  {h \in Hazards : \/ h = "jump" /\ frame.mode = "around"
                   \/ h = "overlap" /\ KeepsAcrossGap(frame)
                   \/ h = "local" /\ BehindLocalRow(frame)
                   \/ h = "clamp" /\ Clamped(frame)
                   \/ h = "late" /\ EdgeMoves(Tail(frames), merged)}

(* A snapshot takes its cursor from the server and leaves the ring as it is. *)
SkipsRows(frame) ==
  /\ buf.hydrated \/ Ids(buf.ring) # {}
  /\ \E row \in (OldestId(buf.ring) + 1)..frame.cursor : row \notin Ids(buf.ring)

ApplySnapshot(frame) ==
  /\ cursor' = Higher(cursor, frame.cursor)
  /\ spoiled' = IF SkipsRows(frame) THEN spoiled \cup {"skip"} ELSE spoiled
  /\ UNCHANGED <<buf, known, paging, effects>>

(* merge_backlog and merge_history, and the redraw that ends a page load. *)
ApplySlice(frame) ==
  /\ known' = TRUE
  /\ cursor' = Higher(cursor, NewestId(frame.rows))
  /\ LET merged == IF frame.kind = "backlog" THEN MergeBacklog(buf, frame)
                                             ELSE MergeHistory(buf, frame)
     IN  /\ buf' = merged
         /\ spoiled' = spoiled \cup StruckBy(frame, merged)
  /\ paging' = FALSE
  /\ UNCHANGED effects

(* apply_event for a persisted row *)
ApplyLive(row) ==
  /\ known' = TRUE
  /\ \/ /\ Replayed(buf, row)
        /\ UNCHANGED <<buf, cursor, paging, effects, spoiled>>
     \/ /\ ~Replayed(buf, row)
        /\ cursor' = Higher(cursor, row)
        /\ effects' = IF Fresh(buf, row) THEN [effects EXCEPT ![row] = @ + 1] ELSE effects
        /\ buf' = AddLive(buf, row)
        /\ spoiled' = IF EdgeMoves(Tail(frames), AddLive(buf, row))
                      THEN spoiled \cup {"late"} ELSE spoiled
        /\ paging' = FALSE

(* The application takes the next frame. *)
Takes == frames # <<>> /\ frames' = Tail(frames)

ApplyFrame ==
  /\ Takes
  /\ LET frame == Head(frames) IN
       \/ frame.kind = "snapshot" /\ ApplySnapshot(frame)
       \/ frame.kind \in {"backlog", "history"} /\ ApplySlice(frame)
       \/ frame.kind = "irc" /\ ApplyLive(frame.row)
  /\ UNCHANGED <<server, counts>>

-------------------------------------------------------------------------------
(* The window *)

Outstanding ==
  Len(requests) + Cardinality({i \in DOMAIN frames : frames[i].kind = "history"})

Ask(asked) ==
  /\ Outstanding + Len(asked) <= MaxRequests
  /\ requests' = requests \o asked

Latest == [mode |-> "latest"]
Before(row) == [mode |-> "before", before |-> row]
Around(row) == [mode |-> "around", anchor |-> row]

NeedsHydrate == ~buf.hydrated \/ (buf.ring = <<>> /\ buf.moreOlder)

Hydration == IF NeedsHydrate THEN <<Latest>> ELSE <<>>

(* Window::activate *)
Activate ==
  /\ known
  /\ Ask(Hydration)
  /\ paging' = FALSE
  /\ UNCHANGED <<buf, known, cursor, head, up, frames, effects, spoiled, counts>>

(* The user scrolls to the top: Window::request_older_page *)
ScrollToTop ==
  /\ known
  /\ ~paging
  /\ buf.moreOlder /\ buf.hydrated /\ OldestId(buf.ring) # NoId
  /\ paging' = TRUE
  /\ Ask(<<Before(OldestId(buf.ring))>>)
  /\ UNCHANGED <<buf, known, cursor, head, up, frames, effects, spoiled, counts>>

(* The user opens a search result: activate, then jump_to *)
OpenResult ==
  /\ known
  /\ jumps < MaxJumps
  /\ jumps' = jumps + 1
  /\ \E row \in 1..head : Ask(Append(Hydration, Around(row)))
  /\ paging' = FALSE
  /\ UNCHANGED <<buf, known, cursor, head, up, frames, effects, spoiled, locals, drops>>

(* Window::return_to_present *)
ReturnToPresent ==
  /\ known /\ buf.detached
  /\ Ask(<<Latest>>)
  /\ UNCHANGED <<buf, known, cursor, paging, head, up, frames, effects, spoiled, counts>>

(* A whois or help readout is shown in the conversation, which redraws it. *)
InjectLine ==
  /\ known
  /\ locals < MaxLocal
  /\ locals' = locals + 1
  /\ buf' = Inject(buf)
  /\ spoiled' = IF EdgeMoves(frames, Inject(buf)) THEN spoiled \cup {"late"} ELSE spoiled
  /\ paging' = FALSE
  /\ UNCHANGED <<known, cursor, server, frames, effects, jumps, drops>>

Window == Activate \/ ScrollToTop \/ OpenResult \/ ReturnToPresent \/ InjectLine

-------------------------------------------------------------------------------
(* The server and the connection *)

(* Somebody says something. *)
Post ==
  /\ head < MaxRows
  /\ head' = head + 1
  /\ frames' = IF up THEN Append(frames, Live(head + 1)) ELSE frames
  /\ UNCHANGED <<buf, known, cursor, paging, up, requests, effects, spoiled, counts>>

(* mutant: the resume asks for what follows the server's newest row *)
ConnectAtHead ==
  /\ ~up
  /\ up' = TRUE
  /\ \E burst \in Bursts(head) : frames' = frames \o burst
  /\ UNCHANGED <<buf, known, cursor, paging, head, requests, effects, spoiled, counts>>

(* A reconnect resumes from the cursor.  A row that lands meanwhile may be  *)
(* sent live before the burst that includes it.                             *)
Connect ==
  /\ ~up
  /\ up' = TRUE
  /\ \E burst \in Bursts(cursor) :
       \/ frames' = frames \o burst
       \/ cursor < head /\ frames' = frames \o <<Live(head)>> \o burst
  /\ UNCHANGED <<buf, known, cursor, paging, head, requests, effects, spoiled, counts>>

Answers(request) ==
  CASE request.mode = "latest" -> {History("latest", Ending(head, HydrateLimit))}
    [] request.mode = "before" ->
         {History("before", Ending(request.before - 1, n)) : n \in PageSizes}
    [] request.mode = "around" ->
         {History("around", Slice(Higher(1, request.anchor - AroundReach),
                                  Min({head, request.anchor + AroundReach})))}

Answer ==
  /\ up
  /\ requests # <<>>
  /\ requests' = Tail(requests)
  /\ \E reply \in Answers(Head(requests)) : frames' = Append(frames, reply)
  /\ UNCHANGED <<buf, known, cursor, paging, head, up, effects, spoiled, counts>>

(* The connection is lost, and with it the frames still in flight and the   *)
(* requests already sent; queued requests wait for the next session.        *)
Lose ==
  /\ up
  /\ drops < MaxDrops
  /\ drops' = drops + 1
  /\ up' = FALSE
  /\ \E k \in 0..Len(frames) :
       /\ frames' = SubSeq(frames, 1, k)
       /\ spoiled' = IF \E i \in (k + 1)..Len(frames) : frames[i].kind = "backlog"
                     THEN spoiled \cup {"cut"} ELSE spoiled
  /\ \E k \in 0..Len(requests) : requests' = SubSeq(requests, k + 1, Len(requests))
  /\ UNCHANGED <<buf, known, cursor, paging, head, effects, locals, jumps>>

Server == Post \/ Connect \/ Answer \/ Lose

-------------------------------------------------------------------------------

Init ==
  /\ buf = EmptyBuffer
  /\ known = FALSE
  /\ cursor = 0
  /\ paging = FALSE
  /\ head \in 0..FirstRows
  /\ up = FALSE
  /\ frames = <<>>
  /\ requests = <<>>
  /\ effects = [row \in Row |-> 0]
  /\ spoiled = {}
  /\ locals = 0 /\ jumps = 0 /\ drops = 0

Next == ApplyFrame \/ Window \/ Server

(* The main loop drains its events, and the connection task keeps trying.   *)
(* (Every ApplyFrame step Takes, and ApplyFrame is enabled when Takes is.)  *)
Fairness == WF_frames(Takes) /\ WF_vars(Connect) /\ WF_vars(Answer)

Spec == Init /\ [][Next]_vars

FairSpec == Spec /\ Fairness

-------------------------------------------------------------------------------
(* Properties *)

(* Every variable has its type. *)
TypeOK ==
  /\ buf.ring \in Seq(Row \cup {LocalRow}) /\ Len(buf.ring) <= RingCapacity
  /\ buf.newest \in Row \cup {NoId}
  /\ {buf.moreOlder, buf.hydrated, buf.detached, known, paging, up} \subseteq BOOLEAN
  /\ cursor \in 0..head /\ head \in 0..MaxRows
  /\ requests \in Seq(Request) /\ Len(requests) <= MaxRequests
  /\ effects \in [Row -> Nat]
  /\ spoiled \subseteq Hazards
  /\ locals \in 0..MaxLocal /\ jumps \in 0..MaxJumps /\ drops \in 0..MaxDrops

(* However live events, resume gap-fills, pages and replays overlap, no row is *)
(* held twice, and between two lines without an id the rows are in the order   *)
(* of their ids.                                                             *)
RowsInOrder ==
  /\ TypeOK
  /\ \A i, j \in DOMAIN buf.ring :
       buf.ring[i] = buf.ring[j] /\ buf.ring[i] # LocalRow => i = j
  /\ \A i \in 1..(Len(buf.ring) - 1) :
       buf.ring[i] # LocalRow /\ buf.ring[i + 1] # LocalRow
         => buf.ring[i] < buf.ring[i + 1]

(* A replayed event never runs its side effects (membership, topic, alerts) *)
(* a second time, unless a jump or a line without an id has put the ring out *)
(* of step, or as many such lines as it holds may have evicted all its rows. *)
EffectsOnce ==
  spoiled \cap {"jump", "local"} = {} /\ locals < RingCapacity =>
    \A row \in Row : effects[row] <= 1

(* The rows held, and those up to the cursor, have no hole in them once a   *)
(* connect burst is applied, unless one of the known hazards has struck.    *)
(* The resume cursor never skips a row that follows those held.             *)
BurstApplied == \A i \in DOMAIN frames : frames[i].kind # "backlog"

Sound == spoiled = {} /\ locals < RingCapacity /\ BurstApplied

NoHole ==
  Sound =>
    \A row \in Row : \A held \in Ids(buf.ring) :
      held < row /\ row <= cursor => row \in Ids(buf.ring)

(* The pager stays armed while the server has rows older than those held.   *)
PagerArmed == Sound /\ OldestId(buf.ring) > 1 => buf.moreOlder

(* A conversation that was hydrated catches up with the server for good     *)
(* once the connection stays up, however it was lost before; and every page    *)
(* load ends, even if the request or its reply is lost with the connection.     *)
CatchesUp ==
  /\ <>[](\/ ~buf.hydrated \/ buf.detached \/ spoiled # {}
          \/ NewestId(buf.ring) = head)
  /\ paging ~> ~paging

===============================================================================
