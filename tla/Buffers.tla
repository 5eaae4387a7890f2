-------------------------------- MODULE Buffers --------------------------------
(***************************************************************************)
(* The store's set of buffers (lurker-client store.rs): how the frames of    *)
(* one account open, close, rename, clear and fill conversations, which all  *)
(* share one resume cursor, while the connection is lost and resumed.        *)
(*                                                                          *)
(* Rings are sets of ids here: their order and their bounds are Ring's.  Ids *)
(* of the network's rows come from one sequence, those of the system buffer  *)
(* from another.  The server is external: what it holds is the truth the     *)
(* client's copy is compared with.                                          *)
(***************************************************************************)
EXTENDS Naturals, SequencesExt, FiniteSetsExt, Functions

CONSTANTS
  Channels, Queries,  \* the buffers of the network, by kind
  System,             \* the application's own buffer
  Nicks,              \* other users, as members of channels
  SystemHead,         \* newest id in the system buffer at the start
  MaxRows,            \* bound: rows the network issues
  MaxInFlight,        \* bound: frames on their way when the server acts
  MaxMoves            \* bound: openings, closings, renames, clears, reads, joins,
                      \* connections lost, history requests, all together

ASSUME BuffersAssumption ==
  /\ Channels \cap Queries = {} /\ System \notin Channels \cup Queries
  /\ IsFiniteSet(Channels \cup Queries) /\ Channels # {} /\ Queries # {}
  /\ SystemHead \in Nat /\ MaxRows \in Nat /\ MaxInFlight \in Nat
  /\ MaxMoves \in Nat

VARIABLES
  (* the client: Store *)
  buffers,          \* the buffers held: a function on a set of keys
  cursor,           \* the resume cursor
  backlogComplete,
  snapshotChannels, \* nicklists of the snapshots, by channel
  (* the server *)
  log,              \* the network's rows, by id
  systemHead,       \* newest id in the system buffer
  open,             \* the keys of the network that are open
  joined,           \* the channels the user is in
  members,          \* who else is in each channel
  unread,           \* rows not read yet, by key
  cleared,          \* first id that a clear has kept, by key
  (* between them *)
  up,               \* whether the connection stands
  inbox,            \* events on their way to the store
  asked,            \* history requests on their way to the server
  deleting,         \* "no", "asked" or "done": the user deletes the network
  (* history, for the properties *)
  missed,           \* keys whose closing, renaming or clearing the client did not see
  revived,          \* keys that a late reply or frame may bring back
  merged,           \* conversations that another one with rows was renamed into
  skipped,          \* rows below the cursor that went down with a connection
  moves             \* how much of the bound is used up

client == <<buffers, cursor, backlogComplete, snapshotChannels>>
server == <<log, systemHead, open, joined, members, unread, cleared>>
link == <<up, inbox, asked>>
vars == <<client, server, link, deleting, missed, revived, merged, skipped, moves>>

-------------------------------------------------------------------------------
(* Data *)

NetKeys == Channels \cup Queries
Keys == NetKeys \cup {System}
NoId == 0

Buffer == [rows : SUBSET Nat, newest : Nat, joined : BOOLEAN, hydrated : BOOLEAN,
           members : SUBSET Nicks, unread : Nat, cleared : Nat]

Newest(rows) == IF rows = {} THEN NoId ELSE Max(rows)
Higher(a, b) == IF a > b THEN a ELSE b

(* Frames, with the fields the store reads. *)
Snapshot(since) ==
  [kind |-> "snapshot", cursor |-> IF since = 0 THEN Len(log) ELSE 0,
   channels |-> [c \in joined |-> members[c]]]
Irc(id, key, type, nick) ==
  [kind |-> "irc", id |-> id, key |-> key, type |-> type, nick |-> nick]
Ephemeral(key, type, nicks) ==
  [kind |-> "ephemeral", key |-> key, type |-> type, nicks |-> nicks]
Row(id) == Irc(id, log[id].key, log[id].type, log[id].nick)
Backlog(key, mode, rows) ==
  [kind |-> "backlog", key |-> key, mode |-> mode, rows |-> rows,
   joined |-> key \in joined, unread |-> unread[key], cleared |-> cleared[key]]
History(key, rows) == [kind |-> "history", key |-> key, rows |-> rows]
ReadState(key, n) == [kind |-> "read-state", key |-> key, unread |-> n]
Opened(key) == [kind |-> "buffer-opened", key |-> key]
Closed(key) == [kind |-> "buffer-closed", key |-> key]
Renamed(from, to) == [kind |-> "buffer-renamed", from |-> from, to |-> to]
Cleared(key, before) == [kind |-> "buffer-cleared", key |-> key, before |-> before]
Complete == [kind |-> "backlog-complete"]
SocketLost == [kind |-> "lost"]

(* The ids of a conversation that the server would still show. *)
RowsOf(key) ==
  IF key = System THEN 1..systemHead
  ELSE {id \in DOMAIN log : log[id].key = key /\ id >= cleared[key]}

-------------------------------------------------------------------------------
(* The store's helpers *)

(* HashMap::insert of the buffers *)
Put(held, key, buf) == [k \in DOMAIN held \cup {key} |-> IF k = key THEN buf ELSE held[k]]

(* mutant: the channel state of the snapshot is not kept for later buffers *)
TouchBare(held, key) ==
  IF key \in DOMAIN held THEN held
  ELSE Put(held, key, [rows |-> {}, newest |-> NoId, joined |-> FALSE, hydrated |-> FALSE,
                       members |-> {}, unread |-> 0, cleared |-> NoId])

(* touch_buffer: a new buffer adopts what the last snapshots said of it. *)
Touch(held, key) ==
  IF key \in DOMAIN held THEN held
  ELSE LET known == key \in DOMAIN snapshotChannels
       IN  Put(held, key, [rows |-> {}, newest |-> NoId, joined |-> known, hydrated |-> FALSE,
                           members |-> IF known THEN snapshotChannels[key] ELSE {},
                           unread |-> 0, cleared |-> NoId])

(* splice, without the ring's bounds *)
Splice(rows, slice) == rows \cup slice

(* replace, without the ring's bounds *)
Replace(buf, slice) ==
  IF slice # {} /\ buf.newest # NoId /\ Min(slice) <= buf.newest
  THEN Splice(buf.rows, slice)
  ELSE slice \cup {id \in buf.rows : slice # {} /\ id > Max(slice)}

(* MessageEvent::advances_cursor *)
AdvancesCursor(key) == key # System

(* mutant: a read state brings a buffer into being *)
MaterializesAll(frame) == TRUE

(* Store::may_materialize: a persisted row does, and channel-joined. *)
MayMaterialize(frame) == frame.kind = "irc" \/ frame.type = "channel-joined"

(* apply_event's test whether a row is newer than all that was applied *)
Fresh(buf, id) == id > buf.newest

(* apply_side_effects of a persisted row *)
SideEffects(buf, frame) ==
  CASE frame.type = "join" -> [buf EXCEPT !.members = @ \cup {frame.nick}]
    [] frame.type = "part" -> [buf EXCEPT !.members = @ \ {frame.nick}]
    [] OTHER -> buf

(* apply_side_effects of an event without an id, which is always fresh *)
Signal(buf, frame) ==
  CASE frame.type = "channel-joined" -> [buf EXCEPT !.joined = TRUE]
    [] frame.type = "channel-parted" -> [buf EXCEPT !.joined = FALSE, !.members = {}]
    [] frame.type = "names"          -> [buf EXCEPT !.members = frame.nicks]

-------------------------------------------------------------------------------
(* apply_frame, by kind of frame *)

ApplySnapshot(frame) ==
  /\ cursor' = Higher(cursor, frame.cursor)
  /\ buffers' = [key \in DOMAIN buffers |->
                   IF key \in DOMAIN frame.channels
                   THEN [buffers[key] EXCEPT !.joined = TRUE,
                                             !.members = frame.channels[key]]
                   ELSE buffers[key]]
  /\ snapshotChannels' = [c \in DOMAIN frame.channels \cup DOMAIN snapshotChannels |->
                            IF c \in DOMAIN frame.channels THEN frame.channels[c]
                                                           ELSE snapshotChannels[c]]
  /\ UNCHANGED <<backlogComplete>>

(* apply_event for a persisted row *)
ApplyRow(frame) ==
  LET held == Touch(buffers, frame.key)
      buf == held[frame.key]
      fresh == Fresh(buf, frame.id)
      done == IF fresh THEN SideEffects(buf, frame) ELSE buf
  IN  /\ IF ~fresh /\ frame.id \in buf.rows
         THEN buffers' = held /\ UNCHANGED cursor
         ELSE /\ buffers' = [held EXCEPT ![frame.key] =
                               [done EXCEPT !.rows = @ \cup {frame.id},
                                            !.newest = Higher(@, frame.id)]]
              /\ cursor' = IF AdvancesCursor(frame.key) THEN Higher(cursor, frame.id)
                                                        ELSE cursor
      /\ UNCHANGED <<backlogComplete, snapshotChannels>>

(* apply_event for an event that is not persisted: resolve or drop *)
ApplySignal(frame) ==
  /\ IF frame.key \in DOMAIN buffers \/ MayMaterialize(frame)
     THEN LET held == Touch(buffers, frame.key)
          IN  buffers' = [held EXCEPT ![frame.key] = Signal(@, frame)]
     ELSE buffers' = buffers
  /\ UNCHANGED <<cursor, backlogComplete, snapshotChannels>>

(* mutant: rows are only appended to a buffer that was filled before *)
MergeBacklogFilled(frame) ==
  LET held == Touch(buffers, frame.key)
      told == [held[frame.key] EXCEPT !.joined = frame.joined, !.unread = frame.unread,
                                      !.cleared = frame.cleared]
      rows == CASE frame.mode = "replace" -> Replace(told, frame.rows)
                [] frame.mode = "append" /\ told.hydrated -> Splice(told.rows, frame.rows)
                [] OTHER -> told.rows
  IN  buffers' = [held EXCEPT ![frame.key] =
                    [told EXCEPT !.rows = rows, !.newest = Newest(rows),
                                 !.hydrated = @ \/ frame.mode # "shell"]]

(* merge_backlog *)
MergeBacklog(frame) ==
  LET held == Touch(buffers, frame.key)
      told == [held[frame.key] EXCEPT !.joined = frame.joined, !.unread = frame.unread,
                                      !.cleared = frame.cleared]
      rows == CASE frame.mode = "shell"   -> told.rows
                [] frame.mode = "append"  -> Splice(told.rows, frame.rows)
                [] frame.mode = "replace" -> Replace(told, frame.rows)
  IN  buffers' = [held EXCEPT ![frame.key] =
                    [told EXCEPT !.rows = rows, !.newest = Newest(rows),
                                 !.hydrated = @ \/ frame.mode # "shell"]]

(* merge_history, of the reply to "latest" *)
MergeHistory(frame) ==
  LET held == Touch(buffers, frame.key)
      rows == Replace(held[frame.key], frame.rows)
  IN  buffers' = [held EXCEPT ![frame.key] =
                    [@ EXCEPT !.rows = rows, !.newest = Newest(rows), !.hydrated = TRUE]]

(* Both advance the cursor over the rows of the slice. *)
SliceCursor(frame) ==
  cursor' = IF AdvancesCursor(frame.key) THEN Higher(cursor, Newest(frame.rows)) ELSE cursor

ApplySlice(frame) ==
  /\ IF frame.kind = "backlog" THEN MergeBacklog(frame) ELSE MergeHistory(frame)
  /\ SliceCursor(frame)
  /\ UNCHANGED <<backlogComplete, snapshotChannels>>

(* apply_buffer_renamed: the renamed buffer absorbs one that has its name. *)
RenameBuffer(held, from, to) ==
  LET buf == held[from]
      rows == buf.rows \cup held[to].rows
      both == [buf EXCEPT !.rows = rows, !.newest = Newest(rows),
                          !.members = @ \cup held[to].members]
  IN  Put(Restrict(held, DOMAIN held \ {from}), to, IF to \in DOMAIN held THEN both ELSE buf)

(* The frames that only touch what a buffer says of itself. *)
ApplyBufferFrame(frame) ==
  /\ buffers' =
       CASE frame.kind = "buffer-opened" -> Touch(buffers, frame.key)
         [] frame.kind = "buffer-closed" -> Restrict(buffers, DOMAIN buffers \ {frame.key})
         [] frame.kind = "buffer-renamed" ->
              IF frame.from \in DOMAIN buffers
              THEN RenameBuffer(buffers, frame.from, frame.to) ELSE buffers
         [] frame.kind = "buffer-cleared" ->
              IF frame.key \in DOMAIN buffers
              THEN [buffers EXCEPT ![frame.key].cleared = frame.before,
                                   ![frame.key].rows = {id \in @ : id >= frame.before}]
              ELSE buffers
         [] frame.kind = "read-state" ->
              IF frame.key \in DOMAIN buffers
              THEN [buffers EXCEPT ![frame.key].unread = frame.unread] ELSE buffers
  /\ UNCHANGED <<cursor, backlogComplete, snapshotChannels>>

(* backlog-complete, and on_socket_lost *)
ApplyMark(frame) ==
  /\ backlogComplete' = (frame.kind = "backlog-complete")
  /\ UNCHANGED <<buffers, cursor, snapshotChannels>>

ApplyFrame ==
  /\ inbox # <<>>
  /\ inbox' = Tail(inbox)
  /\ LET frame == Head(inbox) IN
       \/ frame.kind = "snapshot" /\ ApplySnapshot(frame)
       \/ frame.kind = "irc" /\ ApplyRow(frame)
       \/ frame.kind = "ephemeral" /\ ApplySignal(frame)
       \/ frame.kind \in {"backlog", "history"} /\ ApplySlice(frame)
       \/ frame.kind \in {"backlog-complete", "lost"} /\ ApplyMark(frame)
       \/ frame.kind \in {"buffer-opened", "buffer-closed", "buffer-renamed",
                          "buffer-cleared", "read-state"} /\ ApplyBufferFrame(frame)
  /\ UNCHANGED <<server, up, asked, deleting, missed, revived, merged, skipped, moves>>

-------------------------------------------------------------------------------
(* The server and the link to it *)

Send(frames) == inbox' = IF up THEN inbox \o frames ELSE inbox

(* What happens to these keys now is news the client may not get. *)
MissedIfDown(keys) == missed' = IF up THEN missed ELSE missed \cup keys

Spend == moves < MaxMoves /\ moves' = moves + 1

(* The story starts with a first burst; what was said before it is in Init. *)
Ready == deleting = "no" /\ buffers # <<>> /\ Len(inbox) < MaxInFlight
Moving == Ready /\ Spend

Unchanged == UNCHANGED <<client, up, asked, deleting, skipped>>

(* A row of the network: a message counts as unread, and its sender's or
   receiver's conversation is open from then on. *)
AddRow(key, type, nick) ==
  LET id == Len(log) + 1
      counted == [unread EXCEPT ![key] = @ + 1]
      row == Irc(id, key, type, nick)
  IN  /\ Ready /\ Len(log) < MaxRows
      /\ log' = Append(log, [key |-> key, type |-> type, nick |-> nick])
      /\ open' = open \cup {key}
      /\ IF type = "message"
         THEN unread' = counted /\ Send(<<row, ReadState(key, counted[key])>>)
         ELSE unread' = unread /\ Send(<<row>>)
      /\ UNCHANGED <<systemHead, joined, cleared, missed, revived, merged, moves>>
      /\ Unchanged

Say(key) ==
  /\ key \in Channels => key \in joined
  /\ \E nick \in Nicks : AddRow(key, "message", nick)
  /\ UNCHANGED members

MemberJoins(c) ==
  /\ c \in joined
  /\ \E nick \in Nicks \ members[c] :
       /\ AddRow(c, "join", nick)
       /\ members' = [members EXCEPT ![c] = @ \cup {nick}]

MemberLeaves(c) ==
  /\ c \in joined
  /\ \E nick \in members[c] :
       /\ AddRow(c, "part", nick)
       /\ members' = [members EXCEPT ![c] = @ \ {nick}]

(* The user joins a channel, on this device or on another. *)
SelfJoin(c) ==
  /\ Moving /\ c \notin joined
  /\ joined' = joined \cup {c}
  /\ open' = open \cup {c}
  /\ \E nicks \in SUBSET Nicks :
       /\ members' = [members EXCEPT ![c] = nicks]
       /\ Send(<<Ephemeral(c, "channel-joined", {}), Ephemeral(c, "names", nicks)>>)
  /\ UNCHANGED <<log, systemHead, unread, cleared, missed, revived, merged>>
  /\ Unchanged

SelfPart(c) ==
  /\ Moving /\ c \in joined
  /\ joined' = joined \ {c}
  /\ members' = [members EXCEPT ![c] = {}]
  /\ Send(<<Ephemeral(c, "channel-parted", {})>>)
  /\ UNCHANGED <<log, systemHead, open, unread, cleared, missed, revived, merged>>
  /\ Unchanged

(* A conversation is closed on some device: it counts as read, and a channel is left
   with it. *)
Close(key) ==
  /\ Moving /\ key \in open
  /\ open' = open \ {key}
  /\ joined' = joined \ {key}
  /\ members' = IF key \in joined THEN [members EXCEPT ![key] = {}] ELSE members
  /\ Send(<<Closed(key)>> \o IF key \in joined
                             THEN <<Ephemeral(key, "channel-parted", {})>> ELSE <<>>)
  /\ unread' = [unread EXCEPT ![key] = 0]
  /\ MissedIfDown({key})
  /\ UNCHANGED <<log, systemHead, cleared, revived, merged>>
  /\ Unchanged

(* A conversation is opened on some device: a shell, then the frame. *)
Open(key) ==
  /\ Moving /\ key \in NetKeys \ open
  /\ open' = open \cup {key}
  /\ Send(<<Backlog(key, "shell", {}), Opened(key)>>)
  /\ UNCHANGED <<log, systemHead, joined, members, unread, cleared, missed, revived, merged>>
  /\ Unchanged

(* The user at the other end of a conversation changes nick. *)
Rename(from, to) ==
  /\ Moving /\ from # to /\ from \in open
  /\ cleared[from] = NoId /\ cleared[to] = NoId
  /\ log' = [id \in DOMAIN log |->
               IF log[id].key = from THEN [log[id] EXCEPT !.key = to] ELSE log[id]]
  /\ open' = (open \ {from}) \cup {to}
  /\ unread' = [unread EXCEPT ![to] = @ + unread[from], ![from] = 0]
  /\ Send(<<Renamed(from, to), ReadState(to, unread'[to])>>)
  /\ missed' = IF up /\ from \notin missed THEN missed ELSE missed \cup {from, to}
  /\ merged' = IF from \in merged \/ (RowsOf(from) # {} /\ RowsOf(to) # {})
               THEN merged \cup {to} ELSE merged
  /\ UNCHANGED <<systemHead, joined, members, cleared, revived>>
  /\ Unchanged

Clear(key) ==
  /\ Moving /\ key \in open
  /\ cleared' = [cleared EXCEPT ![key] = Len(log) + 1]
  /\ unread' = [unread EXCEPT ![key] = 0]
  /\ Send(<<Cleared(key, Len(log) + 1), ReadState(key, 0)>>)
  /\ MissedIfDown({key})
  /\ UNCHANGED <<log, systemHead, open, joined, members, revived, merged>>
  /\ Unchanged

(* mark-all-read tells of closed conversations too. *)
MarkAllRead ==
  /\ Moving /\ \E key \in open : unread[key] > 0
  /\ unread' = [key \in Keys |-> 0]
  /\ LET order == SetToSeq({key \in NetKeys : RowsOf(key) # {}})
     IN  Send([i \in DOMAIN order |-> ReadState(order[i], 0)])
  /\ UNCHANGED <<log, systemHead, open, joined, members, cleared, missed, revived, merged>>
  /\ Unchanged

SystemRow ==
  /\ Moving
  /\ systemHead' = systemHead + 1
  /\ Send(<<Irc(systemHead + 1, System, "message", NoId)>>)
  /\ UNCHANGED <<log, open, joined, members, unread, cleared, missed, revived, merged>>
  /\ Unchanged

(* The connect burst: since a cursor it fills gaps, from nothing it announces.
   Any conversation may come last. *)
BacklogSince(since, key) ==
  IF key = System THEN Backlog(key, "replace", RowsOf(key))
  ELSE IF since = 0 THEN Backlog(key, "shell", {})
  ELSE Backlog(key, "append", {id \in RowsOf(key) : id > since})

Connect ==
  /\ ~up
  /\ up' = TRUE
  /\ \E last \in open \cup {System} :
       LET order == Append(SetToSeq((open \cup {System}) \ {last}), last)
       IN  inbox' = inbox \o <<Snapshot(cursor)>>
                      \o [i \in DOMAIN order |-> BacklogSince(cursor, order[i])]
                      \o <<Complete>>
  /\ UNCHANGED <<client, server, asked, deleting, missed, revived, merged, skipped, moves>>

(* The rows and the news in frames that never arrive. *)
RowIds(frames) ==
  UNION {CASE f.kind = "irc" /\ f.key # System -> {f.id}
           [] f.kind = "backlog" /\ f.key # System -> f.rows
           [] OTHER -> {} : f \in Range(frames)}
NewsKeys(frames) ==
  UNION {CASE f.kind \in {"buffer-closed", "buffer-cleared"} -> {f.key}
           [] f.kind = "buffer-renamed" -> {f.from, f.to}
           [] OTHER -> {} : f \in Range(frames)}

(* The connection is lost with the frames on their way: those that still arrive
   might as well have been applied before. *)
Lose ==
  /\ up /\ Spend
  /\ up' = FALSE /\ asked' = {}
  /\ inbox' = <<SocketLost>>
  /\ missed' = missed \cup NewsKeys(inbox)
  /\ skipped' = skipped \cup {id \in RowIds(inbox) : id <= cursor}
  /\ UNCHANGED <<client, server, deleting, revived, merged>>

-------------------------------------------------------------------------------
(* The user of this device *)

(* The window that shows a buffer asks for its newest rows, once. *)
Hydrate(key) ==
  /\ up /\ deleting = "no" /\ Spend
  /\ key \in DOMAIN buffers \ {System}
  /\ ~buffers[key].hydrated /\ key \notin asked
  /\ asked' = asked \cup {key}
  /\ UNCHANGED <<client, server, up, inbox, deleting, missed, revived, merged, skipped>>

(* The reply to a request that a closing overtook brings the buffer back. *)
Answer(key) ==
  /\ key \in asked
  /\ asked' = asked \ {key}
  /\ Send(<<History(key, RowsOf(key))>>)
  /\ revived' = IF key \in open THEN revived ELSE revived \cup {key}
  /\ UNCHANGED <<client, server, up, deleting, missed, merged, skipped, moves>>

(* App::delete_network: the server drops the network, then answers. *)
DeleteNetwork ==
  /\ deleting = "no" /\ buffers # <<>> /\ Spend
  /\ deleting' = "asked"
  /\ open' = {} /\ joined' = {} /\ asked' = {}
  /\ UNCHANGED <<client, log, systemHead, members, unread, cleared, up, inbox,
                 missed, revived, merged, skipped>>

(* Store::remove_network, while frames of the network may still be queued. *)
RemoveNetwork ==
  /\ deleting = "asked"
  /\ deleting' = "done"
  /\ buffers' = Restrict(buffers, DOMAIN buffers \ NetKeys)
  /\ snapshotChannels' = Restrict(snapshotChannels, {})
  /\ revived' = revived
       \cup {f.key : f \in {g \in Range(inbox) :
                g.kind \in {"irc", "ephemeral", "backlog", "history", "buffer-opened"}}}
       \cup {f.to : f \in {g \in Range(inbox) : g.kind = "buffer-renamed"}}
  /\ UNCHANGED <<cursor, backlogComplete, server, link, missed, merged, skipped, moves>>

-------------------------------------------------------------------------------
(* Bound: the one row that is there at first is in a certain channel or query. *)
Init ==
  /\ buffers = <<>> /\ cursor = 0 /\ backlogComplete = FALSE /\ snapshotChannels = <<>>
  /\ systemHead = SystemHead
  /\ \E first \in {CHOOSE c \in Channels : TRUE, CHOOSE q \in Queries : TRUE}, nick \in Nicks :
       /\ log = <<[key |-> first, type |-> "message", nick |-> nick]>>
       /\ open = Channels \cup {first}
       /\ unread = [key \in Keys |-> IF key = first THEN 1 ELSE 0]
  /\ joined = Channels /\ members = [c \in Channels |-> Nicks]
  /\ cleared = [key \in Keys |-> NoId]
  /\ up = FALSE /\ inbox = <<>> /\ asked = {} /\ deleting = "no"
  /\ missed = {} /\ revived = {} /\ merged = {}
  /\ skipped = {} /\ moves = 0

Network ==
  \/ \E key \in NetKeys : Say(key) \/ Close(key) \/ Open(key) \/ Clear(key)
  \/ \E c \in Channels : MemberJoins(c) \/ MemberLeaves(c) \/ SelfJoin(c) \/ SelfPart(c)
  \/ \E from, to \in Queries : Rename(from, to)
  \/ MarkAllRead \/ SystemRow
  \/ Connect \/ Lose

User ==
  \/ \E key \in NetKeys : Hydrate(key) \/ Answer(key)
  \/ DeleteNetwork \/ RemoveNetwork

Next == ApplyFrame \/ Network \/ User

Spec == Init /\ [][Next]_vars

-------------------------------------------------------------------------------
(* Properties *)

(* Nothing is on its way: the device shows what it will go on showing. *)
Quiet == up /\ inbox = <<>> /\ asked = {} /\ backlogComplete /\ deleting # "asked"

Held == DOMAIN buffers
Shared == (Held \cap open) \ (missed \cup revived)

(* Every variable of the store and of the server has its type, and a buffer's newest id
   covers the rows it holds. *)
TypeOK ==
  /\ Held \subseteq Keys
  /\ \A key \in Held : /\ buffers[key] \in Buffer
                      /\ Newest(buffers[key].rows) <= buffers[key].newest
  /\ cursor \in Nat /\ backlogComplete \in BOOLEAN
  /\ DOMAIN snapshotChannels \subseteq Channels
  /\ open \subseteq NetKeys /\ joined \subseteq Channels \cap open
  /\ missed \cup revived \subseteq Keys /\ skipped \subseteq Nat /\ asked \subseteq NetKeys

(* A conversation that was closed, by anyone, does not come back unless it is open:
   signals resolve or drop (may_materialize, the #292 and #319 bugs).  And absence
   means closed: once the burst is complete every open conversation is held. *)
HeldIsOpen ==
  Quiet => /\ Held \subseteq open \cup {System} \cup missed \cup revived
           /\ open \cup {System} \subseteq Held

(* What a buffer says of itself is what the server says, however rows, read states,
   renames and resumes came: whether it is joined, its members, its unread count. *)
ViewAgrees ==
  /\ TypeOK
  /\ Quiet => \A key \in Shared :
    /\ buffers[key].joined = (key \in joined)
    /\ key \in joined => buffers[key].members = members[key]
    /\ buffers[key].unread = unread[key]

(* A buffer's rows are its conversation's, with no row missing above the oldest: the
   cursor is common to all buffers, yet no buffer loses rows because of another. *)
RowsAgree ==
  Quiet => \A key \in Shared \ merged :
    LET rows == buffers[key].rows IN
      /\ rows \subseteq RowsOf(key)
      /\ \A id \in RowsOf(key) \ skipped : rows # {} /\ id > Min(rows) => id \in rows
===============================================================================
