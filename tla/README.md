# A verification development for Scully

Scully is a GTK client for a Lurker server, which keeps a user's IRC sessions
and their history. This directory holds TLA+ models of the parts of it whose
correctness depends on the order of events, the TLC configurations that check
them on small instances, and proofs, checked by TLAPS, of what has been proved
for every instance.

Run everything from this directory:

    for m in Connection Bucket Scrollback Buffers Windows Profile Media Voice Screen; do
      tlc -workers 2 -config MC$m.cfg MC$m
    done
    tlc -workers 2 -config BucketOverrun.cfg MCBucket            # these three end in a violation
    tlc -workers 2 -config HangupLost.cfg MCVoice
    tlc -workers 2 -config WideShowsConversation.cfg MCScreen
    for m in Connection Scrollback Buffers Windows Profile Media Voice Screen; do
      tlapm ${m}Proofs.tla                                       # a few minutes for the larger ones
    done

Paths below are relative to `crates/`.

## 1. The system

### Components, their state and their operations

| Component | Source | State | Operations |
|---|---|---|---|
| Connection task | `lurker-client/src/socket.rs` (`spawn`, `run_once`) | place in the loop, backoff, `saw_frame` | announce, connect, read frames, end, wait, stop |
| Writer | `socket.rs` (the task `run_once` spawns), `Bucket` | verb in hand, token level | take a verb, wait, send, stop |
| Socket handle and session | `scully/src/app.rs` (`open_socket`, `on_client_event`, `send`, `assert_presence`, `shutdown`) | `socket`, `conn`, `cursor`, focused windows | handle an event, queue a verb, assert presence, shut down |
| Store: ring | `lurker-client/src/store.rs` (`Buffer`, `splice`, `replace`, `clamp_to_adjacent_end`) | rows, `newest_id`, `has_more_older`, `hydrated`, `detached` | insert, trim, merge a slice |
| Store: frames | `store.rs` (`apply_frame` and what it calls) | buffers, networks, cursor, `backlog_complete`, held nicklists, presence, favourites, call counts, ISUPPORT | one handler per frame |
| Chat window | `scully/src/window.rs` | active buffer, composer, recall, pager, what is drawn, list of conversations, panes | activate, send, page, jump, redraw, rebuild the list, lay out |
| Requests | `app.rs` (`hydrate`, `page_older`, `jump_to`, `search`, `list_channels`) | `next_token`, `live_tokens`, `search_token`, channel-list page | ask for history, search, list channels |
| Settings and networks | `app.rs`, `settings.rs`, `networkdialog.rs`, `rest.rs` | registry, values, roster, open dialogs | optimistic write, reset, fetch, `settings` frame, create, edit and delete a network |
| Session start | `login.rs`, `main.rs`, `credentials.rs`, `app.rs` (`start_session`) | stored tokens, last account | log in, resume, forget after a 401 |
| Media | `media.rs`, `app.rs` (`fetch_media`, `fetch_image`, `fetch_preview`, pruning), `window.rs` | caches, in-flight marks, files, posters | fetch, complete, fail, prune, play |
| Uploads | `window.rs`, `uploadersdialog.rs` | attach button, uploaders, open dialogs | choose, paste, upload, edit and choose an uploader |
| Voice | `voice.rs`, `callwindow.rs`, `app.rs` | room task, mixer, call window, counts | start, join, hang up, tracks, snapshot of counts |
| Presence runs | `lurker-proto/src/consolidate.rs`, `scully/src/format.rs` | lines drawn, fast-path mark | fold, draw, append |
| Composer | `scully/src/input.rs`, `window.rs` | line, cursor, Tab cycle, strip | complete, cycle, recall, paste |
| Commands and channel modes | `scully/src/commands.rs`, `channeldialog.rs`, `modelist.rs`, `lurker-proto/src/isupport.rs` | ISUPPORT per network, the dialog's list | command to IRC line, ask for a list, collect it |
| Look-ups | `scully/src/finder.rs`, `chanlist.rs` | results, page, filter | search, filter, refresh |
| Wire formats, REST | `lurker-proto/src/*`, `lurker-client/src/rest.rs` | none | decode frames, encode verbs and requests |
| Other dialogs, menus, theme | the rest of `scully/src` | widgets | turn input into one verb, draw |

### How they interact

The GTK thread owns the application, the store and the windows. A tokio runtime
runs the connection task, which owns the reader, and the writer it spawns for
each session. Two unbounded channels join them: `ClientEvent`s go from the task
to the application (connection states, frames, undecodable frames), `ClientVerb`s
go from the application to whichever writer exists; the verb queue outlives the
sessions. A watch channel carries the shutdown. The resume cursor is an atomic
the application stores after every frame and the task reads before every attempt.
REST calls, image fetches and downloads run on tokio, each as a task of its own,
and deliver their result to the GTK thread in any order. A call's room has its
own task; it hears of the window by a `Notify` and tells it by a channel.

Each connect is answered by a burst: on a fresh connect a snapshot (with the
cursor) and a `shell` per open buffer, on a resume the rows the client missed as
`append` or `replace` slices, and at the end `backlog-complete`, after which the
absence of a buffer is proof that it is not open. Windows fill a shell with
`history latest`, page with `before`, and jump to a search result with `around`,
which detaches the conversation from live rows until the next `latest`.

What the store changes it tells as signals; every window decides from a signal
whether to draw again, append, rebuild its list, reload its draft or mark as read.

### What is hard

* three tasks and the network interleave, and each may end first (socket.rs);
* connections are lost at any moment, noticed late or by a deadline only, with
  frames, requests and verbs in flight on both sides;
* the same row arrives several ways (live, resume, hydration, page, jump), in any
  order, and must be held once, in order, and have its side effects once;
* the ring, the page and the merge are bounded, so each merge may evict or cut;
* optimistic and cached state (settings, drafts, tokens, in-flight marks, what is
  drawn) races with replies, with other devices and with other windows;
* conversations are closed, renamed into each other and brought back while
  frames about them are on their way.

`PROJECT.json` lists the hazards with their lines and the properties for each. A
hazard whose note says that a property *exempts* something names a case in which
the code does go wrong, or may; the property says that nothing else does.

## 2. The modules

| Module | Models | Role |
|---|---|---|
| `ConnStates` | the five `ConnState`s and how the one shown may change | abstract specification |
| `Connection` | connection task, reader, writer, `App`'s event handling and presence | implements `ConnStates` |
| `Bucket` | `Bucket::acquire` and the writer's wait, against the server's bucket | component |
| `Ring` | `Buffer`'s ring operations and the merge functions of `Store`, as operators | used by `Scrollback` |
| `Scrollback` | one conversation: ring, pager, resume protocol | composition of store, window, connection, server |
| `Buffers` | the set of conversations, sharing one cursor | component |
| `Windows` | several windows over one store: composer, drafts, recall, popouts, read marks | component |
| `Account` | settings and networks | component |
| `Session` | tokens, launch, login, session | component |
| `Profile` | `Account` and `Session` | composition |
| `Fetching` | what a cache of fetched things promises | abstract specification |
| `Images` | texture and preview caches, with the windows that draw from them | implements `Fetching` |
| `Downloads` | media fetched to disk to be played | component |
| `Uploads` | the attach button, and the uploads window | component |
| `Media` | `Images`, `Downloads`, `Uploads`, and the restart that ends all three | composition |
| `Calls` | the room task, the call window, the mixer | component |
| `CallCounts` | how many are in a call: frames against a snapshot | component |
| `Voice` | `Calls` and `CallCounts`: the counts follow the room | composition |
| `Display` | the lines a window draws: filter, folded runs, fast path | component |
| `Typing` | completion, the suggestion strip, recall and paste | component |
| `ChannelModes` | mode commands, ISUPPORT, the lists of the channel dialog | component |
| `Sidebar` | the list of conversations and the signals that rebuild it | component |
| `Lookups` | the channel browser and the message search | component |
| `Panes` | which panes a window shows, and the narrow layout | component |
| `Screen` | the six above | composition |
| `ConnectionProofs`, `ScrollbackProofs`, `BuffersProofs`, `WindowsProofs`, `ProfileProofs`, `MediaProofs`, `VoiceProofs`, `ScreenProofs` | theorems about the module or composition of that name (`ConnectionProofs` has those about `Bucket` too) | proofs |
| `MCConnection`, `MCBucket`, `MCScrollback`, `MCBuffers`, `MCWindows`, `MCProfile`, `MCMedia`, `MCVoice`, `MCScreen` | the instances TLC checks | |

`Profile`, `Media`, `Voice` and `Screen` put components side by side. Where these
interact the composition says how: a restart ends every download and fetch at
once, and whoever enters the room changes the count. Where they do not (no
handler of one reads what the other writes), `focus` or `within` picks the one that a
behaviour follows, so that their state spaces add instead of multiplying.

### Connection

`pc` is where the connection task is in its loop: `top` (the check at the head),
`connect` (in `connect_async`), `hung` (in one that is not answered), `open` (in the reader's
`select!`), `retry` (after an attempt), `backoff` (in the wait), `stopped`. One action per step:
`TaskTop`, `Accepted` and `Refused` (the two outcomes of the upgrade), `AttemptHangs` and
`AttemptGoesOn` (the attempt has no timeout and does not select on the shutdown, so it may hang, for
a while or for good), `Receive`
(a text frame, with `Connected` in front of the first), `SessionEnds` (the `Ok` exits:
shutdown, `Close`, end of stream) and `SessionFails` (the `Err` exits: transport
error, read deadline; these return before `Disconnected` is sent), `Retry`, `Wake`.
`WriterTakes`, `WriterSends` and `WriterStops` are the writer; a verb it holds while it
waits for the bucket is lost when it is aborted. `Handle` is `on_client_event`, with
everything it calls in one step; `SetFocus`, `CloseWindow`, `SendVerb` and `Quit` are the user's.
A window that gains or loses the focus asserts presence at once; one that is closed with the focus only leaves the
set of focused windows (`ChatWindow::detach`, `App::unsubscribe`), which `unasserted` remembers until something asserts again.
`LinkFault` is the network: the server closes, the connection resets, or it goes
half open and neither side hears of it. The server's part (`Burst`, `Deliver`) is external.
Abstractions: frames are *content* or *complete*; a verb is its number and whether it
is presence; a refusal is its class; a failure's message decides in the code whether the
session is dropped, here that is a free choice.

### Bucket

Tokens and time are both counted in ticks, so a verb costs `Cost` ticks of refill.
`Acquire` is `Bucket::acquire` called with a verb in hand (sent at once when the wait is zero),
`Send` the send after the wait. A timer may be late, never early. The code counts in `f64`;
the model has no rounding.

### Ring and Scrollback

A row is its id, or `LocalRow` when it has none (a line that is not persisted). `Ring`
follows `store.rs` function by function; the loop that inserts a slice row by row is a recursive function (`Absorb`).
`Scrollback` holds one conversation's buffer, the cursor, the window's `paging` flag, the
frames on their way to the store and the requests on their way to the server, in order.
`ApplyFrame` is `apply_frame` and the redraw that ends a page load; `Activate`,
`ScrollToTop`, `OpenResult`, `ReturnToPresent` and `InjectLine` are the window's operations;
`Post`, `Connect`, `Answer` and `Lose` are the server and the network, which are external: the
log only grows, a resume answers with the gap or with the newest rows, a page
may have any of the `PageSizes` (the client counts pages in renderable rows, so the number of
rows differs), and a loss drops any suffix of the frames and any prefix of the requests.

`spoiled` records which of the ring's known weaknesses has struck in a behaviour;
`NoHole`, `PagerArmed`, `EffectsOnce` and `CatchesUp` exempt exactly what they name:

| `spoiled` | What happened |
|---|---|
| `jump` | a slice around a search result was merged: `recompute_newest` lowers the high-water mark, so replayed rows run their effects again |
| `overlap` | `replace` judged overlap by the newest id alone and kept rows that a gap separates from the slice |
| `local` | an older row was merged while a row without an id came last: it is appended below |
| `clamp` | a slice was cut down to the merge limit |
| `cut` | a connection was lost with part of its burst undelivered |
| `late` | the old edge moved while the page asked for at it was on its way (tokens are sent and never compared) |
| `skip` | a session that starts without a cursor took it from the snapshot, past rows that a conversation in use lacks; the shells that follow carry none |

`NoHole` and `PagerArmed` further speak only of times when no burst is on its way (`BurstApplied`) and of fewer local
lines than the ring has places: as many of them evict every row (`Sound`).

### Buffers

The client's half is `Store`: `buffers` (a function on the keys held), `cursor`,
`backlogComplete` and the snapshot's nicklists; `ApplyFrame` with one operator per handler
(`ApplySnapshot`, `ApplyRow`, `MergeBacklog`, `MergeHistory`, `RenameBuffer`, ...). Rings are sets of ids, since order and bounds are `Ring`'s. The server's half is
external: `log`, the keys `open`, `joined`, `members`, `unread`, and what each device does
to them (`Say`, `SelfJoin`, `Close`, `Open`, `Rename`, `Clear`, `MarkAllRead`, `DeleteNetwork`, ...);
it is the truth with which the client's copy is compared once nothing is on its way.
Rows of the network and of the system buffer have ids from two sequences, as the code's
cursor rule assumes. History variables name the exempted cases: `missed` (closed, renamed
or cleared while the client was away: a burst does not mention what is gone), `revived` (a history reply that was
under way brings a closed conversation back), `merged` (a rename joined two rings that both had rows),
`skipped` (rows below the cursor that went down with a burst).

### Windows

`win` maps each window to what it shows, the text of its composer, its place in the recall,
`armed` (the second press before a message is split), focus, and the newest row drawn. The store
has each conversation's draft, lines to recall, newest row and read mark. Marks are sent again at every look
while the server's lags; a draft is sent once, when it changes, so its way to the server is modelled: `posted` is what the server was told last, `flight` the
conversations whose verb is queued or being written, `kept` what the server has, and `missed` those
whose verb was lost with its connection and is never sent again, since `save_draft` returns early
when the text is the stored one (window.rs:5203). `Queues` puts what a handler posts on its way, `Deliver` brings it; a loss
takes any of what is in flight, and the rest, still queued, goes down with the next connection. Handlers are operators on a *desk*, everything that a GTK handler may change at once
(`Activate`, `SaveDraft`, `MarkRead`, `Render`, `Detach`), and actions apply them in the order
of the code. `work` is what the user last left in a conversation's composer; `excused` are
the conversations whose text has met a known weakness: shown by two windows, a recall
(Down with nothing recalled brings an old stash back), a command that switches (`/query`), a draft from another device,
a rename into it.

### Account, Session, Profile

`Account` has the server's settings and networks, the application's (`values`, the registry,
and `unit`, the cached pair that history pages are counted in), the settings window and the
network dialog. Every REST call is a slot of `calls`: the server takes calls in any order, replies
come in any order, and a call may fail before or after it took effect. One action
per request, per reply and per failure. `late` records the keys on which client and server differ for
a reason that is known: an older reply or frame overtook a newer write, another device wrote while this one was away, or a
fetch that failed.

`Session` has the four places a token may be kept in (keyring and file, under the present and the old
name of the application), whether the keyring answers, which tokens the server accepts, and the process: login window,
chat windows, token, socket, task. Actions are the launch, the login and its answer, the start
of a session with the roster fetch that checks the token, the socket's states, the 401s, and
the closing of windows. `told` are the tokens refused and forgotten; tokens 1 and 2 are those under the old name, `left`
those a keyring kept because it did not answer when they were superseded; the properties except both,
since `clear` does not reach them (credentials.rs:102).

### Images, Downloads, Uploads, Media

`Images` follows `ImageCache` (`begin`, in flight, failed), the preview map with its reserved
slots and its file, and `drawn`, what each window has drawn for each link. Every redraw asks for what it embeds (`Embedded`,
`Redrawn`); `FetchEnds` is the completion on the main loop, which redraws the conversation that asked
first. `Downloads` follows `fetch_media` chunk by chunk: create the partial
file, write, rename; a path names a file, and a task goes on writing the file that it opened,
whatever the path names by now. `shared` marks a file that a second download of the address
has opened or renamed: it may stay in the cache incomplete, against the comment at app.rs:1075.
`Uploads` has the composer's upload (file chooser, paste, drop, size limits) and the uploads window with its editors, any number of them per window; `muddled`
excepts refused and overlapping calls, other devices and a second window.

### Calls, CallCounts, Voice

`task` is where a call's room task is: `minting` the token, `connecting`, `publishing` the
microphone, `waiting` in its `select!`, `handling` an event, `leaving`. `heard` are the room's events, `told` the events
for the window. The room and its server are external: somebody has a microphone and may turn a camera on
and off, one user has one seat. `deaf` are calls that hung up while the task did not wait
(`notify_waiters` wakes only who waits now), `muffled` participants that stopped a camera, with which
their audio queue goes. `CallCounts` is the store's count: changes by frame, what was missed by a
REST snapshot after each burst, if the capabilities have arrived by then; `skewed` marks a snapshot
that failed or was overtaken. Audio samples, muting and the speaking marks are left out.

### Display, Typing, ChannelModes, Sidebar, Lookups, Panes, Screen

`Display`: `log` is what happened in a channel, each entry with the channel as it was then, so that what a summary
claims can be compared with what was so. `Rows` is the filter with its three tiers, `LinesOf` folds runs as
`consolidate` does (identities over nick changes, outcomes, names spelled out), `CanAppend` and `Render` are the fast path of
`render_active`. Actions: something happens, a page or a fill arrives, a setting changes, a conversation is opened.

`Typing`: a line is a sequence of words. `Tab` is `complete_nick`: it goes on with the cycle there is (`Cycle`), or starts one
(`Start`), or does nothing (`Fruitless`). Shift is a key too: GTK delivers its press before the Tab (`PressShift`), the handler takes it for any other key, and
the cycle ends (`Drops`). A cycle therefore goes back only if it was begun with Shift held, and turns forward when Shift is released.

`ChannelModes`: the network's log is what the bouncer keeps; 005 lines, list entries and list ends are rows of it. Commands
become lines as `to_raw` has it, and the dialog picks rows out of the log as `Scan` has it, over lost connections and slices. What is asked of the network is one queue, `out`; the
last `held` lines of it are still in the client, whose queue outlives connections. When the network registers anew (`Register`) it loses any of what had gone out and nothing
of what had not; `crossed` marks lines that were queued when it came to a server with another `q`, of which nobody can say what they will do.

`Sidebar`: `store` is what the list is made from; `List` is `rebuild_buffer_list`, `Relists` the signals that call it.

`Lookups`: verbs and answers about channels go in order, those of searches in any order. What is sent while the connection is down waits in the client's queue
until a session's writer takes it (`Take`, `TakeSearch`; `taken` and `reached` say how far it is); a loss takes what was taken and not answered, and the answers not yet received.

`Panes`: `pane` has the flags of the narrow layout, the panes in view and where the tools are; `Layout`, `Settled` and
`MemberColumn` are the three functions of window.rs that decide, `Put` shows or hides one pane. The width is noticed one frame later (`Tick`).

## 3. The runs that pass

| Run | Instance | Properties |
|---|---|---|
| `connection` | delays 1, 2, 3; two faults, attempts that hang among them; one verb of the user's; about 480 000 states | `HonestState` `AbsenceIsProof` `PresenceAgrees` `VerbsInOrder` `FramesOnlyWhileConnected` `ShownStateFollowsAutomaton` `Recovers` |
| `bucket` | a bucket of 7 ticks, verbs of 3, 20 ticks; about 59 000 states | `RateBound` `NoNeedlessWait` |
| `scrollback` | ring of 3, merge limit 2, hydration of 1 row, pages of 3, a log that starts empty or with one row and grows to 5, one request outstanding, one local line, one jump, one loss; about 1.3 million states | `RowsInOrder` `EffectsOnce` `NoHole` `PagerArmed` `CatchesUp` |
| `buffers` | a channel, two conversations, the system buffer, one other user; three rows, three moves, up to two frames under way when the server acts; about 3.7 million states | `HeldIsOpen` `ViewAgrees` `RowsAgree` |
| `windows` | the main window and a popout, three conversations of which one is the renamed other; one row and one sent line each, three moves; about 390 000 states | `ComposerAgrees` `ShownIsRead` `SplitWasAsked` |
| `profile` | two settings, one network, two calls at once, three moves; four tokens, two chat windows, eight chances; about 320 000 states | `SettledAgrees` `UnitFollows` `DeadIsForgotten` `ResumesNewest` `Settles` |
| `media` | two windows, two conversations, an image and a page whose card shows it, four turns; two posters, three downloads of two chunks, two faults; one uploader, three uploads, four calls, two windows; about 270 000 states | `ArrivedIsDrawn` `CachesKeepPromise` `CachedIsWhole` `WaitsHaveTasks` `ChoiceAgrees` |
| `voice` | one other participant, two calls, two moves, two connections; about 660 000 states | `CallAgrees` `CountAgrees` `EndTogether` |
| `screen` | two people and a spare nick, four turns after the first two rows, a ring of four; lines of three words, six keys; two masks, five rows of log; three changes of the list; two networks, two filters, three verbs, three searches; panes unbounded; about 890 000 states | `ShownAgrees` `TabAgrees` `DoesWhatItSays` `ListAgrees` `SidebarAgrees` `LookupAgrees` `PanesAgree` |

What the properties say:

* `HonestState`: once every event is handled, the windows show what the task is doing.
  The `Err` path of a session never sends `Disconnected`; the property shows that the
  `Backoff` behind it is enough. `FramesOnlyWhileConnected`: no frame is applied before the
  `Connected` of its session or after the event that ended it. `ShownStateFollowsAutomaton`: the refinement of `ConnStates`.
* `AbsenceIsProof`: `backlog_complete` is only ever true of the session whose frames the store
  applies. `PresenceAgrees`: when everything queued is delivered, the server's idea of presence, which every
  new socket resets, is right, but that it goes on taking the user for present while the focused window was closed and no other has reported. `VerbsInOrder`: no verb is received twice or out of order across sessions (one may be lost).
* `Recovers`: the client ends up connected over a working transport, or has
  been stopped or refused for good, and a shutdown stops the task wherever it is; the one exception to both is an attempt that hangs for good.
* `RateBound`, `NoNeedlessWait`: what the limiter does guarantee, and that it never waits in vain.
* `RowsInOrder`, `EffectsOnce`: each row once, in order between two local lines, with its side effects once.
  `NoHole`: between the oldest row held and the cursor nothing is missing once a burst is applied,
  so the cursor never skips a row that follows those a conversation holds. `PagerArmed`: while older rows exist on the server, the pager can ask for them.
  `CatchesUp`: after the last loss, a hydrated conversation ends up with the newest row, and every page load ends.
* `HeldIsOpen`: a closed conversation does not come back, and an open one is held; `ViewAgrees`: membership, members and unread
  are the server's; `RowsAgree`: each conversation has its own rows without a hole, although one cursor serves all.
* `ComposerAgrees`: what was written and not sent is in the composer or in the draft, and what was sent is in neither; the server has
  the same draft unless the verb with it is still under way or was lost with its connection.
  `ShownIsRead`: a focused window has drawn and marked the newest row, and a popout has its conversation after a burst.
  `SplitWasAsked`: the second press that lets a message be split was for this line in this conversation.
* `SettledAgrees`, `Settles`: with nothing under way, settings and networks are the server's; and it comes to that.
  `UnitFollows`: the unit that history pages are counted in is what the settings say, whichever path brought them.
* `DeadIsForgotten`, `ResumesNewest`: a launch does not resume with a token that was refused, and does with the one of the last login.
* `CachesKeepPromise`: the refinement of `Fetching` by both caches, including that no fetch is under way for ever.
  `ArrivedIsDrawn`: what has come is drawn where it is shown. `CachedIsWhole`: what would be played from the cache is complete.
  `WaitsHaveTasks`: nothing waits for a task that is gone. `ChoiceAgrees`: the radio that is on is where uploads go.
* `CallAgrees`: the window lists, and the mixer plays, who is in the room. `CountAgrees`: the badge says how many. `EndTogether`: call and window end together.
* `ShownAgrees`: appending gives what drawing again would, over evictions too, and a summary tells what happened to each person. `TabAgrees`: a cycle
  of completions changes its word only, however often Tab is pressed. `DoesWhatItSays`: a mode command does what it is called, or nothing, unless
  the network came to a server of the other kind while it was queued. `ListAgrees`: the dialog
  shows the list it asked for. `SidebarAgrees`: the list is up to date, with each conversation in one section. `LookupAgrees`: what is shown answers what was asked last, if neither that nor its answer was lost with a connection.
  `PanesAgree`: one pane in a narrow window, the wished ones in a wide one.

Type invariants (`TypeOK` and its like) are conjuncts of the first property of each component, and proved with it; those of `Connection` and `Bucket` (`BucketTypes`) have theorems of their own (section 5).

### Refinements

`Connection` implements `ConnStates` with `conn` for its state. `Images` implements `Fetching`: `FetchSlots == INSTANCE
Fetching WITH Addresses <- Links, slot <- Slot`, where `Slot` reads a link's place from the three sets of the texture cache
or from the preview map. A step of the code may start several fetches (a redraw) and end one; a restart keeps results only.

### Bounds

Two faults give three sessions in a row: a failure, its retry, and a failure of the retry, in each
of the kinds (an attempt that hangs is one); events of two sessions can be queued at once. The delays 1, 2, 3 reach the cap. For the
ring the limits keep the order the code has (hydration of 150 rows, merge limit 250,
ring 500): a page may exceed the merge limit, a gap may exceed the merge limit, a merge may overflow
the ring, and every eviction, clamp and replacement occurs. One request outstanding already
races with live rows, losses and bursts. In `Buffers` three moves are enough for a close, a rename or a
clear to meet a loss and an opening, and two frames under way when the server acts are enough for a row and its count to wait behind one that moves their conversation. In `Windows` three moves give a switch, a rename and a closing around one text. Two
calls at once overtake each other; two connections give a snapshot of an older burst; three downloads give one that fails and two that
share a file. In `Display` a turn is something that happens or
a look (a page, a setting, a conversation opened). The log starts with two rows and the ring has four places, so that four turns bring up to six rows, of which two are evicted, a run
grows while rows follow it, a page meets a setting or a divider, and a person can leave, come back and change nick. `MaxFirst` bounds how late in the log a network registers anew.
No symmetry is used.

### Fairness

In `Connection` the runtime polls each task, so each step of the task, the writer as a whole and
`Handle` are weakly fair. `Accepted` is fair for an attempt that neither is refused nor hangs; that a hanging one ever goes on is not
assumed, since nothing bounds the handshake (socket.rs:218). `SessionFails`
is fair on the strength of `READ_DEADLINE`. Faults, refusals and the user are not fair. In `Scrollback` the main loop
takes frames (`WF_frames(Takes)`: every `ApplyFrame` step is a `Takes` step and is enabled with it), the
connection task reconnects and the server answers while the connection is up. In `Account` each call is answered, with success
or failure; rest.rs sets no timeout (rest.rs:259), so `Settles` rests on the server answering or reqwest noticing that the link is dead, and frames that have come are read. In `Media` each
fetch ends (media.rs gives it 60 seconds). In `Voice` the room's task runs and the main loop drains the window's events. Nothing is
assumed of the user.

## 4. The runs that find a violation

Each checks what a comment in the source says; `PROJECT.json` quotes it.

| Run | Property | What TLC shows |
|---|---|---|
| `bucket_overrun` | `StaysInside` | the time of a wait is credited again by the next call, so after a burst the client sends at up to twice the refill and the server's bucket runs out; the trace has no late timer |
| `hangup_lost` | `HangupLeaves` | a window closed while the room is being connected or the microphone published: nobody waits for the notification yet, and the task stays in the room |
| `wide_shows_conversation` | `WideShowsConversation` | a narrow window that shows the list or the members hides the conversation; leaving the narrow layout restores what the settings say, which is not the conversation |

Other places where code and comment differ are exempted by a property or covered by none (see the notes in `PROJECT.json`, and the tables above):
the delay is not reset when a session ends with an error (socket.rs:19, 168, 194); Shift+Tab after a Tab too many does nothing, since the press of Shift has
ended the cycle and a blank stands before the cursor (window.rs:1217, 5281); the last page, cut to the merge limit,
disarms the pager (store.rs:1244); superseded history replies are merged (app.rs:100); conversations closed elsewhere stay (store.rs:602);
replays after a jump run their effects again (store.rs:108); Down without a recall brings back an old stash; a half-written file may be
cached by two downloads (app.rs:1075); the second Tab on a command or channel in the first column completes a nick (window.rs:5291); ISUPPORT
in a history slice is not merged (store.rs:1226).

## 5. What is proved

The proofs assume only the constants' assumptions named in the modules (`BackoffAssumption`,
`WindowsAssumption`, ...): bounds are numbers, sets that are chosen from are finite where the code's are,
and constants that stand for different things differ. The theorems therefore hold for any number of faults, sessions, verbs,
popouts, rows, networks, calls, links, uploaders, participants and moves.

| Run's property | Theorem | | Run's property | Theorem |
|---|---|---|---|---|
| `HonestState` | `ShownStateIsHonest` | | `CachedIsWhole` | `CacheHoldsWholeFiles` |
| `FramesOnlyWhileConnected` | `FramesFollowConnected` | | `WaitsHaveTasks` | `WaitersAreTold` |
| `ShownStateFollowsAutomaton` | `ShownStateImplementsAutomaton` | | `ChoiceAgrees` | `RadioIsWhereItGoes` |
| `VerbsInOrder` | `VerbsStayInOrder` | | `ArrivedIsDrawn` | `WhatCameIsDrawn` |
| `AbsenceIsProof` | `AbsenceProves` | | `CallAgrees` | `CallersAreListed` |
| `PresenceAgrees` | `PresenceIsKnown` | | `CountAgrees` | `BadgeIsRight` |
| `RateBound` | `RateIsBounded` | | `PanesAgree` | `PanesAreRight` |
| `NoNeedlessWait` | `WaitsAreNeeded` | | `LookupAgrees` | `LookedUpIsShown` |
| `ComposerAgrees` | `TextIsKept` | | `SidebarAgrees` | `SidebarIsRight` |
| `ShownIsRead` | `ShownAndRead` | | `TabAgrees` | `TabsGoAround` |
| `SplitWasAsked` | `SplitIsConfirmed` | | `DoesWhatItSays` | `CommandsDoWhatTheySay` |
| `SettledAgrees` | `SettlesOnTheServer` | | `DeadIsForgotten` | `RefusedIsForgotten` |
| `UnitFollows` | `UnitIsTheSettings` | | `ResumesNewest` | `NewestIsResumed` |
| `HeldIsOpen` | `OpenIsHeld` | | `ViewAgrees` | `ViewIsRight` |
| `ListAgrees` | `ListIsShown` | | `RowsInOrder` | `RingIsOrdered` |
| `EffectsOnce` | `EffectsRunOnce` | | `NoHole` | `NothingIsMissing` |
| `PagerArmed` | `PagerStaysArmed` | | | |

Each proof has one shape: an invariant, a conjunction of named parts, of which TLC found no violation on the run's instance (`HoleInv`, which asks for two functions on the queue, is too costly for TLC: there only the properties were run); one lemma per
part (or, in `WindowsProofs`, per action) saying that no step breaks it; and a temporal step at the end. What the invariants say, and why the properties are
not inductive without them:

`ConnectionProofs`:

* `Typing`: `TypeOK`.
* `EventGrammar`: `Grammar`. The state the application shows, followed by the
  events still queued, is a word in which each letter may follow the one before (`Follows`), and its last
  letter is one the task may have said last where it is now (`Said`). No property of `conn` is inductive by itself,
  because what `conn` will be is already in the channel.
  `AppendWord` and `TailWord` are the two ways the word changes; `GrammarStep` goes through the actions.
* `ShownStateIsHonest`: from the grammar with an empty channel. `FramesFollowConnected`: only `connected` or a frame may precede a frame.
  `ShownStateImplementsAutomaton`: each letter that may follow is an edge of the automaton.
* `VerbsStayInOrder`: from `Queued`: what waits is increasing, the verb in hand is
  older than what waits and newer than what was received, and nothing is newer than what was issued.
* `AbsenceProves`: from `Sessions`: frames queued one after the other come from one session, the store's burst from that of
  the frame before them; a session's end stands between two sessions' frames, because of the grammar.
* `PresenceIsKnown`: from `Presence`: either the queue (with the verb in hand) still asserts the present focus last, or the server knows it, or the
  `Connected` whose handling will assert it is queued or still to be said; all of this of the presence asserted last, which is the present one unless `unasserted`.

`ConnectionProofs`, on `Bucket`:

* `Accounts`: the inductive invariant. `Budget` pays for all that was spent out of the full bucket, the refill up to
  `last`, and the waits, which all end by `due`; `Ahead` says that the client's level is at least the server's.
* `BucketTyping`, `RateIsBounded`, `WaitsAreNeeded`: `BucketTypes`, `RateBound` and `NoNeedlessWait` from it.

`ScrollbackProofs`: first what each operation of `Ring` makes of a ring (`InsertIs`, `AbsorbIs`, `SpliceIs`, `ReplaceIs`, `MergeBacklogIs`, ...), then the invariants.
What the loop over a slice does is proved by its smallest prefix that would break it (`WFMin`), for the recursive function that `Absorb` is.

* `RingIsOrdered`: from `RingInv`: what is held, on its way or asked for is of the log (`Stock`: a ring in order, slices that rise). An insertion finds a place between a smaller and a
  greater id (`Belongs`), also in a ring that is out of order across a line without an id; a replacement keeps rows above the slice only.
* `EffectsRunOnce`: from `OnceInv`. A live row is the newest of the log when it is sent, so nothing ahead of it in the queue is above it (`InTurn`). While no jump has lowered the
  high-water mark, the ids in the ring ascend and no more lines without an id follow the last of them than were injected (`Neat`); with fewer of these than the
  ring has places, an eviction cannot take the newest row, so the mark never falls (`MergeBacklogTidy`, `MergeHistoryTidy`) and effects have run only at or below it (`Ran`). TLC finds the
  violation without that bound: as many injected lines as the ring holds evict every row, and the next slice resets the mark.
* `NothingIsMissing`, `PagerStaysArmed`: from `HoleInv`, together with the two above. Neither property is inductive, since what a burst fills in and what a page meets depends on the frames
  ahead of it. `Leads(f, t, c, t1, c1)` says of one frame that, with nothing missing up to `t` and the cursor at `c`, it brings them to `t1` and `c1`; `LeadTo` says it of a queue. The frames on their
  way lead from what is held (`Meets`) to the server's newest row, or, after a loss, to where they still go (`Led`); a page ends right before a row that is held or above one (`EdgesMet`); a snapshot comes
  right before its slice (`Announced`). Without a burst in the queue `t` is the cursor (`NoneAhead`), which is `NoHole`. `Crops` is what all merges have in common: of the rows they bring together they keep the
  newest, and say that older ones remain if any is dropped; `SliceMeets` and `SliceArms` say that the rows brought together have no hole and reach the log's beginning where the frame says so.

`BuffersProofs`: what the store will be when all frames on their way are applied is decided, per conversation, by the last frame that says something of it (`Ends`: what puts it
in, what takes it out, and whether it is in now). The theorems are proved for any number of frames under way, which the run bounds.

* `BufferTypes`: `Types`, with `Sound`: no frame names a row that the log does not have yet. `ApplyKeepsTypes` goes through the kinds of frame.
* `OpenIsHeld`: from `HeldInv`. What is closed on the server will not be held (`ClosedGo`), what is open will (`OpenStay`), and each frame that needs its conversation
  in the store finds it there (`Expected`): without the last part `OpenStay` does not survive a rename, or a row for a conversation that rows cannot open (`MayMaterialize`).
* `ViewIsRight`: from `ViewInv`, which adds what the queue says of membership, members and unread counts (`JoinedComes`, `MembersCome`, `UnreadComes`), that nothing is unread
  of what has no rows (`UnreadIsThere`), and that live rows are newer than what is held and than what precedes them (`RowsAreNew`): only then is no
  row of a join or a part taken for one already applied. A channel that a snapshot describes is followed by its slice, so that it
  adopts the snapshot's members. `Told` is the store's half: what applying each kind of frame does to a conversation.
  The server's half, a lemma per action, reads what the queue says now (`ViewNow`) and gives what it says with the frames appended (`ViewNext`).

`WindowsProofs`: `WindowsInv` is an invariant of the desk (`DeskOK`) with `Control` and, for every conversation that is not excused, `Alone` and
`Agrees`. `DeskOK` has `Tidy` (a closed window shows nothing, one window has the focus), `Bare` (nothing is kept of a conversation that is not held;
what is read is marked), `Pins` (an open popout's conversation is held, or it is an orphan) and `Drawn` (newest row, read if focused, unless the window is late).
`Agrees` says that a window showing the conversation has the text, that without one the draft has it, that the server was told that draft, and has
it unless the verb is in flight or missed; `Alone` that no two
windows show it. The lemmas are about the operators that the handlers are made of (`SaveDraftKeeps`, `MarkReadIs`, `RenderIs`, `ActivateIs`, `DetachIs`,
`WindowSet`), each of which keeps a desk in order; an action is then a chain of them, and has a lemma of its own (`FocusOK`, ..., `RenamedFrameOK`, `QuitOK`).

`ProfileProofs`:

* Session: `SessionInv`. Tokens are numbered as they are issued (`Numbered`), which window is open and what was told go with where the
  process is (`Turns`), a place that still has a refused token is excused (`Forgotten`), and the newest token is where it was stored with nothing
  loaded before it, unless it was refused (`Newest`).
* Account: `AccountInv`. A setting on which client and server differ is `late`, or a fetch or write that will bring it is under way, or a frame
  is (`SettingsAgree`); a network that only one side has is being created or deleted, or a roster that names it is on
  its way (`NetworksAgree`), for which no network may be created twice or before its deletion is known (`Orderly`).

`MediaProofs`:

* `DownloadInv`: the file that a running download writes has all it wrote unless it is shared; whatever has not begun has no file yet.
* `ChoiceInv`: at most one call is unanswered, and windows and server agree but for the change that this call makes (`Awaited`).
* `ImagesInv`: what each window drew agrees with the caches, and so does what is saved. `CachesFetchOnce` is the safety part of the refinement of `Fetching`
  (initial states, and each step a fetch, a restart or a stutter): asking only moves a link that is absent (`GrownMoves`).
* Where the first of several windows or calls is taken, the proof uses that the order of the naturals is well-founded (`WFMin`).

`VoiceProofs`:

* `CallInv`: for each participant, what the queued room events say last (`Ends`), upon what the window lists or will list, is whether it is in the room, and the
  same for its queue in the mixer (`Knows`); what the window will list is again decided by what it was told last (`Shown`). `EndsAppend` and `EndsTail` are the two ways a queue changes.
* `CountsInv`: every count frame carries what the server counted then, the last one what it counts now; a snapshot that is not late is as old as the frames that follow it.

`ScreenProofs`:

* `PanesInv`: the types and the property.
* `FinderInv`: the search window waits for its last search or for none. `BrowserInv`: the last of the queries under way is the one asked last; without one the last
  answer is; without either the page is (`PagesCome`), and likewise for "still fetching" (`BusyComes`). Queries that the writer has not
  taken survive a loss and are the newest ones, which `ConnectionLost` uses: if the query asked last was taken, it is the last lost.
* `SidebarInv`: the list is the one that the store gives now, up to a channel that was left; `RelistedOrSame` shows that a signal which does
  not relist changed nothing that `List` reads. `OneSection` is a lemma about `List` alone.
* `CycleInv`: the candidates are those of the word that the cycle began with (`Begun`), and until the line is changed it is what the current candidate makes of it (`Lapped`), whichever way the cycle turns;
  `OnceMore` says that completing a completed line again is the same as completing the original.
* `ModesInv`: what the client takes `q` to be is what the newest 005 line that came live says (`QIsHeard`), what the server does is what the newest one says (`QIsSaid`), and every line
  on its way, gone out or held by the client, that was sure when given and has not `crossed` still does only what it is called.
* `DialogInv`: while it collects, the dialog has looked at every row that came (`LooksOn`), and it stops only at the end of a list (`Stopped`). What answers it is one stretch of the log, entries
  and then the end (`AnswerIs`), and it shows those of them up to where it has looked (`Shows`). `ComeKeepsList` is the step at which rows come: the newest ones are all in the ring (`LastOfIs`),
  and their entries continue those shown (`ReadsOn`).

Only model-checked:

* `ShownAgrees` of `Display`: the folded runs and their names are folds, and what these compute for every input
  needs induction over data, which is beyond the prover.
* `RowsAgree` of `Buffers`: which rows a slice brings depends on the cursor at which it was asked for, and a rename changes the keys of rows that are already in the log, so that
  its invariant would have to replay the log under each frame on its way, row by row.
* Everything that rests on fairness: `Recovers`, `CatchesUp`, `Settles`, `EndTogether`, and that fetches end (`CachesKeepPromise`).

## 6. What is not modelled

* Wire decoding and encoding, REST requests, formatting, colours, the theme, paths: pure functions. Frames
  appear as the fields the store reads; one that does not decode is an event of `Connection`. Of the splitting of a
  message only that it happens and must be confirmed.
* Topics and typing marks: single assignments.
* The quick switcher, whois, the friend dialog, the menus and tiling: each turns input into one verb or one desktop command.
* The jump to the next unread conversation, notifications, sound, the upload of diagnostics.
* Audio samples, muting, who speaks, and the moderation and policy dialogs of a call.
* Rendering as such, GTK's own state, the order of the rows of the sidebar.

`PROJECT.json` lists each component with the reason.

## 7. The plan

What remains is proof: `RowsAgree` of `Buffers`. With `HeldInv` and `ViewInv` established, what is missing is what the cursor promises of each conversation
when a burst is under way: that the rows held, with those on their way, have no hole below the newest. `HoleInv` of `ScrollbackProofs` is the argument for one conversation.
