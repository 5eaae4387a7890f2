-------------------------------- MODULE Windows --------------------------------
(***************************************************************************)
(* The chat windows over the one store (scully window.rs, main.rs, app.rs):  *)
(* which conversation each shows, the line in its composer, drafts, recall    *)
(* of sent lines, the second press before a message is split, popouts, and    *)
(* marking as read what a focused window shows.                               *)
(*                                                                          *)
(* A conversation is the number of its newest row, a draft, how many lines    *)
(* were sent from it, and how far it is read.  A line is a message that would  *)
(* be split, the command that opens a conversation, or a short line recalled   *)
(* from the history.                                                         *)
(***************************************************************************)
EXTENDS Naturals, FiniteSets, Functions

CONSTANTS
  Main,        \* the window with the sidebar
  Popouts,     \* the windows that can be popped out of it
  Channel,     \* a joined channel
  Peer,        \* a conversation with another user
  Renamed,     \* the same, under the nick that user can change to
  AllowSplit,  \* chat.allow_split_messages
  MaxRows,     \* bound: rows of a conversation
  MaxRecall,   \* bound: lines a conversation remembers
  MaxMoves     \* bound: changes to a line, recalls, popouts, focus lost, rows, marks, closings, renames,
               \* drafts of other devices, drafts delivered, connections lost, all together

ASSUME WindowsAssumption ==
  /\ IsFiniteSet(Popouts) /\ Main \notin Popouts
  /\ Cardinality({Channel, Peer, Renamed}) = 3 /\ "none" \notin {Channel, Peer, Renamed}
  /\ AllowSplit \in BOOLEAN
  /\ MaxRows \in Nat /\ MaxRecall \in Nat \ {0} /\ MaxMoves \in Nat

VARIABLES
  (* the store *)
  held,      \* the conversations it has
  draft,     \* "" where there is none
  recalls,   \* lines to recall
  newest,    \* newest row, 0 for none
  read,      \* last_read_id
  complete,  \* backlog_complete
  (* the windows *)
  win,
  connected,
  running,   \* FALSE once the application has quit
  (* the server *)
  posted,    \* the drafts it was told last, whether it has heard of them or not
  flight,    \* the conversations whose last draft verb is queued or being written
  missed,    \* those whose last draft verb was lost with its connection
  kept,      \* the drafts it has
  marked,    \* the read marks it has, or that are queued for it
  (* history, for the properties *)
  work,      \* what the user last left in the composer of a conversation
  excused,   \* conversations whose text met one of the hazards
  split,     \* how the last message that is split was sent
  moves

wire == <<flight, missed, kept>>
server == <<posted, marked, wire>>
link == <<complete, connected, running>>
story == <<split, moves>>
vars == <<held, draft, recalls, newest, read, win, server, link, work, excused, story>>

Windows == {Main} \cup Popouts
Keys == {Channel, Peer, Renamed}
None == "none"
Typed == {"", "long", "query"}
Lines == Typed \cup {"recalled"}
Drafts == {"", "long"}   \* those that another device may write

NewWindow ==
  [open |-> FALSE, pinned |-> None, active |-> None, text |-> "", pos |-> 0, stash |-> "",
   armed |-> FALSE, focus |-> FALSE, drawn |-> 0,
   asked |-> "",      \* history: the line the user was asked about, as long as it stands
   late |-> FALSE,    \* history: the one shown was closed, or another renamed into it
   orphan |-> FALSE]  \* history: the pinned conversation was closed during a burst

OpenWindows(ws) == {w \in Windows : ws[w].open}
ShowingIn(ws, k) == {w \in OpenWindows(ws) : ws[w].active = k}
Showing(k) == ShowingIn(win, k)

--------------------------------------------------------------------------------
(* What handlers do, as operators on everything they may change at once *)

Desk == [held |-> held, draft |-> draft, recalls |-> recalls, newest |-> newest, read |-> read,
         win |-> win, posted |-> posted, marked |-> marked]

\* The desk after a step.  A conversation shown by two windows is excused: each
\* of them takes the store's draft for its own.
Becomes(d, w, ex) ==
  /\ held' = d.held /\ draft' = d.draft /\ recalls' = d.recalls
  /\ newest' = d.newest /\ read' = d.read
  /\ win' = d.win /\ posted' = d.posted /\ marked' = d.marked
  /\ work' = w
  /\ excused' = ex \cup {k \in Keys : Cardinality(ShowingIn(d.win, k)) > 1}

\* The draft verbs that the step sends are queued (App::send); a verb for a
\* conversation whose last one is under way takes its place.
Queues ==
  LET told == {k \in Keys : posted'[k] # posted[k]} IN
  /\ flight' = flight \cup told /\ missed' = missed \ told
  /\ UNCHANGED kept

DraftOf(d, k) == IF k \in d.held THEN d.draft[k] ELSE ""

\* mutant: an emptied composer leaves the old draft
SaveDraftUnlessEmpty(d, ws) ==
  LET texts(k) == {d.win[w].text : w \in {v \in ws : d.win[v].active = k}}
      saved == {k \in Keys : texts(k) \ {"", DraftOf(d, k)} # {}}
      last(k) == CHOOSE text \in texts(k) : text # ""
  IN [d EXCEPT !.draft = [k \in Keys |-> IF k \in saved \cap d.held THEN last(k) ELSE @[k]],
               !.posted = [k \in Keys |-> IF k \in saved THEN last(k) ELSE @[k]]]

\* save_draft, of each of ws; of two that show the same conversation one comes last.
SaveDraft(d, ws) ==
  LET texts(k) == {d.win[w].text : w \in {v \in ws : d.win[v].active = k}}
      saved == {k \in Keys : texts(k) \ {DraftOf(d, k)} # {}}
      last(k) == CHOOSE text \in texts(k) : k \in d.held \/ text # ""
  IN [d EXCEPT !.draft = [k \in Keys |-> IF k \in saved \cap d.held THEN last(k) ELSE @[k]],
               !.posted = [k \in Keys |-> IF k \in saved THEN last(k) ELSE @[k]]]

\* mutant: nothing is marked
MarkReadUnfocused(d, ws) == d

\* mark_read_to_tail, for those of ws that have the focus
MarkRead(d, ws) ==
  LET tails == {k \in d.held : /\ d.newest[k] > 0 /\ d.read[k] # d.newest[k]
                               /\ \E w \in ws : d.win[w].focus /\ d.win[w].active = k}
  IN [d EXCEPT !.marked =
        [k \in Keys |-> IF k \in tails /\ @[k] < d.newest[k] THEN d.newest[k] ELSE @[k]]]

NewestOf(d, k) == IF k \in d.held THEN d.newest[k] ELSE 0

\* render_active, and the mark that follows it
Render(d, ws) ==
  MarkRead([d EXCEPT !.win = [w \in Windows |->
              IF w \in ws THEN [d.win[w] EXCEPT !.drawn = NewestOf(d, d.win[w].active), !.late = FALSE]
                ELSE d.win[w]]], ws)

\* mutant: a changed line stays armed
SetTextArmed(r, text) == [r EXCEPT !.text = text]

\* the entry's changed signal, which only a different text emits
SetText(r, text) ==
  [r EXCEPT !.text = text, !.armed = IF text = r.text THEN @ ELSE FALSE]

Activate(d, w, k) ==
  LET saved == SaveDraft(d, {w})
      shown == [SetText(saved.win[w], DraftOf(saved, k)) EXCEPT
                  !.active = k, !.armed = FALSE, !.asked = "", !.pos = 0]
  IN Render([saved EXCEPT !.win[w] = shown], {w})

\* close_request and detach
Detach(d, ws) ==
  [SaveDraft(d, ws) EXCEPT !.win = [w \in Windows |-> IF w \in ws THEN NewWindow ELSE @[w]]]

\* Input::recall_step; 0 stands for no recall
RecallStep(pos, len, up) ==
  CASE len = 0 -> 0
    [] up -> IF pos = 0 THEN len ELSE IF pos = 1 THEN 1 ELSE pos - 1
    [] OTHER -> IF pos > 0 /\ pos < len THEN pos + 1 ELSE 0

\* select_first_buffer; the order of the others is that of a hash map
SelectFirst == IF Channel \in held THEN {Channel} ELSE held

--------------------------------------------------------------------------------
(* The user *)

Move == moves < MaxMoves /\ moves' = moves + 1

Focus(w) ==
  /\ win[w].open /\ ~win[w].focus
  /\ Becomes(MarkRead([Desk EXCEPT !.win = [v \in Windows |-> [@[v] EXCEPT !.focus = v = w]]], {w}),
             work, excused)
  /\ Queues
  /\ UNCHANGED <<link, story>>

Blur(w) ==
  /\ win[w].focus
  /\ Becomes([Desk EXCEPT !.win[w].focus = FALSE], work, excused)
  /\ Queues
  /\ Move
  /\ UNCHANGED <<link, split>>

Type(w, text) ==
  LET k == win[w].active IN
  /\ win[w].focus /\ k # None /\ text # win[w].text
  /\ Becomes([Desk EXCEPT !.win[w] = [SetText(@, text) EXCEPT !.asked = ""]],
             [work EXCEPT ![k] = text], IF posted[k] = draft[k] THEN excused \ {k} ELSE excused)
  /\ Queues
  /\ Move
  /\ UNCHANGED <<link, split>>

\* A recalled line takes the place of the text; only the step into the
\* history keeps what was there.
Recall(w, up) ==
  LET r == win[w]
      k == r.active
      next == RecallStep(r.pos, recalls[k], up)
      stash == IF r.pos = 0 /\ next # 0 THEN r.text ELSE r.stash
      text == IF next \in 1..recalls[k] THEN "recalled" ELSE stash
  IN
  /\ r.focus /\ k \in held
  /\ Becomes([Desk EXCEPT !.win[w] =
                [SetText(r, text) EXCEPT !.pos = next, !.stash = stash,
                   !.asked = IF text = r.text THEN @ ELSE ""]],
             work, excused \cup {k})
  /\ Queues
  /\ Move
  /\ UNCHANGED <<link, split>>

\* Click, switcher, notification or shortcut
SwitchTo(w, k) ==
  /\ win[w].open /\ k \in held
  /\ Becomes(Activate(Desk, w, k), work, excused)
  /\ Queues
  /\ UNCHANGED <<link, story>>

NeedsConfirmation(r) == r.text = "long" /\ ~AllowSplit /\ ~r.armed

\* Enter when submit refuses: nothing is sent, the line stays
Refuse(w) ==
  LET r == win[w] IN
  /\ r.focus /\ r.text # "" /\ r.active # None
  /\ ~connected \/ NeedsConfirmation(r)
  /\ Becomes([Desk EXCEPT !.win[w] =
                IF connected THEN [r EXCEPT !.armed = TRUE, !.asked = r.text] ELSE r],
             work, excused)
  /\ Queues
  /\ UNCHANGED <<link, story>>

\* The entry's activate handler once submit has accepted: the line is cleared
\* and remembered under the conversation that is active by then.
Sent(d, w) ==
  LET k == d.win[w].active IN
  [d EXCEPT !.win[w] = [SetText(@, "") EXCEPT !.pos = 0],
            !.recalls[k] = IF k \in d.held /\ @ < MaxRecall THEN @ + 1 ELSE @]

Submit(w) ==
  LET r == win[w]
      k == r.active
      unarmed == [Desk EXCEPT !.win[w].armed = FALSE]
      query == r.text = "query"
  IN
  /\ r.focus /\ r.text # "" /\ k # None /\ connected /\ ~NeedsConfirmation(r)
  /\ Becomes(Sent(IF query THEN Activate(unarmed, w, Renamed) ELSE unarmed, w),
             [work EXCEPT ![k] = ""], IF query THEN excused \cup {k, Renamed} ELSE excused)
  /\ Queues
  /\ split' = IF r.text # "long" THEN split
              ELSE IF AllowSplit \/ r.asked = "long" THEN "asked" ELSE "unasked"
  /\ UNCHANGED <<link, moves>>

\* open_popout: a conversation popped out already is only presented
PopOut(w, k) ==
  /\ k \in held /\ win[w].open
  /\ \A p \in Popouts : win[p].open => win[p].pinned # k
  /\ \E p \in Popouts :
       /\ ~win[p].open
       /\ Becomes(Activate([Desk EXCEPT !.win[p] =
                              [NewWindow EXCEPT !.open = TRUE, !.pinned = k]], p, k),
                  work, excused)
  /\ Queues
  /\ Move
  /\ UNCHANGED <<link, split>>

ClosePopout(w) ==
  /\ w \in Popouts /\ win[w].open
  /\ Becomes(Detach(Desk, {w}), work, excused)
  /\ Queues
  /\ UNCHANGED <<link, story>>

--------------------------------------------------------------------------------
(* Frames, and what the windows do about them (on_store_events) *)

NewRow(k) ==
  /\ k \in held /\ newest[k] < MaxRows
  /\ Becomes(Render([Desk EXCEPT !.newest[k] = @ + 1], Showing(k)), work, excused)
  /\ Queues
  /\ Move
  /\ UNCHANGED <<link, split>>

ReadFrame(k) ==
  /\ k \in held
  /\ \E upTo \in marked[k]..newest[k] :
       /\ upTo # read[k]
       /\ Becomes([Desk EXCEPT !.read[k] = upTo, !.marked[k] = upTo], work, excused)
  /\ Queues
  /\ Move
  /\ UNCHANGED <<link, split>>

\* What another device writes takes the place of the draft here, and is the
\* server's until a verb under way comes to it.
DraftFrame(k, text) ==
  /\ k \in held /\ text # draft[k]
  /\ Becomes([Desk EXCEPT !.draft[k] = text, !.posted[k] = IF k \in flight THEN @ ELSE text],
             work, excused \cup {k})
  /\ kept' = [kept EXCEPT ![k] = text] /\ missed' = missed \ {k}
  /\ Move
  /\ UNCHANGED <<flight, link, split>>

\* A slice that carries the server's own list of lines
RecallsFrame(k) ==
  /\ k \in held
  /\ \E len \in 0..MaxRecall :
       /\ len # recalls[k]
       /\ Becomes([Desk EXCEPT !.recalls[k] = len], work, excused)
  /\ Queues
  /\ Move
  /\ UNCHANGED <<link, split>>

OpenedFrame(k) ==
  /\ k \notin held
  /\ Becomes([Desk EXCEPT !.held = @ \cup {k}], work, excused \cup {k})
  /\ Queues
  /\ Move
  /\ UNCHANGED <<link, split>>

\* What the store drops with a conversation
Dropped(d, k) ==
  [d EXCEPT !.held = @ \ {k}, !.draft[k] = "", !.recalls[k] = 0, !.newest[k] = 0, !.read[k] = 0,
            !.marked[k] = 0]

\* A popout closes with its conversation, a window that only shows it goes on
\* showing its rows.
ClosedFrame(k) ==
  LET popped == {p \in Popouts : win[p].open /\ win[p].pinned = k} IN
  /\ k \in held
  /\ Becomes(Detach([Dropped(Desk, k) EXCEPT !.win = [w \in Windows |->
                [win[w] EXCEPT !.late = @ \/ win[w].active = k,
                               !.orphan = @ \/ w \in popped]]],
                    IF complete THEN popped ELSE {}),
             work, excused \cup {k})
  /\ Queues
  /\ Move
  /\ UNCHANGED <<link, split>>

Later(a, b) == IF a < b THEN b ELSE a

\* BufferRenamed: the windows follow; one that shows the absorbed
\* conversation is not drawn again.  A draft verb that crosses the renaming
\* names a conversation that the server no longer has: it counts as lost.
Retarget(r) ==
  [r EXCEPT !.pinned = IF @ = Peer THEN Renamed ELSE @,
            !.active = IF @ = Peer THEN Renamed ELSE @,
            !.late = @ \/ r.active = Renamed]

RenamedFrame ==
  LET moved == [Desk EXCEPT
        !.held = @ \cup {Renamed},
        !.draft[Renamed] = IF draft[Peer] # "" THEN draft[Peer] ELSE @,
        !.posted[Renamed] = IF posted[Peer] # "" THEN posted[Peer] ELSE @,
        !.recalls[Renamed] = recalls[Peer],
        !.newest[Renamed] = Later(@, newest[Peer]),
        !.read[Renamed] = read[Peer],
        !.marked[Renamed] = Later(@, marked[Peer])]
      gone == [Dropped(moved, Peer) EXCEPT !.posted[Peer] = "",
                 !.win = [w \in Windows |-> Retarget(@[w])]]
      crossed == {Peer, Renamed} \cap (flight \cup missed)
      lost == IF Peer \in excused \/ Renamed \in held \/ posted[Renamed] # "" \/ Showing(Renamed) # {}
                THEN {Renamed} ELSE {}
  IN
  /\ Peer \in held
  /\ Becomes(Render(gone, Showing(Peer)), [work EXCEPT ![Renamed] = work[Peer], ![Peer] = ""],
             (excused \ {Peer, Renamed}) \cup lost)
  /\ kept' = [kept EXCEPT ![Renamed] = IF kept[Peer] # "" THEN kept[Peer] ELSE @, ![Peer] = ""]
  /\ flight' = flight \ {Peer, Renamed}
  /\ missed' = (missed \ {Peer}) \cup {k \in {Renamed} : crossed # {}}
  /\ Move
  /\ UNCHANGED <<link, split>>

\* The server takes a draft verb, whatever the windows know of the connection.
Deliver(k) ==
  /\ k \in flight
  /\ flight' = flight \ {k} /\ kept' = [kept EXCEPT ![k] = posted[k]]
  /\ Becomes(Desk, work, excused)
  /\ Move
  /\ UNCHANGED <<missed, link, split>>

\* The verbs that the connection had taken may be lost with it, those still
\* queued wait for the next one.
SocketLost ==
  /\ connected
  /\ connected' = FALSE /\ complete' = FALSE
  /\ Becomes(Desk, work, excused)
  /\ \E gone \in SUBSET flight : flight' = flight \ gone /\ missed' = missed \cup gone
  /\ UNCHANGED kept
  /\ Move
  /\ UNCHANGED <<running, split>>

SocketBack ==
  /\ ~connected
  /\ connected' = TRUE
  /\ Becomes(Desk, work, excused)
  /\ Queues
  /\ UNCHANGED <<complete, running, story>>

\* backlog-complete: a window without a conversation selects one
BurstDone ==
  /\ connected /\ ~complete
  /\ complete' = TRUE
  /\ IF win[Main].active = None /\ held # {}
       THEN \E k \in SelectFirst : Becomes(Activate(Desk, Main, k), work, excused)
       ELSE Becomes(Desk, work, excused)
  /\ Queues
  /\ UNCHANGED <<connected, running, story>>

\* The main window closes, and every other one with it.  The socket is told to
\* stop before the others save their drafts: nothing more is delivered.
Quit ==
  /\ win[Main].open
  /\ Becomes(Detach(Desk, OpenWindows(win)), work, excused)
  /\ Queues
  /\ running' = FALSE
  /\ UNCHANGED <<complete, connected, story>>

--------------------------------------------------------------------------------
Init ==
  /\ held = {Channel, Peer}
  /\ draft = [k \in Keys |-> ""] /\ posted = [k \in Keys |-> ""]
  /\ flight = {} /\ missed = {} /\ kept = [k \in Keys |-> ""]
  /\ recalls = [k \in Keys |-> 0] /\ newest = [k \in Keys |-> 0]
  /\ read = [k \in Keys |-> 0] /\ marked = [k \in Keys |-> 0]
  /\ win = [w \in Windows |-> IF w = Main THEN [NewWindow EXCEPT !.open = TRUE] ELSE NewWindow]
  /\ connected = TRUE /\ complete = FALSE /\ running = TRUE
  /\ work = [k \in Keys |-> ""] /\ excused = {} /\ split = "none" /\ moves = 0

User(w) ==
  \/ Focus(w) \/ Blur(w) \/ Refuse(w) \/ Submit(w) \/ ClosePopout(w)
  \/ \E text \in Typed : Type(w, text)
  \/ \E up \in BOOLEAN : Recall(w, up)
  \/ \E k \in Keys : SwitchTo(w, k) \/ PopOut(w, k)

Frame(k) ==
  \/ NewRow(k) \/ ReadFrame(k) \/ RecallsFrame(k) \/ OpenedFrame(k) \/ ClosedFrame(k)
  \/ \E text \in Drafts : DraftFrame(k, text)

Next ==
  /\ running
  /\ \/ \E w \in Windows : User(w)
     \/ connected /\ (RenamedFrame \/ \E k \in Keys : Frame(k))
     \/ \E k \in Keys : Deliver(k)
     \/ SocketLost \/ SocketBack \/ BurstDone \/ Quit

Spec == Init /\ [][Next]_vars

--------------------------------------------------------------------------------
(* Properties *)

\* Types; and one window at most has the focus.
TypeOK ==
  /\ held \subseteq Keys /\ excused \subseteq Keys
  /\ draft \in [Keys -> Lines] /\ posted \in [Keys -> Lines] /\ work \in [Keys -> Lines]
  /\ flight \subseteq Keys /\ missed \subseteq Keys /\ kept \in [Keys -> Lines]
  /\ recalls \in [Keys -> 0..MaxRecall]
  /\ newest \in [Keys -> 0..MaxRows] /\ read \in [Keys -> 0..MaxRows]
  /\ marked \in [Keys -> 0..MaxRows]
  /\ win \in [Windows ->
       [open : BOOLEAN, pinned : Keys \cup {None}, active : Keys \cup {None}, text : Lines,
        pos : 0..MaxRecall, stash : Lines, armed : BOOLEAN, focus : BOOLEAN, drawn : 0..MaxRows,
        asked : Lines, late : BOOLEAN, orphan : BOOLEAN]]
  /\ Cardinality({w \in Windows : win[w].focus}) <= 1
  /\ connected \in BOOLEAN /\ complete \in BOOLEAN /\ running \in BOOLEAN
  /\ split \in {"none", "asked", "unasked"} /\ moves \in 0..MaxMoves

\* What the user wrote in a conversation and did not send is in the composer
\* that shows it, or else in its draft; and a line that was sent or deleted is
\* not (activate and save_draft, window.rs:2715 and 5193).  Not so after a
\* recall, a command that switches, a draft of another device, a rename into it,
\* or while two windows show it.  The server has the same draft once it has
\* heard of it: a verb that was lost is not sent again until the text is another
\* (window.rs:5203).
ComposerAgrees ==
  /\ TypeOK
  /\ running => \A k \in held \ excused :
    /\ k \notin flight \cup missed => kept[k] = draft[k]
    /\ Showing(k) = {} => draft[k] = work[k]
    /\ \A w \in Showing(k) : win[w].text = work[k]

\* A window draws the newest row of the conversation it shows, and the server
\* knows it as read if the window has the focus: whatever opened, moved or
\* filled the conversation, and whenever the focus came (window.rs:1306, 1704).
\* After the burst a popout has its conversation, whichever device closed or
\* renamed it (window.rs:1586), unless that was closed in the burst itself.
ShownIsRead ==
  /\ complete => \A p \in Popouts : win[p].open => win[p].pinned \in held \/ win[p].orphan
  /\ \A w \in OpenWindows(win) :
    LET k == win[w].active IN
    k \in held /\ ~win[w].late =>
      /\ win[w].drawn = newest[k]
      /\ win[w].focus => marked[k] >= newest[k]

\* A message that will be split is sent only after the user was asked about
\* this line, in this conversation, and pressed again (window.rs:209-212).
SplitWasAsked == split # "unasked"
================================================================================
