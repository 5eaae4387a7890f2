---------------------------------- MODULE Calls ----------------------------------
(***************************************************************************)
(* Voice calls (scully voice.rs, callwindow.rs, app.rs start_call): the call   *)
(* window on the main thread, the task that owns the room on the runtime, the  *)
(* mixer that plays what the room sends, and the room itself.                 *)
(*                                                                          *)
(* One room.  A participant publishes a microphone and perhaps a camera; audio *)
(* samples are left out.                                                      *)
(***************************************************************************)
EXTENDS Naturals, Sequences, FiniteSets

CONSTANTS
  Others,    \* the other participants
  MaxCalls,  \* bound: calls this user ever starts
  MaxMoves   \* bound: what others, the network and the server's moderators do

ASSUME CallsAssumption == IsFiniteSet(Others) /\ MaxCalls \in Nat /\ MaxMoves \in Nat

VARIABLES
  room,     \* the others in the room, each with the tracks it publishes
  seat,     \* the call that is in the room as this user, 0 for none
  window,   \* of each call: none, open, closed
  status,   \* what its window says: connecting, connected, failed
  task,     \* the room's task: idle, minting, connecting, publishing, waiting, handling, leaving, over
  heard,    \* RoomEvents for the task
  told,     \* CallEvents for the window
  roster,   \* the participants that the window lists
  mixer,    \* the participants that the output stream has a queue for
  deaf,     \* history: calls that hung up while the task was not waiting for it
  muffled,  \* history: participants that stopped one track and kept another
  moves

outsideWorld == <<room, seat, moves>>
engine == <<task, heard, mixer>>
screen == <<window, status, roster, told>>
callVars == <<outsideWorld, engine, screen, deaf, muffled>>

CallIds == 1..MaxCalls
Kinds == {"mic", "cam"}
Present == {p \in Others : room[p] # {}}
InRoom == {c \in CallIds : task[c] \in {"publishing", "waiting", "handling", "leaving"}}
Move == moves < MaxMoves /\ moves' = moves + 1

Event(what, who, kind) == [what |-> what, who |-> who, kind |-> kind]
\* The events es for the call that sits in the room
Heard(es) == [c \in CallIds |-> IF c = seat /\ c \in InRoom THEN heard[c] \o es ELSE heard[c]]
\* A closed window goes on listening, but there is nothing left to see.
Tell(c, what, who) == IF window[c] = "closed" THEN told
                      ELSE [told EXCEPT ![c] = Append(@, [what |-> what, who |-> who])]
Became(f, c, v) == [f EXCEPT ![c] = v]

--------------------------------------------------------------------------------
(* The others, and the network *)

\* Somebody comes, with a microphone.
Join(p) ==
  /\ room[p] = {} /\ Move
  /\ room' = [room EXCEPT ![p] = {"mic"}]
  /\ heard' = Heard(<<Event("connected", p, "mic"), Event("subscribed", p, "mic")>>)
  /\ UNCHANGED <<seat, task, mixer, screen, deaf, muffled>>

\* A track is gone before its participant is.
Depart(p) ==
  /\ room[p] # {} /\ Move
  /\ room' = [room EXCEPT ![p] = {}]
  /\ heard' = Heard(<<Event("unsubscribed", p, "mic"), Event("disconnected", p, "mic")>>)
  /\ muffled' = muffled \ {p}
  /\ UNCHANGED <<seat, task, mixer, screen, deaf>>

CameraOn(p) ==
  /\ room[p] = {"mic"} /\ Move
  /\ room' = [room EXCEPT ![p] = Kinds]
  /\ heard' = Heard(<<Event("subscribed", p, "cam")>>)
  /\ UNCHANGED <<seat, task, mixer, screen, deaf, muffled>>

CameraOff(p) ==
  /\ room[p] = Kinds /\ Move
  /\ room' = [room EXCEPT ![p] = {"mic"}]
  /\ heard' = Heard(<<Event("unsubscribed", p, "cam")>>)
  /\ muffled' = muffled \cup {p}
  /\ UNCHANGED <<seat, task, mixer, screen, deaf>>

\* Removed by an operator, or the connection to the server is lost for good
Dropped ==
  /\ seat # 0 /\ seat \in InRoom /\ Move
  /\ heard' = Heard(<<Event("dropped", "me", "mic")>>)
  /\ seat' = 0
  /\ UNCHANGED <<room, task, mixer, screen, deaf, muffled>>

--------------------------------------------------------------------------------
(* Starting *)

\* try_start_call: the server has voice, and this is a channel or a person
StartCall(c) ==
  /\ task[c] = "idle" /\ \A d \in CallIds : d < c => task[d] # "idle"
  /\ task' = Became(task, c, "minting")
  /\ UNCHANGED <<outsideWorld, heard, mixer, screen, deaf, muffled>>

\* No token, or no microphone: nothing but a line in the log
StartRefused(c) ==
  /\ task[c] = "minting" /\ Move
  /\ task' = Became(task, c, "over")
  /\ UNCHANGED <<room, seat, heard, mixer, screen, deaf, muffled>>

\* Call::start: streams and task run, the window opens.
Started(c) ==
  /\ task[c] = "minting"
  /\ task' = Became(task, c, "connecting")
  /\ window' = Became(window, c, "open")
  /\ UNCHANGED <<outsideWorld, heard, mixer, status, roster, told, deaf, muffled>>

ConnectFails(c) ==
  /\ task[c] = "connecting" /\ Move
  /\ task' = Became(task, c, "over")
  /\ told' = Tell(c, "failed", {})
  /\ UNCHANGED <<room, seat, heard, mixer, window, status, roster, deaf, muffled>>

\* In the room: what is there is subscribed to.  One seat per user: an older
\* call of the same user is put out.
Connects(c) ==
  /\ task[c] = "connecting"
  /\ task' = Became(task, c, "publishing")
  /\ seat' = c
  /\ \E order \in {s \in [1..Cardinality(Present) -> Present] : \A p \in Present : \E i \in DOMAIN s : s[i] = p} :
       heard' = [d \in CallIds |->
         IF d = c THEN [i \in DOMAIN order |-> Event("subscribed", order[i], "mic")]
         ELSE IF d = seat THEN Append(heard[d], Event("dropped", "me", "mic")) ELSE heard[d]]
  /\ UNCHANGED <<room, moves, mixer, screen, deaf, muffled>>

PublishFails(c) ==
  /\ task[c] = "publishing" /\ Move
  /\ task' = Became(task, c, "over")
  /\ seat' = IF seat = c THEN 0 ELSE seat
  /\ told' = Tell(c, "failed", {})
  /\ heard' = Became(heard, c, <<>>)
  /\ UNCHANGED <<room, mixer, window, status, roster, deaf, muffled>>

\* mutant: only events tell the window who is there
PublishesAlone(c) ==
  /\ task[c] = "publishing"
  /\ task' = Became(task, c, "waiting")
  /\ told' = Tell(c, "connected", {})
  /\ UNCHANGED <<outsideWorld, heard, mixer, window, status, roster, deaf, muffled>>

\* The microphone is published; the window is told who is there.
Publishes(c) ==
  /\ task[c] = "publishing"
  /\ task' = Became(task, c, "waiting")
  /\ told' = Tell(c, "connected", IF seat = c THEN Present ELSE {})
  /\ UNCHANGED <<outsideWorld, heard, mixer, window, status, roster, deaf, muffled>>

--------------------------------------------------------------------------------
(* The task's loop *)

\* The select takes an event: until it is handled nobody waits for `close`.
TakeEvent(c) ==
  /\ task[c] = "waiting" /\ heard[c] # <<>>
  /\ task' = Became(task, c, "handling")
  /\ UNCHANGED <<outsideWorld, heard, mixer, screen, deaf, muffled>>

\* handle_room_event: any track that goes takes the participant's queue with it.
Handle(c) ==
  LET e == Head(heard[c]) IN
  /\ task[c] = "handling"
  /\ task' = Became(task, c, "waiting")
  /\ heard' = [heard EXCEPT ![c] = Tail(@)]
  /\ mixer' = CASE e.what = "subscribed" /\ e.kind = "mic" -> [mixer EXCEPT ![c] = @ \cup {e.who}]
                [] e.what \in {"unsubscribed", "disconnected"} -> [mixer EXCEPT ![c] = @ \ {e.who}]
                [] OTHER -> mixer
  /\ told' = CASE e.what = "connected" -> Tell(c, "joined", {e.who})
               [] e.what = "disconnected" -> Tell(c, "left", {e.who})
               [] e.what = "dropped" -> Tell(c, "ended", {})
               [] OTHER -> told
  /\ UNCHANGED <<outsideWorld, window, status, roster, deaf, muffled>>

\* The channel of a room that is gone ends, or `close` was heard: the room is
\* closed and the window told.
Leave(c) ==
  /\ \/ task[c] = "leaving"
     \/ task[c] = "waiting" /\ heard[c] = <<>> /\ seat # c
  /\ task' = Became(task, c, "over")
  /\ seat' = IF seat = c THEN 0 ELSE seat
  /\ heard' = Became(heard, c, <<>>)
  /\ told' = Tell(c, "ended", {})
  /\ UNCHANGED <<room, moves, mixer, window, status, roster, deaf, muffled>>

--------------------------------------------------------------------------------
(* The window *)

\* hangup: notify_waiters wakes the task only if it waits at this moment.
HangUp(c) ==
  /\ task' = IF task[c] = "waiting" THEN Became(task, c, "leaving") ELSE task
  /\ deaf' = IF task[c] \in {"connecting", "publishing", "handling"} THEN deaf \cup {c} ELSE deaf

Closed(c) ==
  /\ window' = Became(window, c, "closed")
  /\ mixer' = Became(mixer, c, {}) /\ roster' = Became(roster, c, {})
  /\ HangUp(c)

\* Leave, or the window's own button; the output stream goes with the call.
CloseWindow(c) ==
  /\ window[c] = "open"
  /\ Closed(c)
  /\ told' = Became(told, c, <<>>)
  /\ UNCHANGED <<outsideWorld, heard, status, muffled>>

\* mutant: the window of a call that ended says so and stays
DrainStaying(c) ==
  LET e == Head(told[c]) IN
  /\ told[c] # <<>>
  /\ told' = Became(told, c, Tail(told[c]))
  /\ roster' = Became(roster, c, IF e.what = "left" THEN roster[c] \ e.who ELSE roster[c] \cup e.who)
  /\ status' = IF e.what \in {"connected", "failed"} THEN Became(status, c, e.what) ELSE status
  /\ UNCHANGED <<outsideWorld, task, heard, mixer, window, deaf, muffled>>

\* The next event, on the main loop; a call that has ended closes its window
\* and is not listened to any more.
Drain(c) ==
  LET e == Head(told[c]) IN
  /\ told[c] # <<>>
  /\ told' = Became(told, c, IF e.what = "ended" THEN <<>> ELSE Tail(told[c]))
  /\ status' = IF e.what \in {"connected", "failed"} THEN Became(status, c, e.what) ELSE status
  /\ IF e.what = "ended" THEN Closed(c)
     ELSE /\ roster' = Became(roster, c, IF e.what = "left" THEN roster[c] \ e.who
                                         ELSE roster[c] \cup e.who)
          /\ UNCHANGED <<window, mixer, task, deaf>>
  /\ UNCHANGED <<outsideWorld, heard, muffled>>

--------------------------------------------------------------------------------
CallsInit ==
  /\ room \in [Others -> {{}, {"mic"}, Kinds}] /\ seat = 0
  /\ window = [c \in CallIds |-> "none"] /\ status = [c \in CallIds |-> "connecting"]
  /\ task = [c \in CallIds |-> "idle"]
  /\ heard = [c \in CallIds |-> <<>>] /\ told = [c \in CallIds |-> <<>>]
  /\ roster = [c \in CallIds |-> {}] /\ mixer = [c \in CallIds |-> {}]
  /\ deaf = {} /\ muffled = {} /\ moves = 0

\* What the runtime and the main loop do by themselves
Runs(c) ==
  \/ Started(c) \/ StartRefused(c) \/ Connects(c) \/ ConnectFails(c)
  \/ Publishes(c) \/ PublishFails(c) \/ TakeEvent(c) \/ Handle(c) \/ Leave(c)

CallsNext ==
  \/ Dropped
  \/ \E p \in Others : Join(p) \/ Depart(p) \/ CameraOn(p) \/ CameraOff(p)
  \/ \E c \in CallIds : StartCall(c) \/ CloseWindow(c) \/ Runs(c) \/ Drain(c)

--------------------------------------------------------------------------------
(* Properties *)

CallsTypeOK ==
  /\ room \in [Others -> SUBSET Kinds] /\ seat \in 0..MaxCalls
  /\ window \in [CallIds -> {"none", "open", "closed"}]
  /\ status \in [CallIds -> {"connecting", "connected", "failed"}]
  /\ task \in [CallIds -> {"idle", "minting", "connecting", "publishing", "waiting",
                           "handling", "leaving", "over"}]
  /\ roster \in [CallIds -> SUBSET Others] /\ mixer \in [CallIds -> SUBSET Others]
  /\ deaf \subseteq CallIds /\ muffled \subseteq Others /\ moves \in 0..MaxMoves

Caught(c) ==
  task[c] = "waiting" /\ heard[c] = <<>> /\ told[c] = <<>> /\ seat = c /\ window[c] = "open"

\* Once a call has caught up with the room, its window lists who is in it and
\* each of them is heard, whoever came and went before the room was snapshotted
\* and while it was; except a participant that stopped a camera, whose queue
\* went with it (voice.rs:306).
CallAgrees ==
  /\ CallsTypeOK
  /\ \A c \in CallIds : Caught(c) =>
       roster[c] = Present /\ mixer[c] \ muffled = Present \ muffled

\* A call and its window end together: one that has left the room has no window
\* that says it is connected, and one whose window was closed leaves the room;
\* except when it hung up while the task was not listening (voice.rs:118).
Torn(c) ==
  \/ status[c] = "connected" /\ seat # c /\ window[c] = "open"
  \/ window[c] = "closed" /\ seat = c /\ c \notin deaf
EndTogether == \A c \in CallIds : Torn(c) ~> ~Torn(c)

\* hangup: "End the call. The room closes on the tokio side" (voice.rs:116).
HangupLeaves == \A c \in CallIds : window[c] = "closed" ~> seat # c
================================================================================
