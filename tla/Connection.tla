------------------------------ MODULE Connection ------------------------------
(***************************************************************************)
(* One WebSocket connection and its reconnect policy: the connection task   *)
(* (lurker-client socket.rs), its reader and its writer, and the part of    *)
(* the application (scully app.rs) that owns the Socket handle, drains the  *)
(* event channel and asserts presence.                                      *)
(*                                                                          *)
(* Two unbounded channels join them: `inbox` carries ClientEvents from the  *)
(* task to the application, `verbs` carries ClientVerbs the other way and   *)
(* outlives every reconnect.  The server and the network are external; they *)
(* misbehave at most MaxFaults times.                                       *)
(***************************************************************************)
EXTENDS Naturals, Sequences

CONSTANTS
  BackoffMin,  \* shortest retry delay (1 s in the code)
  BackoffMax,  \* longest retry delay (30 s in the code)
  MaxFaults,   \* bound: how often the server or the network misbehaves
  MaxActs      \* bound: how many verbs the user causes

ASSUME BackoffAssumption ==
  /\ BackoffMin \in Nat \ {0}
  /\ BackoffMax \in Nat
  /\ BackoffMin <= BackoffMax

ASSUME BoundAssumption == MaxFaults \in Nat /\ MaxActs \in Nat

VARIABLES
  pc,          \* where the connection task is
  backoff,     \* its next retry delay
  sawFrame,    \* whether this attempt has received a text frame
  shutdown,    \* the watch channel the Socket handle writes
  sock,        \* whether the application still holds the Socket
  inbox,       \* ClientEvents the application has not handled yet
  verbs,       \* ClientVerbs no writer has taken yet
  writer,      \* "on" while a writer task runs
  held,        \* the verbs (at most one) the writer is about to send
  conn,        \* App::conn, what the windows show
  backlogComplete, \* Store::backlog_complete
  focused,     \* whether any window has the focus, as App::focused_windows has it
  unasserted,  \* history: the focus went with a closed window, nothing asserted since
  link,        \* the transport: none, live, closed, reset or half (open)
  wire,        \* frames the server has sent and the reader has not read
  visible,     \* the presence the server holds for the current socket
  session,     \* accepted connections so far
  received,    \* number of the last verb the server received
  issued,      \* number of the last verb the application queued
  lastOf,      \* session of the last frame the application applied
  burstOf,     \* session of the last backlog-complete it applied
  faults, acts \* how much of each bound is used up

taskVars  == <<pc, backoff, sawFrame>>
appVars   == <<sock, conn, backlogComplete, focused, unasserted, lastOf, burstOf>>
verbVars  == <<verbs, issued>>
writeVars == <<writer, held>>
netVars   == <<link, wire, visible, session, received>>
bounds    == <<faults, acts>>
vars == <<pc, backoff, sawFrame, shutdown, inbox, appVars, verbVars, writeVars,
          netVars, bounds>>

-------------------------------------------------------------------------------
(* Data *)

TaskState == {"top", "connect", "hung", "open", "retry", "backoff", "stopped"}
LinkState == {"none", "live", "closed", "reset", "half"}
ConnState == {"disconnected", "connecting", "connected", "backoff", "failed"}
VerbKind  == {"visible", "hidden", "other"}

Verb  == [n : Nat, kind : VerbKind]
Frame == [kind : {"content", "complete"}, session : Nat]

(* What the server sends on a connection: frames that carry content, of     *)
(* which one stands for all, and the terminal marker of the connect burst.  *)
Burst(n) == <<[kind |-> "content", session |-> n], [kind |-> "complete", session |-> n]>>

(* ClientEvent: a state change, a decoded frame, or a frame that would not parse. *)
StateEvent(s) == [type |-> "state", state |-> s]
FrameEvent(f) == [type |-> "frame", frame |-> f]
Undecodable(f) == [type |-> "undecodable", frame |-> f]
ClientEvent   == [type : {"state"}, state : ConnState] \cup
                 [type : {"frame", "undecodable"}, frame : Frame]

(* The reconnect policy: double, up to the maximum. *)
NextBackoff(b) == IF 2 * b > BackoffMax THEN BackoffMax ELSE 2 * b

(* Error::is_retryable, on the error a refused upgrade maps to. *)
Refusal == {"unauthorized", "upgradeRequired", "forbidden", "unreachable"}
Retryable(e) == e \notin {"unauthorized", "upgradeRequired", "forbidden"}

PresenceVerb(v) == IF v THEN "visible" ELSE "hidden"

(* mutant: nothing is queued until the windows show Connected *)
SentWhenShown(kind) ==
  IF sock /\ pc # "stopped" /\ conn = "connected"
  THEN /\ issued' = issued + 1
       /\ verbs' = Append(verbs, [n |-> issued + 1, kind |-> kind])
  ELSE UNCHANGED verbVars

(* App::send: succeeds while the task that owns the receiving end lives. *)
Sent(kind) ==
  IF sock /\ pc # "stopped"
  THEN /\ issued' = issued + 1
       /\ verbs' = Append(verbs, [n |-> issued + 1, kind |-> kind])
  ELSE UNCHANGED verbVars

-------------------------------------------------------------------------------
(* The connection task *)

(* The top of the loop: stop if asked, else announce the attempt. *)
TaskTop ==
  /\ pc = "top"
  /\ \/ /\ shutdown
        /\ pc' = "stopped"
        /\ UNCHANGED <<inbox, sawFrame>>
     \/ /\ ~shutdown
        /\ pc' = "connect"
        /\ sawFrame' = FALSE
        /\ inbox' = Append(inbox, StateEvent("connecting"))
  /\ UNCHANGED <<backoff, shutdown, appVars, verbVars, writeVars, netVars, bounds>>

(* The upgrade is accepted: the server sends its burst, and a writer starts. *)
Accepted ==
  /\ pc = "connect"
  /\ pc' = "open"
  /\ session' = session + 1
  /\ link' = "live"
  /\ wire' = Burst(session + 1)
  /\ visible' = FALSE
  /\ writer' = "on"
  /\ UNCHANGED <<backoff, sawFrame, shutdown, inbox, appVars, verbVars, held,
                 received, bounds>>

(* The attempt fails before a socket exists: a refused upgrade, or no server. *)
Refused ==
  /\ pc = "connect"
  /\ faults < MaxFaults
  /\ faults' = faults + 1
  /\ \E e \in Refusal :
       \/ /\ Retryable(e)
          /\ pc' = "retry"
          /\ inbox' = inbox
       \/ /\ ~Retryable(e)
          /\ pc' = "stopped"
          /\ inbox' = Append(inbox, StateEvent("failed"))
  /\ UNCHANGED <<backoff, sawFrame, shutdown, appVars, verbVars, writeVars,
                 netVars, acts>>

(* The attempt gets no answer: nothing bounds the handshake, and a shutdown *)
(* is not noticed in it.  It may get one after all, if the path comes back. *)
AttemptHangs ==
  /\ pc = "connect"
  /\ faults < MaxFaults
  /\ faults' = faults + 1
  /\ pc' = "hung"
  /\ UNCHANGED <<backoff, sawFrame, shutdown, inbox, appVars, verbVars, writeVars,
                 netVars, acts>>

AttemptGoesOn ==
  /\ pc = "hung"
  /\ pc' = "connect"
  /\ UNCHANGED <<backoff, sawFrame, shutdown, inbox, appVars, verbVars, writeVars,
                 netVars, bounds>>

(* mutant: the frame that proves the connection goes out first *)
ReportAfter(event) ==
  inbox' = IF sawFrame THEN Append(inbox, event)
                       ELSE Append(Append(inbox, event), StateEvent("connected"))

(* Connected goes out before the first frame of an attempt. *)
Report(event) ==
  inbox' = IF sawFrame THEN Append(inbox, event)
                       ELSE Append(Append(inbox, StateEvent("connected")), event)

(* The reader gets a text frame; the first one of an attempt means          *)
(* Connected, even if it is one this client cannot parse.                   *)
Receive ==
  /\ pc = "open"
  /\ wire # <<>>
  /\ wire' = Tail(wire)
  /\ sawFrame' = TRUE
  /\ \/ faults' = faults /\ Report(FrameEvent(Head(wire)))
     \/ faults < MaxFaults /\ faults' = faults + 1 /\ Report(Undecodable(Head(wire)))
  /\ UNCHANGED <<pc, backoff, shutdown, appVars, verbVars, writeVars, link,
                 visible, session, received, acts>>

(* The writer is aborted with whatever it was about to send. *)
AbortWriter == writer' = "off" /\ held' = <<>>

(* The reader leaves its loop with Ok: a shutdown, a Close or the end of the stream. *)
SessionEnds ==
  /\ pc = "open"
  /\ shutdown \/ (link = "closed" /\ wire = <<>>)
  /\ AbortWriter
  /\ link' = "none"
  /\ wire' = <<>>
  /\ visible' = FALSE
  /\ inbox' = Append(inbox, StateEvent("disconnected"))
  /\ backoff' = IF sawFrame THEN BackoffMin ELSE backoff
  /\ pc' = "retry"
  /\ UNCHANGED <<sawFrame, shutdown, appVars, verbVars, session,
                 received, bounds>>

(* mutant: no read deadline, so a half-open connection is never noticed *)
SessionFailsOnReset ==
  /\ pc = "open"
  /\ link = "reset"
  /\ AbortWriter
  /\ link' = "none"
  /\ wire' = <<>>
  /\ pc' = "retry"
  /\ UNCHANGED <<backoff, sawFrame, shutdown, inbox, appVars, verbVars, visible,
                 session, received, bounds>>

(* The reader leaves its loop with Err: a transport error, or no traffic at *)
(* all for READ_DEADLINE.  The error returns before Disconnected is sent.   *)
SessionFails ==
  /\ pc = "open"
  /\ link \in {"reset", "half"}
  /\ AbortWriter
  /\ link' = "none"
  /\ wire' = <<>>
  /\ pc' = "retry"
  /\ UNCHANGED <<backoff, sawFrame, shutdown, inbox, appVars, verbVars, visible,
                 session, received, bounds>>

(* mutant: the delay is not announced *)
RetrySilently ==
  /\ pc = "retry"
  /\ pc' = IF shutdown THEN "stopped" ELSE "backoff"
  /\ UNCHANGED <<backoff, sawFrame, shutdown, inbox, appVars, verbVars, writeVars,
                 netVars, bounds>>

(* After an attempt: stop if asked, else announce the delay and wait. *)
Retry ==
  /\ pc = "retry"
  /\ \/ /\ shutdown
        /\ pc' = "stopped"
        /\ inbox' = inbox
     \/ /\ ~shutdown
        /\ pc' = "backoff"
        /\ inbox' = Append(inbox, StateEvent("backoff"))
  /\ UNCHANGED <<backoff, sawFrame, shutdown, appVars, verbVars, writeVars,
                 netVars, bounds>>

(* The wait ends: the delay is over, or the shutdown is noticed. *)
Wake ==
  /\ pc = "backoff"
  /\ \/ /\ pc' = "top"
        /\ backoff' = NextBackoff(backoff)
     \/ /\ shutdown
        /\ pc' = "stopped"
        /\ backoff' = backoff
  /\ UNCHANGED <<sawFrame, shutdown, inbox, appVars, verbVars, writeVars,
                 netVars, bounds>>

Task == TaskTop \/ Accepted \/ Refused \/ AttemptHangs \/ AttemptGoesOn \/ Receive
        \/ SessionEnds \/ SessionFails \/ Retry \/ Wake

-------------------------------------------------------------------------------
(* The writer task of the current session *)

(* mutant: the verb stays queued until it is sent, and the send does not remove it *)
WriterPeeks ==
  /\ writer = "on"
  /\ held = <<>>
  /\ verbs # <<>>
  /\ held' = <<Head(verbs)>>
  /\ UNCHANGED <<taskVars, shutdown, inbox, appVars, verbVars, writer, netVars, bounds>>

(* It takes the next verb, then waits out the rate limit with it in hand. *)
WriterTakes ==
  /\ writer = "on"
  /\ held = <<>>
  /\ verbs # <<>>
  /\ held' = <<Head(verbs)>>
  /\ verbs' = Tail(verbs)
  /\ UNCHANGED <<taskVars, shutdown, inbox, appVars, issued, writer, netVars, bounds>>

(* What the server does with a verb it receives: only presence matters here. *)
Deliver(verb) ==
  /\ received' = verb.n
  /\ visible' = IF verb.kind = "other" THEN visible ELSE verb.kind = "visible"

(* It writes the verb to the socket.  A dead transport swallows it, or      *)
(* reports an error that ends the writer while the reader goes on.          *)
WriterSends ==
  /\ writer = "on"
  /\ held # <<>>
  /\ held' = <<>>
  /\ \/ /\ link = "live"
        /\ Deliver(Head(held))
        /\ writer' = writer
     \/ /\ link # "live"
        /\ UNCHANGED <<received, visible>>
        /\ writer' \in {"on", "off"}
  /\ UNCHANGED <<taskVars, shutdown, inbox, appVars, verbVars, link, wire,
                 session, bounds>>

(* It notices a shutdown between two verbs, and closes its half. *)
WriterStops ==
  /\ writer = "on"
  /\ held = <<>>
  /\ shutdown
  /\ writer' = "off"
  /\ UNCHANGED <<taskVars, shutdown, inbox, appVars, verbVars, held, netVars, bounds>>

Writer == WriterTakes \/ WriterSends \/ WriterStops

-------------------------------------------------------------------------------
(* The application *)

(* mutant: only a clean close counts as a loss *)
LosesSocketOnClose(s) == s = "disconnected"

(* Store::on_socket_lost, which the two loss events trigger. *)
LosesSocket(s) == s \in {"disconnected", "backoff"}

(* App::assert_presence. *)
Assert(f) == Sent(PresenceVerb(f)) /\ unasserted' = FALSE

(* App::on_client_event for a state: a dead session also drops the Socket,  *)
(* and Connected re-asserts presence, which every new socket starts without.*)
HandleState(s) ==
  /\ conn' = s
  /\ backlogComplete' = IF LosesSocket(s) THEN FALSE ELSE backlogComplete
  /\ \/ /\ s = "failed"
        /\ sock' \in {sock, FALSE}
        /\ shutdown' = IF sock' THEN shutdown ELSE TRUE
     \/ /\ s # "failed"
        /\ UNCHANGED <<sock, shutdown>>
  /\ IF s = "connected" THEN Assert(focused) ELSE UNCHANGED <<verbVars, unasserted>>
  /\ UNCHANGED <<lastOf, burstOf>>

(* App::on_client_event for a frame: the store applies it. *)
HandleFrame(f) ==
  /\ lastOf' = f.session
  /\ IF f.kind = "complete"
     THEN backlogComplete' = TRUE /\ burstOf' = f.session
     ELSE UNCHANGED <<backlogComplete, burstOf>>
  /\ UNCHANGED <<shutdown, sock, conn, unasserted, verbVars>>

Handle ==
  /\ inbox # <<>>
  /\ inbox' = Tail(inbox)
  /\ LET event == Head(inbox) IN
       \/ event.type = "state" /\ HandleState(event.state)
       \/ event.type = "frame" /\ HandleFrame(event.frame)
       \/ event.type = "undecodable" /\ UNCHANGED <<shutdown, appVars, verbVars>>
  /\ UNCHANGED <<taskVars, focused, writeVars, netVars, bounds>>

(* App::set_window_focus: a window reports its focus, and what the windows   *)
(* now say together, changed or not, is asserted at once.                    *)
SetFocus ==
  /\ ~shutdown
  /\ acts < MaxActs
  /\ acts' = acts + 1
  /\ focused' \in BOOLEAN
  /\ Assert(focused')
  /\ UNCHANGED <<taskVars, shutdown, inbox, sock, conn, backlogComplete, lastOf,
                 burstOf, writeVars, netVars, faults>>

(* ChatWindow::detach of the window with the focus: its draft may be sent,   *)
(* and App::unsubscribe takes its focus away, which is not asserted.  (That  *)
(* its destruction notifies is-active once more, or that another window then *)
(* gets the focus, is a SetFocus; neither has to come.)                      *)
CloseWindow ==
  /\ focused
  /\ focused' = FALSE
  /\ unasserted' = TRUE
  /\ \/ acts < MaxActs /\ acts' = acts + 1 /\ Sent("other")
     \/ UNCHANGED <<verbVars, acts>>
  /\ UNCHANGED <<taskVars, shutdown, inbox, sock, conn, backlogComplete, lastOf,
                 burstOf, writeVars, netVars, faults>>

(* App::send of any other verb; nothing stops it while disconnected. *)
SendVerb ==
  /\ ~shutdown
  /\ acts < MaxActs
  /\ acts' = acts + 1
  /\ Sent("other")
  /\ UNCHANGED <<taskVars, shutdown, inbox, appVars, writeVars, netVars, faults>>

(* App::shutdown, on the way out of the program. *)
Quit ==
  /\ sock
  /\ ~shutdown
  /\ shutdown' = TRUE
  /\ UNCHANGED <<taskVars, inbox, appVars, verbVars, writeVars, netVars, bounds>>

App == Handle \/ SetFocus \/ CloseWindow \/ SendVerb \/ Quit

-------------------------------------------------------------------------------
(* The server and the network *)

(* The server closes; the connection resets; or it dies without a trace and *)
(* what was in flight is gone (the half-open case READ_DEADLINE is for).    *)
(* Presence is per socket, so it goes with it.                              *)
LinkFault ==
  /\ link = "live"
  /\ faults < MaxFaults
  /\ faults' = faults + 1
  /\ \/ link' \in {"closed", "reset"} /\ wire' = wire
     \/ link' = "half" /\ wire' = <<>>
  /\ visible' = FALSE
  /\ UNCHANGED <<taskVars, shutdown, inbox, appVars, verbVars, writeVars,
                 session, received, acts>>

-------------------------------------------------------------------------------

(* App::open_socket has just spawned the task. *)
Init ==
  /\ pc = "top"
  /\ backoff = BackoffMin
  /\ sawFrame = FALSE
  /\ shutdown = FALSE
  /\ sock = TRUE
  /\ inbox = <<>>
  /\ verbs = <<>>
  /\ issued = 0
  /\ writer = "off"
  /\ held = <<>>
  /\ conn = "connecting"
  /\ backlogComplete = FALSE
  /\ focused \in BOOLEAN
  /\ unasserted = FALSE
  /\ link = "none"
  /\ wire = <<>>
  /\ visible = FALSE
  /\ session = 0
  /\ received = 0
  /\ lastOf = 0
  /\ burstOf = 0
  /\ faults = 0 /\ acts = 0

Next == Task \/ Writer \/ App \/ LinkFault

(* The runtime polls the three tasks, timers fire, and a connection attempt *)
(* is answered unless it hangs, which it may do for good; faults and the    *)
(* user are left free.                                                      *)
Fairness ==
  /\ WF_vars(TaskTop) /\ WF_vars(Accepted) /\ WF_vars(Receive)
  /\ WF_vars(SessionEnds) /\ WF_vars(SessionFails) /\ WF_vars(Retry) /\ WF_vars(Wake)
  /\ WF_vars(Writer)
  /\ WF_vars(Handle)

Spec == Init /\ [][Next]_vars

FairSpec == Spec /\ Fairness

-------------------------------------------------------------------------------
(* Properties *)

(* Every variable has its type: the flags, and everything else. *)
FlagsOK ==
  /\ sawFrame \in BOOLEAN
  /\ shutdown \in BOOLEAN
  /\ sock \in BOOLEAN
  /\ backlogComplete \in BOOLEAN
  /\ focused \in BOOLEAN
  /\ unasserted \in BOOLEAN
  /\ visible \in BOOLEAN

TypeOK ==
  /\ FlagsOK
  /\ pc \in TaskState
  /\ backoff \in BackoffMin..BackoffMax
  /\ inbox \in Seq(ClientEvent)
  /\ verbs \in Seq(Verb)
  /\ writer \in {"on", "off"}
  /\ held \in Seq(Verb)
  /\ conn \in ConnState
  /\ link \in LinkState
  /\ wire \in Seq(Frame)
  /\ session \in Nat /\ lastOf \in Nat /\ burstOf \in Nat
  /\ received \in Nat /\ issued \in Nat
  /\ faults \in 0..MaxFaults /\ acts \in 0..MaxActs

(* The state the windows show is never left behind: once the application    *)
(* has handled every event, conn says what the task is really doing.  The   *)
(* Err path of run_once sends no Disconnected, so this rests on the Backoff *)
(* that always follows it (a program that is shutting down is exempt).      *)
HonestState ==
  (inbox = <<>> /\ ~shutdown) =>
    CASE pc = "backoff" -> conn = "backoff"
      [] pc \in {"connect", "hung"} -> conn = "connecting"
      [] pc = "open"    -> conn = (IF sawFrame THEN "connected" ELSE "connecting")
      [] pc = "stopped" -> conn = "failed"
      [] OTHER          -> TRUE

(* A frame reaches the store only while the windows show Connected: the     *)
(* first frame of a session never overtakes its Connected event, and no     *)
(* frame of a session is applied after the event that ended it.             *)
FramesOnlyWhileConnected ==
  [][<<lastOf, burstOf>>' # <<lastOf, burstOf>> => conn = "connected"]_vars

(* "Absence is proof" (a missing buffer is not open) is claimed only for    *)
(* the burst of the session whose frames the store is applying, never for   *)
(* the burst of a connection that has been lost since.                      *)
AbsenceIsProof == backlogComplete => (conn = "connected" /\ burstOf = lastOf)

(* Presence is per socket and reset by each new one: when everything queued *)
(* on a working connection has been delivered, the server knows whether a   *)
(* window is focused, whatever was lost with the connections before, but    *)
(* for one change that nothing asserts: it goes on taking the user for      *)
(* present, and never the other way round, while the window that had the    *)
(* focus has been closed and no other has reported since.                   *)
PresenceAgrees ==
  (/\ link = "live" /\ sawFrame /\ ~shutdown
   /\ inbox = <<>> /\ verbs = <<>> /\ held = <<>>)
    => visible = (focused \/ unasserted)

(* Across reconnects the server receives the verbs in the order they were   *)
(* queued and none of them twice: what waits is in order, and all of it is  *)
(* newer than what was received.  (A verb may be lost with its connection.) *)
VerbsInOrder ==
  LET waiting == held \o verbs
      Before(i) == IF i = 1 THEN received ELSE waiting[i - 1].n
  IN  \A i \in DOMAIN waiting : waiting[i].n > Before(i)

(* The state the windows show implements the automaton of ConnStates. *)
UI == INSTANCE ConnStates WITH conn <- conn
ShownStateFollowsAutomaton == UI!Spec

(* When the faults are over the windows end up showing Connected for good,  *)
(* over a transport that works, unless the server refused for a reason only *)
(* the user can mend (or the program quits), or an attempt hangs for good:  *)
(* neither a half-open connection nor a lost race with the backoff timer    *)
(* leaves the client cut off.  And a shutdown ends the connection task,     *)
(* wherever it was, but in an attempt that hangs.                           *)
Recovers ==
  LET hangs == <>[](pc = "hung") IN
  /\ \/ <>[](conn = "connected" /\ link = "live")
     \/ <>(shutdown \/ pc = "stopped")
     \/ hangs
  /\ <>shutdown => (<>(pc = "stopped") \/ hangs)

===============================================================================
