--------------------------- MODULE ConnectionProofs ---------------------------
(***************************************************************************)
(* Theorems about Connection, and at the end about the Bucket its writer    *)
(* waits for, for every value of their constants.  The former rest on the   *)
(* grammar of the event channel: the application's state followed by the    *)
(* events still queued is always a word the connection task can say, and    *)
(* its last letter is what the task did last.                               *)
(***************************************************************************)
EXTENDS Connection, Bucket, SequenceTheorems, TLAPS

(* The letter of an event: its state, or "frame" for whatever a frame became. *)
Token(e) == IF e.type = "state" THEN e.state ELSE "frame"

(* Which letter may follow which. The task announces the first attempt to   *)
(* an application that already says connecting, hence the third pair.       *)
Follows ==
  {<<"connecting", "connected">>, <<"connecting", "failed">>,
   <<"connecting", "connecting">>, <<"connecting", "disconnected">>,
   <<"connecting", "backoff">>, <<"connected", "frame">>,
   <<"connected", "disconnected">>, <<"connected", "backoff">>,
   <<"frame", "frame">>, <<"frame", "disconnected">>, <<"frame", "backoff">>,
   <<"disconnected", "backoff">>, <<"backoff", "connecting">>}

(* q is a word that may follow c. *)
Word(c, q) ==
  /\ q # <<>> => <<c, Token(Head(q))>> \in Follows
  /\ \A i \in 1..Len(q) : i + 1 <= Len(q) => <<Token(q[i]), Token(q[i + 1])>> \in Follows

LastToken(c, q) == IF q = <<>> THEN c ELSE Token(q[Len(q)])

(* What the last letter can be, from where the task is. *)
Said(p, saw, down) ==
  CASE p = "top"     -> {"backoff", "connecting"}
    [] p \in {"connect", "hung"} -> {"connecting"}
    [] p = "open"    -> IF saw THEN {"frame", "connected"} ELSE {"connecting"}
    [] p = "retry"   -> IF saw THEN {"frame", "connected", "disconnected"}
                               ELSE {"connecting", "disconnected"}
    [] p = "backoff" -> {"backoff"}
    [] p = "stopped" -> IF down THEN ConnState \cup {"frame"} ELSE {"failed"}

Grammar ==
  /\ Word(conn, inbox)
  /\ LastToken(conn, inbox) \in Said(pc, sawFrame, shutdown)
  /\ pc \in {"connect", "hung"} => ~sawFrame

-------------------------------------------------------------------------------

(* A letter that may follow the last one extends the word. *)
LEMMA AppendWord ==
  ASSUME NEW c, NEW q \in Seq(ClientEvent), NEW e \in ClientEvent,
         Word(c, q), <<LastToken(c, q), Token(e)>> \in Follows
  PROVE  /\ Word(c, Append(q, e))
         /\ LastToken(c, Append(q, e)) = Token(e)
<1> DEFINE r == Append(q, e)
<1>1. /\ r # <<>> /\ Len(r) = Len(q) + 1 /\ r[Len(r)] = e
      /\ \A i \in 1..Len(q) : r[i] = q[i]
  BY AppendProperties
<1>2. <<c, Token(Head(r))>> \in Follows
  <2>1. CASE q = <<>>
    BY <1>1, <2>1 DEF LastToken
  <2>2. CASE q # <<>>
    BY <1>1, <2>2 DEF Word
  <2>3. QED BY <2>1, <2>2
<1>3. ASSUME NEW i \in 1..Len(r), i + 1 <= Len(r)
      PROVE  <<Token(r[i]), Token(r[i + 1])>> \in Follows
  <2>1. CASE i = Len(q)
    BY <1>1, <1>3, <2>1 DEF LastToken
  <2>2. CASE i # Len(q)
    BY <1>1, <1>3, <2>2 DEF Word
  <2>3. QED BY <2>1, <2>2
<1>4. QED BY <1>1, <1>2, <1>3 DEF Word, LastToken

(* Handling the first letter leaves a word, and the last letter as it was   *)
(* (a frame that was the last leaves the application connected).            *)
LEMMA TailWord ==
  ASSUME NEW c \in ConnState, NEW q \in Seq(ClientEvent), q # <<>>, Word(c, q),
         NEW d, d = (IF Head(q).type = "state" THEN Head(q).state ELSE c)
  PROVE  /\ Word(d, Tail(q))
         /\ \/ LastToken(d, Tail(q)) = LastToken(c, q)
            \/ LastToken(c, q) = "frame" /\ LastToken(d, Tail(q)) = "connected"
<1> DEFINE t == Tail(q)
<1>1. /\ Len(t) = Len(q) - 1 /\ t \in Seq(ClientEvent)
      /\ \A i \in 1..Len(t) : t[i] = q[i + 1]
      /\ Head(q) = q[1] /\ q[1] \in ClientEvent /\ Len(q) >= 1
      /\ t # <<>> => Head(t) = q[2]
  BY HeadTailProperties, ElementOfSeq
<1>2. Token(Head(q)) = "frame" => c = "connected" /\ d = c
  BY <1>1 DEF Word, Follows, Token, ClientEvent, ConnState
<1>3. Token(Head(q)) # "frame" => d = Token(Head(q))
  BY <1>1 DEF Token
<1>4. t # <<>> => <<d, Token(Head(t))>> \in Follows
  <2>1. t # <<>> => <<Token(q[1]), Token(q[2])>> \in Follows
    BY <1>1 DEF Word
  <2>2. QED BY <1>1, <1>2, <1>3, <2>1 DEF Follows
<1>5. \A i \in 1..Len(t) : i + 1 <= Len(t) => <<Token(t[i]), Token(t[i + 1])>> \in Follows
  BY <1>1 DEF Word
<1>6. \/ LastToken(d, t) = LastToken(c, q)
      \/ LastToken(c, q) = "frame" /\ LastToken(d, t) = "connected"
  <2>1. CASE t = <<>>
    <3>1. Len(q) = 1
      BY <1>1, <2>1
    <3>2. LastToken(c, q) = Token(Head(q)) /\ LastToken(d, t) = d
      BY <1>1, <2>1, <3>1 DEF LastToken
    <3>3. QED BY <1>2, <1>3, <3>2
  <2>2. CASE t # <<>>
    BY <1>1, <2>2 DEF LastToken
  <2>3. QED BY <2>1, <2>2
<1>7. QED BY <1>4, <1>5, <1>6 DEF Word

-------------------------------------------------------------------------------

(* The flags of the task, the store and the server stay booleans. *)
LEMMA FlagsTyping == Spec => []FlagsOK
<1>1. Init => FlagsOK
  BY DEF Init, FlagsOK
<1>2. FlagsOK /\ [Next]_vars => FlagsOK'
  <2> USE DEF FlagsOK, taskVars, appVars, verbVars, writeVars, netVars, bounds
  <2> SUFFICES ASSUME FlagsOK, [Next]_vars PROVE FlagsOK'
    OBVIOUS
  <2>1. CASE TaskTop
    BY <2>1 DEF TaskTop
  <2>2. CASE Accepted
    BY <2>2 DEF Accepted
  <2>3. CASE Refused
    BY <2>3 DEF Refused
  <2>4. CASE Receive
    BY <2>4 DEF Receive
  <2>5. CASE SessionEnds
    BY <2>5 DEF SessionEnds
  <2>6. CASE SessionFails
    BY <2>6 DEF SessionFails
  <2>7. CASE Retry
    BY <2>7 DEF Retry
  <2>8. CASE Wake
    BY <2>8 DEF Wake
  <2>9. CASE WriterTakes
    BY <2>9 DEF WriterTakes
  <2>10. CASE WriterSends
    BY <2>10 DEF WriterSends, Deliver
  <2>11. CASE WriterStops
    BY <2>11 DEF WriterStops
  <2>12. CASE Handle
    BY <2>12 DEF Handle, HandleState, HandleFrame, Assert
  <2>13. CASE SetFocus
    BY <2>13 DEF SetFocus, Assert
  <2>14. CASE SendVerb
    BY <2>14 DEF SendVerb
  <2>15. CASE Quit
    BY <2>15 DEF Quit
  <2>16. CASE LinkFault
    BY <2>16 DEF LinkFault
  <2>17. CASE UNCHANGED vars
    BY <2>17 DEF vars
  <2>18. CASE AttemptHangs \/ AttemptGoesOn
    BY <2>18 DEF AttemptHangs, AttemptGoesOn
  <2>19. CASE CloseWindow
    BY <2>19 DEF CloseWindow
  <2>20. QED
    BY <2>1, <2>2, <2>3, <2>4, <2>5, <2>6, <2>7, <2>8, <2>9, <2>10, <2>11,
       <2>12, <2>13, <2>14, <2>15, <2>16, <2>17, <2>18, <2>19
    DEF Next, Task, Writer, App
<1>3. QED BY <1>1, <1>2, PTL DEF Spec

(* What the task announces is a ClientEvent. *)
LEMMA StateEventIsEvent == \A s \in ConnState : StateEvent(s) \in ClientEvent
BY DEF StateEvent, ClientEvent

(* Every variable of the connection keeps its type: in particular the delay  *)
(* never leaves BackoffMin..BackoffMax, however often the client retries.     *)
THEOREM Typing == Spec => []TypeOK
<1>1. Init => TypeOK
  <2>1. Init => FlagsOK
    BY DEF Init, FlagsOK
  <2>2. QED
    BY <2>1, BackoffAssumption, BoundAssumption
    DEF Init, TypeOK, LinkState, ConnState, TaskState
<1>2. TypeOK /\ [Next]_vars /\ FlagsOK' => TypeOK'
  <2> USE BackoffAssumption, BoundAssumption
      DEF TaskState, ConnState, LinkState,
          taskVars, appVars, verbVars, writeVars, netVars, bounds
  <2> SUFFICES ASSUME TypeOK, [Next]_vars, FlagsOK' PROVE TypeOK'
    OBVIOUS
  <2>sent. ASSUME NEW k \in VerbKind, Sent(k)
           PROVE  verbs' \in Seq(Verb) /\ issued' \in Nat
    <3>1. issued \in Nat /\ verbs \in Seq(Verb)
      BY DEF TypeOK
    <3>2. issued + 1 \in Nat /\ Append(verbs, [n |-> issued + 1, kind |-> k]) \in Seq(Verb)
      <4>1. [n |-> issued + 1, kind |-> k] \in Verb
        BY <3>1 DEF Verb
      <4>2. QED BY <3>1, <4>1
    <3>3. QED BY <2>sent, <3>1, <3>2, Zenon DEF Sent
  <2>append. \A s \in ConnState : Append(inbox, StateEvent(s)) \in Seq(ClientEvent)
    BY StateEventIsEvent DEF TypeOK
  <2>kind. \A v : PresenceVerb(v) \in VerbKind
    BY DEF PresenceVerb, VerbKind
  <2>1. CASE TaskTop
    <3>1. /\ inbox' = inbox \/ inbox' = Append(inbox, StateEvent("connecting"))
          /\ pc' \in {"stopped", "connect"}
          /\ UNCHANGED <<backoff, appVars, verbVars, writeVars, netVars, bounds>>
      BY <2>1, Zenon DEF TaskTop
    <3>2. QED BY <3>1, <2>append DEF TypeOK
  <2>2. CASE Accepted
    BY <2>2 DEF TypeOK, Accepted, Burst, Frame
  <2>3. CASE Refused
    <3>1. /\ inbox' = inbox \/ inbox' = Append(inbox, StateEvent("failed"))
          /\ pc' \in {"stopped", "retry"}
      BY <2>3, Zenon DEF Refused
    <3>2. faults' \in 0..MaxFaults
      BY <2>3 DEF Refused, TypeOK
    <3>3. inbox' \in Seq(ClientEvent) /\ pc' \in TaskState
      BY <3>1, <2>append DEF TypeOK
    <3>4. QED BY <2>3, <3>2, <3>3 DEF Refused, TypeOK
  <2>4. CASE Receive
    <3>1. Head(wire) \in Frame /\ wire' \in Seq(Frame)
      BY <2>4 DEF Receive, TypeOK
    <3>2. ASSUME NEW e \in ClientEvent, Report(e) PROVE inbox' \in Seq(ClientEvent)
      <4>1. /\ Append(inbox, e) \in Seq(ClientEvent)
            /\ Append(Append(inbox, StateEvent("connected")), e) \in Seq(ClientEvent)
        BY <2>append DEF TypeOK
      <4>2. QED BY <3>2, <4>1, Zenon DEF Report
    <3>3. inbox' \in Seq(ClientEvent)
      <4>1. FrameEvent(Head(wire)) \in ClientEvent /\ Undecodable(Head(wire)) \in ClientEvent
        BY <3>1 DEF FrameEvent, Undecodable, ClientEvent
      <4>2. QED BY <2>4, <3>2, <4>1 DEF Receive
    <3>4. faults' \in 0..MaxFaults
      BY <2>4 DEF Receive, TypeOK
    <3>5. QED BY <2>4, <3>1, <3>3, <3>4 DEF Receive, TypeOK
  <2>5. CASE SessionEnds
    BY <2>5, <2>append DEF TypeOK, SessionEnds, AbortWriter
  <2>6. CASE SessionFails
    BY <2>6 DEF TypeOK, SessionFails, AbortWriter
  <2>7. CASE Retry
    <3>1. /\ inbox' = inbox \/ inbox' = Append(inbox, StateEvent("backoff"))
          /\ pc' \in {"stopped", "backoff"}
          /\ UNCHANGED <<backoff, appVars, verbVars, writeVars, netVars, bounds>>
      BY <2>7, Zenon DEF Retry
    <3>2. QED BY <3>1, <2>append DEF TypeOK
  <2>8. CASE Wake
    BY <2>8 DEF TypeOK, Wake, NextBackoff
  <2>9. CASE WriterTakes
    BY <2>9 DEF TypeOK, WriterTakes
  <2>10. CASE WriterSends
    <3>1. Head(held) \in Verb
      BY <2>10 DEF WriterSends, TypeOK
    <3>2. Head(held).n \in Nat
      BY <3>1 DEF Verb
    <3>3. received' \in Nat /\ writer' \in {"on", "off"}
      BY <2>10, <3>2 DEF WriterSends, Deliver, TypeOK
    <3>4. QED BY <2>10, <3>3 DEF WriterSends, TypeOK
  <2>11. CASE WriterStops
    BY <2>11 DEF TypeOK, WriterStops
  <2>12. CASE Handle
    <3>1. Head(inbox) \in ClientEvent /\ inbox' \in Seq(ClientEvent)
      BY <2>12 DEF Handle, TypeOK
    <3>2. CASE Head(inbox).type = "state" /\ HandleState(Head(inbox).state)
      <4>1. Head(inbox).state \in ConnState
        BY <3>1, <3>2 DEF ClientEvent
      <4>2. verbs' \in Seq(Verb) /\ issued' \in Nat
        <5>1. CASE Sent(PresenceVerb(focused))
          BY <5>1, <2>sent, <2>kind
        <5>2. CASE UNCHANGED verbVars
          BY <5>2 DEF TypeOK
        <5>3. QED BY <3>2, <5>1, <5>2 DEF HandleState, Assert
      <4>3. QED BY <2>12, <3>1, <3>2, <4>1, <4>2 DEF Handle, HandleState, TypeOK
    <3>3. CASE Head(inbox).type = "frame" /\ HandleFrame(Head(inbox).frame)
      <4>1. Head(inbox).frame.session \in Nat
        BY <3>1, <3>3 DEF ClientEvent, Frame
      <4>2. QED BY <2>12, <3>1, <3>3, <4>1 DEF Handle, HandleFrame, TypeOK
    <3>4. CASE UNCHANGED <<shutdown, appVars, verbVars>>
      BY <2>12, <3>1, <3>4 DEF Handle, TypeOK
    <3>5. QED BY <2>12, <3>2, <3>3, <3>4 DEF Handle
  <2>13. CASE SetFocus
    BY <2>13, <2>sent, <2>kind DEF TypeOK, SetFocus, Assert
  <2>14. CASE SendVerb
    BY <2>14, <2>sent DEF TypeOK, SendVerb, VerbKind
  <2>15. CASE Quit
    BY <2>15 DEF TypeOK, Quit
  <2>16. CASE LinkFault
    <3>1. link' \in LinkState
      BY <2>16 DEF LinkFault
    <3>2. wire' \in Seq(Frame)
      <4>1. wire' = wire \/ wire' = <<>>
        BY <2>16 DEF LinkFault
      <4>2. wire \in Seq(Frame) /\ <<>> \in Seq(Frame)
        BY DEF TypeOK
      <4>3. QED BY <4>1, <4>2, Zenon
    <3>3. faults' \in 0..MaxFaults
      BY <2>16 DEF LinkFault, TypeOK
    <3>4. QED BY <2>16, <3>1, <3>2, <3>3 DEF LinkFault, TypeOK
  <2>17. CASE UNCHANGED vars
    BY <2>17 DEF TypeOK, vars
  <2>18. CASE AttemptHangs \/ AttemptGoesOn
    <3>1. faults' \in 0..MaxFaults
      BY <2>18 DEF AttemptHangs, AttemptGoesOn, TypeOK
    <3>2. pc' \in TaskState
      BY <2>18 DEF AttemptHangs, AttemptGoesOn
    <3>3. QED BY <2>18, <3>1, <3>2 DEF AttemptHangs, AttemptGoesOn, TypeOK
  <2>19. CASE CloseWindow
    <3>1. verbs' \in Seq(Verb) /\ issued' \in Nat
      BY <2>19, <2>sent DEF CloseWindow, TypeOK, VerbKind
    <3>2. acts' \in 0..MaxActs
      BY <2>19 DEF CloseWindow, TypeOK
    <3>3. QED BY <2>19, <3>1, <3>2 DEF CloseWindow, TypeOK
  <2>20. QED
    BY <2>1, <2>2, <2>3, <2>4, <2>5, <2>6, <2>7, <2>8, <2>9, <2>10, <2>11,
       <2>12, <2>13, <2>14, <2>15, <2>16, <2>17, <2>18, <2>19
    DEF Next, Task, Writer, App
<1>3. QED BY <1>1, <1>2, FlagsTyping, PTL DEF Spec

-------------------------------------------------------------------------------
(* The grammar of the event channel is inductive. *)

(* What a step that only appends one state to the channel must show. *)
LEMMA Announce ==
  ASSUME TypeOK, Grammar, NEW s \in ConnState,
         inbox' = Append(inbox, StateEvent(s)), conn' = conn,
         <<LastToken(conn, inbox), s>> \in Follows
  PROVE  Word(conn, inbox)' /\ LastToken(conn, inbox)' = s
<1>1. inbox \in Seq(ClientEvent) /\ Word(conn, inbox)
  BY DEF TypeOK, Grammar
<1>2. StateEvent(s) \in ClientEvent /\ Token(StateEvent(s)) = s
  BY DEF StateEvent, ClientEvent, Token
<1>3. QED BY <1>1, <1>2, AppendWord

(* A shutdown only widens what the task may have said last. *)
LEMMA SaidWidens ==
  ASSUME NEW p \in TaskState, NEW saw, NEW down, NEW later, down => later,
         NEW x \in Said(p, saw, down)
  PROVE  x \in Said(p, saw, later)
<1>1. CASE p = "stopped"
  <2>1. CASE down
    <3>1. later
      BY <2>1
    <3>2. x \in ConnState \cup {"frame"}
      BY <1>1, <2>1 DEF Said
    <3>3. QED BY <1>1, <3>1, <3>2 DEF Said
  <2>2. CASE ~down
    <3>1. x = "failed"
      BY <1>1, <2>2 DEF Said
    <3>2. QED BY <1>1, <3>1 DEF Said, ConnState
  <2>3. QED BY <2>1, <2>2
<1>2. CASE p # "stopped"
  BY <1>2 DEF Said, TaskState
<1>3. QED BY <1>1, <1>2

(* No step of the task, its writer, the application or the network breaks   *)
(* the grammar.                                                             *)
LEMMA GrammarStep == TypeOK /\ Grammar /\ [Next]_vars => Grammar'
<1> SUFFICES ASSUME TypeOK, Grammar, [Next]_vars PROVE Grammar'
  OBVIOUS
<1> USE DEF taskVars, appVars, verbVars, writeVars, netVars, bounds
<1> DEFINE tip == LastToken(conn, inbox)
<1>word. Word(conn, inbox) /\ tip \in Said(pc, sawFrame, shutdown) /\ (pc \in {"connect", "hung"} => ~sawFrame)
  BY DEF Grammar
<1>same. ASSUME UNCHANGED <<conn, inbox, pc, sawFrame>>, shutdown => shutdown' PROVE Grammar'
  <2>1. tip \in Said(pc, sawFrame, shutdown')
    BY <1>same, <1>word, SaidWidens DEF TypeOK
  <2>2. QED BY <1>same, <1>word, <2>1 DEF Grammar
<1>1. CASE TaskTop
  <2>1. tip \in {"backoff", "connecting"} /\ conn' = conn /\ shutdown' = shutdown
    BY <1>1, <1>word DEF TaskTop, Said
  <2>2. CASE shutdown /\ pc' = "stopped" /\ inbox' = inbox
    BY <1>word, <2>1, <2>2 DEF Grammar, Said, ConnState
  <2>3. CASE pc' = "connect" /\ sawFrame' = FALSE /\ inbox' = Append(inbox, StateEvent("connecting"))
    <3>1. Word(conn, inbox)' /\ LastToken(conn, inbox)' = "connecting"
      BY <2>1, <2>3, Announce DEF Follows, ConnState
    <3>2. QED BY <2>3, <3>1 DEF Grammar, Said
  <2>4. QED BY <1>1, <2>2, <2>3 DEF TaskTop
<1>2. CASE Accepted
  BY <1>2, <1>word DEF Accepted, Grammar, Said
<1>3. CASE Refused
  <2>1. tip = "connecting" /\ ~sawFrame /\ UNCHANGED <<conn, shutdown, sawFrame>>
    BY <1>3, <1>word DEF Refused, Said
  <2>2. CASE pc' = "retry" /\ inbox' = inbox
    BY <1>word, <2>1, <2>2 DEF Grammar, Said
  <2>3. CASE pc' = "stopped" /\ inbox' = Append(inbox, StateEvent("failed"))
    <3>1. Word(conn, inbox)' /\ LastToken(conn, inbox)' = "failed"
      BY <2>1, <2>3, Announce DEF Follows, ConnState
    <3>2. QED BY <2>3, <3>1 DEF Grammar, Said, ConnState
  <2>4. QED BY <1>3, <2>2, <2>3 DEF Refused
<1>4. CASE Receive
  <2>1. /\ pc = "open" /\ pc' = "open" /\ sawFrame' = TRUE
        /\ UNCHANGED <<conn, shutdown>>
        /\ Head(wire) \in Frame
    BY <1>4 DEF Receive, TypeOK
  <2>2. PICK e \in {FrameEvent(Head(wire)), Undecodable(Head(wire))} : Report(e)
    BY <1>4 DEF Receive
  <2>3. e \in ClientEvent /\ Token(e) = "frame"
    BY <2>1, <2>2 DEF FrameEvent, Undecodable, ClientEvent, Token
  <2>4. inbox \in Seq(ClientEvent)
    BY DEF TypeOK
  <2>5. CASE sawFrame
    <3>1. inbox' = Append(inbox, e)
      BY <2>2, <2>5 DEF Report
    <3>2. tip \in {"frame", "connected"}
      BY <1>word, <2>1, <2>5 DEF Said
    <3>3. Word(conn, inbox)' /\ LastToken(conn, inbox)' = "frame"
      BY <1>word, <2>1, <2>3, <2>4, <3>1, <3>2, AppendWord DEF Follows
    <3>4. QED BY <2>1, <3>3 DEF Grammar, Said
  <2>6. CASE ~sawFrame
    <3> DEFINE mid == Append(inbox, StateEvent("connected"))
    <3>1. inbox' = Append(mid, e)
      BY <2>2, <2>6 DEF Report
    <3>2. tip = "connecting"
      BY <1>word, <2>1, <2>6 DEF Said
    <3>3. StateEvent("connected") \in ClientEvent /\ Token(StateEvent("connected")) = "connected"
      BY DEF StateEvent, ClientEvent, Token, ConnState
    <3>4. mid \in Seq(ClientEvent) /\ Word(conn, mid) /\ LastToken(conn, mid) = "connected"
      BY <1>word, <2>4, <3>2, <3>3, AppendWord DEF Follows
    <3>5. Word(conn, Append(mid, e)) /\ LastToken(conn, Append(mid, e)) = "frame"
      <4> HIDE DEF mid
      <4>1. QED BY <2>3, <3>4, AppendWord DEF Follows
    <3>6. QED BY <2>1, <3>1, <3>5 DEF Grammar, Said
  <2>7. QED BY <2>5, <2>6
<1>5. CASE SessionEnds
  <2>1. /\ tip \in {"frame", "connected", "connecting"}
        /\ pc' = "retry" /\ UNCHANGED <<conn, shutdown, sawFrame>>
        /\ inbox' = Append(inbox, StateEvent("disconnected"))
    BY <1>5, <1>word DEF SessionEnds, Said
  <2>2. Word(conn, inbox)' /\ LastToken(conn, inbox)' = "disconnected"
    BY <2>1, Announce DEF Follows, ConnState
  <2>3. QED BY <2>1, <2>2 DEF Grammar, Said
<1>6. CASE SessionFails
  BY <1>6, <1>word DEF SessionFails, Grammar, Said
<1>7. CASE Retry
  <2>1. /\ tip \in {"frame", "connected", "connecting", "disconnected"}
        /\ UNCHANGED <<conn, shutdown, sawFrame>>
    BY <1>7, <1>word DEF Retry, Said
  <2>2. CASE shutdown /\ pc' = "stopped" /\ inbox' = inbox
    BY <1>word, <2>1, <2>2 DEF Grammar, Said, ConnState
  <2>3. CASE pc' = "backoff" /\ inbox' = Append(inbox, StateEvent("backoff"))
    <3>1. Word(conn, inbox)' /\ LastToken(conn, inbox)' = "backoff"
      BY <2>1, <2>3, Announce DEF Follows, ConnState
    <3>2. QED BY <2>3, <3>1 DEF Grammar, Said
  <2>4. QED BY <1>7, <2>2, <2>3 DEF Retry
<1>8. CASE Wake
  BY <1>8, <1>word DEF Wake, Grammar, Said, ConnState
<1>9. CASE Writer
  BY <1>9, <1>same DEF Writer, WriterTakes, WriterSends, WriterStops
<1>10. CASE Handle
  <2>1. /\ inbox # <<>> /\ inbox \in Seq(ClientEvent) /\ conn \in ConnState
        /\ inbox' = Tail(inbox) /\ UNCHANGED <<pc, sawFrame>>
    BY <1>10 DEF Handle, TypeOK
  <2>2. Head(inbox) \in ClientEvent
    BY <2>1
  <2>3. /\ conn' = IF Head(inbox).type = "state" THEN Head(inbox).state ELSE conn
        /\ shutdown => shutdown'
    <3>1. CASE Head(inbox).type = "state" /\ HandleState(Head(inbox).state)
      <4>1. conn' = Head(inbox).state
        BY <3>1 DEF HandleState
      <4>2. shutdown => shutdown'
        BY <3>1 DEF HandleState
      <4>3. QED BY <3>1, <4>1, <4>2
    <3>2. CASE Head(inbox).type = "frame" /\ HandleFrame(Head(inbox).frame)
      BY <3>2 DEF HandleFrame
    <3>3. CASE Head(inbox).type = "undecodable" /\ UNCHANGED <<shutdown, appVars, verbVars>>
      BY <3>3
    <3>4. QED BY <1>10, <3>1, <3>2, <3>3 DEF Handle
  <2>4. /\ Word(conn, inbox)'
        /\ \/ LastToken(conn, inbox)' = tip
           \/ tip = "frame" /\ LastToken(conn, inbox)' = "connected"
    BY <1>word, <2>1, <2>3, TailWord
  <2>5. LastToken(conn, inbox)' \in Said(pc, sawFrame, shutdown')
    <3>1. tip \in Said(pc, sawFrame, shutdown')
      BY <1>word, <2>3, SaidWidens DEF TypeOK
    <3>2. tip = "frame" => "connected" \in Said(pc, sawFrame, shutdown')
      <4>1. CASE pc = "stopped" /\ shutdown'
        BY <4>1 DEF Said, ConnState
      <4>2. CASE pc = "stopped" /\ ~shutdown'
        BY <3>1, <4>2 DEF Said
      <4>3. CASE pc \in {"open", "retry"} /\ sawFrame
        BY <4>3 DEF Said
      <4>4. CASE pc # "stopped" /\ ~(pc \in {"open", "retry"} /\ sawFrame)
        BY <3>1, <4>4 DEF Said, TypeOK, TaskState
      <4>5. QED BY <4>1, <4>2, <4>3, <4>4
    <3>3. QED BY <2>4, <3>1, <3>2
  <2>6. QED BY <1>word, <2>1, <2>4, <2>5 DEF Grammar
<1>11. CASE SetFocus \/ CloseWindow \/ SendVerb \/ Quit
  BY <1>11, <1>same DEF SetFocus, CloseWindow, SendVerb, Quit
<1>12. CASE LinkFault
  BY <1>12, <1>same DEF LinkFault
<1>13. CASE UNCHANGED vars
  BY <1>13, <1>same DEF vars
<1>14. CASE AttemptHangs \/ AttemptGoesOn
  <2>1. tip = "connecting" /\ ~sawFrame /\ pc' \in {"connect", "hung"}
        /\ UNCHANGED <<conn, inbox, sawFrame>>
    BY <1>14, <1>word DEF AttemptHangs, AttemptGoesOn, Said
  <2>2. QED BY <1>word, <2>1 DEF Grammar, Said
<1>15. QED
  BY <1>1, <1>2, <1>3, <1>4, <1>5, <1>6, <1>7, <1>8, <1>9, <1>10, <1>11, <1>12, <1>13, <1>14
  DEF Next, Task, App

(* The application's state and the events still queued always form a word   *)
(* the connection task can say, and its last letter is what the task did    *)
(* last: events are neither lost nor reordered nor announced too late.      *)
THEOREM EventGrammar == Spec => []Grammar
<1>1. Init => Grammar
  BY DEF Init, Grammar, Word, LastToken, Said
<1>2. QED BY <1>1, GrammarStep, Typing, PTL DEF Spec

-------------------------------------------------------------------------------

(* The state the windows show is never left behind by the connection task:  *)
(* with every event handled, it says what the task is doing.                *)
THEOREM ShownStateIsHonest == Spec => []HonestState
<1>1. TypeOK /\ Grammar => HonestState
  <2> SUFFICES ASSUME TypeOK, Grammar, inbox = <<>>, ~shutdown
               PROVE  HonestState
    BY DEF HonestState
  <2>1. conn \in Said(pc, sawFrame, shutdown) /\ conn \in ConnState
        /\ (pc \in {"connect", "hung"} => ~sawFrame) /\ pc \in TaskState
    BY DEF Grammar, LastToken, TypeOK
  <2>2. CASE pc = "open"
    <3>1. conn = IF sawFrame THEN "connected" ELSE "connecting"
      BY <2>1, <2>2 DEF Said, ConnState
    <3>2. QED BY <2>2, <3>1 DEF HonestState
  <2>3. CASE pc = "stopped"
    BY <2>1, <2>3 DEF HonestState, Said
  <2>4. CASE pc \in {"connect", "hung", "backoff", "top", "retry"}
    BY <2>1, <2>4 DEF HonestState, Said
  <2>5. QED BY <2>1, <2>2, <2>3, <2>4 DEF TaskState
<1>2. QED BY <1>1, Typing, EventGrammar, PTL

(* What one step of the whole system does to the state the windows show and *)
(* to the frames the store has applied, given the grammar.                  *)
LEMMA HandlingStep ==
  ASSUME TypeOK, Grammar, [Next]_vars
  PROVE  /\ conn' # conn => <<conn, conn'>> \in Follows
         /\ <<lastOf, burstOf>>' # <<lastOf, burstOf>> => conn = "connected"
<1> USE DEF taskVars, appVars, verbVars, writeVars, netVars, bounds
<1>1. CASE Handle
  <2>1. /\ inbox # <<>> /\ Head(inbox) \in ClientEvent
        /\ <<conn, Token(Head(inbox))>> \in Follows /\ conn \in ConnState
    BY <1>1 DEF Handle, TypeOK, Grammar, Word
  <2>2. CASE Head(inbox).type = "state" /\ HandleState(Head(inbox).state)
    BY <2>1, <2>2 DEF HandleState, Token
  <2>3. CASE Head(inbox).type = "frame" /\ HandleFrame(Head(inbox).frame)
    <3>1. conn' = conn
      BY <2>3 DEF HandleFrame
    <3>2. conn = "connected"
      BY <2>1, <2>3 DEF Token, Follows, ConnState
    <3>3. QED BY <3>1, <3>2
  <2>4. CASE UNCHANGED <<shutdown, appVars, verbVars>>
    BY <2>4
  <2>5. QED BY <1>1, <2>2, <2>3, <2>4 DEF Handle
<1>2. CASE UNCHANGED <<conn, lastOf, burstOf>>
  BY <1>2
<1>3. CASE Task
  BY <1>2, <1>3 DEF Task, TaskTop, Accepted, Refused, AttemptHangs, AttemptGoesOn, Receive,
                    SessionEnds, SessionFails, Retry, Wake
<1>4. CASE Writer
  BY <1>2, <1>4 DEF Writer, WriterTakes, WriterSends, WriterStops
<1>5. CASE SetFocus \/ CloseWindow \/ SendVerb \/ Quit \/ LinkFault \/ UNCHANGED vars
  BY <1>2, <1>5 DEF SetFocus, CloseWindow, SendVerb, Quit, LinkFault, vars
<1>6. QED BY <1>1, <1>3, <1>4, <1>5 DEF Next, App

(* The store applies frames only while the windows show Connected. *)
THEOREM FramesFollowConnected == Spec => FramesOnlyWhileConnected
<1>1. TypeOK /\ Grammar /\ [Next]_vars =>
        [<<lastOf, burstOf>>' # <<lastOf, burstOf>> => conn = "connected"]_vars
  BY HandlingStep
<1>2. QED BY <1>1, Typing, EventGrammar, PTL DEF Spec, FramesOnlyWhileConnected

(* The state the windows show implements the automaton of ConnStates. *)
THEOREM ShownStateImplementsAutomaton == Spec => ShownStateFollowsAutomaton
<1>1. Init => UI!Init
  BY DEF Init, UI!Init
<1>2. TypeOK /\ TypeOK' /\ Grammar /\ [Next]_vars => [UI!Next]_conn
  <2> SUFFICES ASSUME TypeOK, TypeOK', Grammar, [Next]_vars, conn' # conn
               PROVE  UI!Next
    OBVIOUS
  <2>1. <<conn, conn'>> \in Follows /\ conn' \in ConnState /\ conn \in ConnState
    BY HandlingStep DEF TypeOK
  <2>2. QED BY <2>1 DEF Follows, UI!Next, UI!Edges, ConnState
<1>3. QED BY <1>1, <1>2, Typing, EventGrammar, PTL
          DEF Spec, ShownStateFollowsAutomaton, UI!Spec

-------------------------------------------------------------------------------
(* The verbs on their way to the server are numbered in order, above what   *)
(* the server has received.                                                 *)

Increasing(q) == \A i, j \in 1..Len(q) : i < j => q[i].n < q[j].n

Queued ==
  /\ received <= issued
  /\ Len(held) <= 1
  /\ held # <<>> => received < held[1].n /\ held[1].n <= issued
  /\ \A i \in 1..Len(verbs) :
       /\ received < verbs[i].n /\ verbs[i].n <= issued
       /\ held # <<>> => held[1].n < verbs[i].n
  /\ Increasing(verbs)

(* No step disorders the verbs that wait, or queues one twice. *)
LEMMA QueuedStep == TypeOK /\ Queued /\ [Next]_vars => Queued'
<1> SUFFICES ASSUME TypeOK, Queued, [Next]_vars PROVE Queued'
  OBVIOUS
<1> USE DEF taskVars, appVars, verbVars, writeVars, netVars, bounds
<1>type. /\ verbs \in Seq(Verb) /\ held \in Seq(Verb)
         /\ issued \in Nat /\ received \in Nat
         /\ \A i \in 1..Len(verbs) : verbs[i].n \in Nat
         /\ held # <<>> => Head(held) = held[1] /\ held[1].n \in Nat
  <2>1. /\ verbs \in Seq(Verb) /\ held \in Seq(Verb)
        /\ issued \in Nat /\ received \in Nat
    BY DEF TypeOK
  <2>2. \A v \in Verb : v.n \in Nat
    BY DEF Verb
  <2>3. \A i \in 1..Len(verbs) : verbs[i] \in Verb
    BY <2>1
  <2>4. held # <<>> => Head(held) = held[1] /\ held[1] \in Verb
    BY <2>1
  <2>5. QED BY <2>1, <2>2, <2>3, <2>4
<1>same. ASSUME UNCHANGED <<verbs, issued, held, received>> PROVE Queued'
  BY <1>same DEF Queued, Increasing
<1>abort. ASSUME UNCHANGED <<verbs, issued, received>>, held' = <<>> PROVE Queued'
  BY <1>abort DEF Queued, Increasing
<1>sent. ASSUME NEW k \in VerbKind, Sent(k), UNCHANGED <<held, received>> PROVE Queued'
  <2>1. CASE UNCHANGED <<verbs, issued>>
    BY <1>same, <1>sent, <2>1
  <2>2. CASE issued' = issued + 1 /\ verbs' = Append(verbs, [n |-> issued + 1, kind |-> k])
    <3>1. /\ Len(verbs') = Len(verbs) + 1
          /\ \A i \in 1..Len(verbs) : verbs'[i] = verbs[i]
          /\ verbs'[Len(verbs) + 1].n = issued + 1
      <4>1. [n |-> issued + 1, kind |-> k] \in Verb
        BY <1>type DEF Verb
      <4>2. QED BY <1>type, <2>2, <4>1, AppendProperties
    <3>2. ASSUME NEW i \in 1..Len(verbs')
          PROVE  /\ received < verbs'[i].n /\ verbs'[i].n <= issued'
                 /\ held # <<>> => held[1].n < verbs'[i].n
      <4>1. CASE i \in 1..Len(verbs)
        BY <1>type, <2>2, <3>1, <4>1 DEF Queued
      <4>2. CASE i = Len(verbs) + 1
        <5>1. verbs'[i].n = issued + 1
          BY <3>1, <4>2
        <5>2. QED BY <1>type, <2>2, <5>1 DEF Queued
      <4>3. QED BY <1>type, <3>1, <4>1, <4>2
    <3>3. Increasing(verbs')
      <4>1. SUFFICES ASSUME NEW i \in 1..Len(verbs'), NEW j \in 1..Len(verbs'), i < j
                     PROVE  verbs'[i].n < verbs'[j].n
        BY DEF Increasing
      <4>2. CASE j \in 1..Len(verbs)
        BY SMTT(30), <1>type, <3>1, <4>1, <4>2 DEF Queued, Increasing
      <4>3. CASE j = Len(verbs) + 1
        <5>1. i \in 1..Len(verbs) /\ verbs'[i].n = verbs[i].n /\ verbs[i].n <= issued
          BY <1>type, <3>1, <4>1, <4>3 DEF Queued
        <5>2. QED BY <1>type, <3>1, <4>3, <5>1
      <4>4. QED BY <1>type, <3>1, <4>2, <4>3
    <3>4. QED BY <1>sent, <1>type, <2>2, <3>2, <3>3 DEF Queued
  <2>3. QED BY <1>sent, <2>1, <2>2, Zenon DEF Sent
<1>1. CASE TaskTop \/ Accepted \/ Refused \/ AttemptHangs \/ AttemptGoesOn \/ Receive \/ Retry \/ Wake
  BY <1>1, <1>same DEF TaskTop, Accepted, Refused, AttemptHangs, AttemptGoesOn, Receive, Retry, Wake
<1>2. CASE SessionEnds \/ SessionFails
  BY <1>2, <1>abort DEF SessionEnds, SessionFails, AbortWriter
<1>3. CASE WriterTakes
  <2>1. /\ held = <<>> /\ verbs # <<>> /\ Len(held') = 1 /\ held'[1] = verbs[1]
        /\ verbs' = Tail(verbs) /\ UNCHANGED <<issued, received>>
    BY <1>3, <1>type DEF WriterTakes
  <2>2. /\ Len(verbs') = Len(verbs) - 1 /\ Len(verbs) \in Nat \ {0}
        /\ \A i \in 1..Len(verbs') : verbs'[i] = verbs[i + 1] /\ i + 1 \in 1..Len(verbs)
    BY <1>type, <2>1, HeadTailProperties
  <2>3. received < verbs[1].n /\ verbs[1].n <= issued
    BY <2>2 DEF Queued
  <2>4. ASSUME NEW i \in 1..Len(verbs')
        PROVE  /\ received < verbs'[i].n /\ verbs'[i].n <= issued
               /\ held'[1].n < verbs'[i].n
    BY <1>type, <2>1, <2>2 DEF Queued, Increasing
  <2>5. Increasing(verbs')
    <3>1. SUFFICES ASSUME NEW i \in 1..Len(verbs'), NEW j \in 1..Len(verbs'), i < j
                   PROVE  verbs'[i].n < verbs'[j].n
      BY DEF Increasing
    <3>2. /\ i + 1 \in 1..Len(verbs) /\ j + 1 \in 1..Len(verbs) /\ i + 1 < j + 1
          /\ verbs'[i] = verbs[i + 1] /\ verbs'[j] = verbs[j + 1]
      BY <2>2, <3>1
    <3>3. QED BY <3>2 DEF Queued, Increasing
  <2>6. QED BY <2>1, <2>3, <2>4, <2>5 DEF Queued
<1>4. CASE WriterSends
  <2>1. /\ held # <<>> /\ held' = <<>> /\ UNCHANGED <<verbs, issued>>
        /\ received' = Head(held).n \/ received' = received
    BY <1>4 DEF WriterSends, Deliver
  <2>2. Head(held) = held[1] /\ held[1].n \in Nat
    BY <1>type, <2>1
  <2>3. CASE received' = received
    BY <1>abort, <2>1, <2>3
  <2>4. CASE received' = held[1].n
    BY <2>1, <2>4 DEF Queued, Increasing
  <2>5. QED BY <2>1, <2>2, <2>3, <2>4
<1>5. CASE WriterStops
  BY <1>5, <1>same DEF WriterStops
<1>6. CASE Handle
  <2>1. UNCHANGED <<held, received>>
    BY <1>6 DEF Handle
  <2>2. \/ Sent(PresenceVerb(focused)) \/ UNCHANGED <<verbs, issued>>
    BY <1>6 DEF Handle, HandleState, HandleFrame, Assert
  <2>3. PresenceVerb(focused) \in VerbKind
    BY DEF PresenceVerb, VerbKind
  <2>4. QED BY <1>same, <1>sent, <2>1, <2>2, <2>3
<1>7. CASE SetFocus
  <2>1. PresenceVerb(focused') \in VerbKind
    BY DEF PresenceVerb, VerbKind
  <2>2. QED BY <1>7, <1>sent, <2>1 DEF SetFocus, Assert
<1>8. CASE SendVerb \/ CloseWindow
  BY <1>8, <1>same, <1>sent DEF SendVerb, CloseWindow, VerbKind
<1>9. CASE Quit \/ LinkFault \/ UNCHANGED vars
  BY <1>9, <1>same DEF Quit, LinkFault, vars
<1>10. QED
  BY <1>1, <1>2, <1>3, <1>4, <1>5, <1>6, <1>7, <1>8, <1>9 DEF Next, Task, Writer, App

(* Whatever is lost with a connection, no verb is sent twice or overtaken.  *)
THEOREM VerbsStayInOrder == Spec => []VerbsInOrder
<1>1. Init => Queued
  BY DEF Init, Queued, Increasing
<1>2. TypeOK /\ Queued => VerbsInOrder
  <2> SUFFICES ASSUME TypeOK, Queued PROVE VerbsInOrder
    OBVIOUS
  <2> DEFINE waiting == held \o verbs
  <2>1. /\ verbs \in Seq(Verb) /\ held \in Seq(Verb)
        /\ Len(held) \in {0, 1} /\ Len(verbs) \in Nat
    <3>1. verbs \in Seq(Verb) /\ held \in Seq(Verb)
      BY DEF TypeOK
    <3>2. Len(held) \in Nat /\ Len(verbs) \in Nat /\ Len(held) <= 1
      BY <3>1 DEF Queued
    <3>3. QED BY <3>1, <3>2
  <2>2. /\ DOMAIN waiting = 1..(Len(held) + Len(verbs))
        /\ \A i \in 1..(Len(held) + Len(verbs)) :
             waiting[i] = IF i <= Len(held) THEN held[i] ELSE verbs[i - Len(held)]
    BY <2>1
  <2>3. ASSUME NEW i \in 1..(Len(held) + Len(verbs)), i # 1
        PROVE  waiting[i].n > waiting[i - 1].n
    <3>1. CASE Len(held) = 0
      BY <2>1, <2>2, <2>3, <3>1 DEF Queued, Increasing
    <3>2. CASE Len(held) = 1 /\ i = 2
      <4>1. /\ waiting[i - 1] = held[1] /\ waiting[i] = verbs[1]
            /\ 1 \in 1..Len(verbs) /\ held # <<>>
        BY <2>1, <2>2, <2>3, <3>2
      <4>2. held[1].n < verbs[1].n
        BY <4>1 DEF Queued
      <4>3. QED BY <4>1, <4>2
    <3>3. CASE Len(held) = 1 /\ i > 2
      <4>1. /\ waiting[i] = verbs[i - 1] /\ waiting[i - 1] = verbs[i - 2]
            /\ i - 1 \in 1..Len(verbs) /\ i - 2 \in 1..Len(verbs) /\ i - 2 < i - 1
        BY <2>1, <2>2, <2>3, <3>3
      <4>2. QED BY <4>1 DEF Queued, Increasing
    <3>4. QED BY <2>1, <2>3, <3>1, <3>2, <3>3
  <2>4. ASSUME 1 \in 1..(Len(held) + Len(verbs)) PROVE waiting[1].n > received
    BY <2>1, <2>2, <2>4 DEF Queued
  <2>5. QED BY <2>2, <2>3, <2>4 DEF VerbsInOrder
<1>3. QED BY <1>1, <1>2, QueuedStep, Typing, PTL DEF Spec

-------------------------------------------------------------------------------
(* The frames that are queued one after the other come from one session, and  *)
(* so do those that a complete backlog has let in; what the reader reports    *)
(* next is of the session that is open.                                       *)
FromOne(q) ==
  \A i \in 1..Len(q) :
    i + 1 <= Len(q) /\ Token(q[i]) = "frame" /\ Token(q[i + 1]) = "frame"
      => q[i].frame.session = q[i + 1].frame.session

Sessions ==
  /\ backlogComplete => conn = "connected" /\ burstOf = lastOf
  /\ backlogComplete /\ inbox # <<>> /\ Token(inbox[1]) = "frame"
       => inbox[1].frame.session = lastOf
  /\ FromOne(inbox)
  /\ \A i \in 1..Len(wire) : wire[i].session = session
  /\ pc = "open" =>
       /\ inbox # <<>> /\ Token(inbox[Len(inbox)]) = "frame"
            => inbox[Len(inbox)].frame.session = session
       /\ inbox = <<>> /\ backlogComplete => lastOf = session

(* Appending an event keeps runs of frames to one session. *)
LEMMA AppendFromOne ==
  ASSUME NEW q \in Seq(ClientEvent), FromOne(q), NEW e \in ClientEvent,
         q # <<>> /\ Token(q[Len(q)]) = "frame" /\ Token(e) = "frame"
           => q[Len(q)].frame.session = e.frame.session
  PROVE  FromOne(Append(q, e))
<1> DEFINE r == Append(q, e)
<1>1. /\ Len(r) = Len(q) + 1 /\ r[Len(r)] = e /\ Len(q) \in Nat
      /\ \A i \in 1..Len(q) : r[i] = q[i]
  BY AppendProperties
<1>2. ASSUME NEW i \in 1..Len(r), i + 1 <= Len(r), Token(r[i]) = "frame", Token(r[i + 1]) = "frame"
      PROVE  r[i].frame.session = r[i + 1].frame.session
  <2>1. CASE i = Len(q)
    <3>1. q # <<>>
      BY <1>1, <2>1
    <3>2. r[i] = q[Len(q)] /\ r[i + 1] = e
      BY <1>1, <2>1
    <3>3. QED BY <1>2, <3>1, <3>2
  <2>2. CASE i # Len(q)
    <3>1. i \in 1..Len(q) /\ i + 1 <= Len(q) /\ r[i] = q[i] /\ r[i + 1] = q[i + 1]
      BY <1>1, <1>2, <2>2
    <3>2. QED BY <1>2, <3>1 DEF FromOne
  <2>3. QED BY <2>1, <2>2
<1> HIDE DEF r
<1>3. FromOne(r)
  BY <1>2 DEF FromOne
<1>4. QED BY <1>3 DEF r

(* What a step that appends one state to the channel, and touches neither   *)
(* the store nor the wire, must show.                                       *)
LEMMA AnnounceInSession ==
  ASSUME TypeOK, Sessions, NEW s \in ConnState,
         inbox' = Append(inbox, StateEvent(s)),
         UNCHANGED <<backlogComplete, conn, burstOf, lastOf>>,
         pc' # "open", wire' = wire \/ wire' = <<>>, session' = session
  PROVE  Sessions'
<1>1. inbox \in Seq(ClientEvent) /\ FromOne(inbox)
  BY DEF TypeOK, Sessions
<1>2. StateEvent(s) \in ClientEvent /\ Token(StateEvent(s)) = s /\ s # "frame"
  BY DEF StateEvent, ClientEvent, Token, ConnState
<1>3. FromOne(inbox')
  BY <1>1, <1>2, AppendFromOne
<1>4. inbox'[1] = IF inbox = <<>> THEN StateEvent(s) ELSE inbox[1]
  BY <1>1
<1>5. \A i \in 1..Len(wire') : wire'[i].session = session'
  BY DEF Sessions
<1>6. QED BY <1>2, <1>3, <1>4, <1>5 DEF Sessions

(* No step mixes the frames of two sessions. *)
LEMMA SessionsStep == TypeOK /\ Grammar /\ Sessions /\ [Next]_vars => Sessions'
<1> SUFFICES ASSUME TypeOK, Grammar, Sessions, [Next]_vars PROVE Sessions'
  OBVIOUS
<1> USE DEF taskVars, appVars, verbVars, writeVars, netVars, bounds
<1>type. inbox \in Seq(ClientEvent) /\ wire \in Seq(Frame) /\ conn \in ConnState
  BY DEF TypeOK
<1>same. ASSUME UNCHANGED <<backlogComplete, conn, burstOf, lastOf, inbox, session>>,
                wire' = wire \/ wire' = <<>>, pc' = "open" => pc = "open"
         PROVE  Sessions'
  <2>1. \A i \in 1..Len(wire') : wire'[i].session = session'
    BY <1>same DEF Sessions
  <2>2. QED BY <1>same, <2>1 DEF Sessions
<1>1. CASE TaskTop
  <2>1. CASE pc' = "stopped" /\ UNCHANGED <<inbox, sawFrame>>
    BY <1>1, <1>same, <2>1 DEF TaskTop
  <2>2. CASE pc' = "connect" /\ inbox' = Append(inbox, StateEvent("connecting"))
    BY <1>1, <2>2, AnnounceInSession DEF TaskTop, ConnState
  <2>3. QED BY <1>1, <2>1, <2>2 DEF TaskTop
<1>2. CASE Accepted
  <2>1. LastToken(conn, inbox) = "connecting"
    BY <1>2 DEF Accepted, Grammar, Said
  <2>2. /\ UNCHANGED <<backlogComplete, conn, burstOf, lastOf, inbox>>
        /\ wire' = Burst(session + 1) /\ session' = session + 1
    BY <1>2 DEF Accepted
  <2>3. \A i \in 1..Len(wire') : wire'[i].session = session'
    BY <2>2 DEF Burst
  <2>4. inbox # <<>> => Token(inbox[Len(inbox)]) # "frame"
    BY <2>1 DEF LastToken
  <2>5. inbox = <<>> => ~backlogComplete
    BY <2>1 DEF LastToken, Sessions
  <2>6. QED BY <2>2, <2>3, <2>4, <2>5 DEF Sessions
<1>3. CASE Refused
  <2>1. CASE pc' = "retry" /\ inbox' = inbox
    BY <1>3, <1>same, <2>1 DEF Refused
  <2>2. CASE pc' = "stopped" /\ inbox' = Append(inbox, StateEvent("failed"))
    BY <1>3, <2>2, AnnounceInSession DEF Refused, ConnState
  <2>3. QED BY <1>3, <2>1, <2>2 DEF Refused
<1>4. CASE Receive
  <2>1. /\ pc = "open" /\ pc' = "open" /\ wire # <<>> /\ wire' = Tail(wire)
        /\ UNCHANGED <<backlogComplete, conn, burstOf, lastOf, session>>
    BY <1>4 DEF Receive
  <2>2. /\ Head(wire) = wire[1] /\ Head(wire).session = session /\ Head(wire) \in Frame
        /\ \A i \in 1..Len(wire') : wire'[i].session = session'
    BY <1>type, <2>1 DEF Sessions
  <2>3. PICK e \in {FrameEvent(Head(wire)), Undecodable(Head(wire))} : Report(e)
    BY <1>4 DEF Receive
  <2>4. e \in ClientEvent /\ Token(e) = "frame" /\ e.frame.session = session
    BY <2>2, <2>3 DEF FrameEvent, Undecodable, ClientEvent, Token
  <2>5. CASE sawFrame
    <3>1. inbox' = Append(inbox, e)
      BY <2>3, <2>5 DEF Report
    <3>2. FromOne(inbox')
      BY <1>type, <2>1, <2>4, <3>1, AppendFromOne DEF Sessions
    <3>3. /\ inbox' # <<>> /\ inbox'[Len(inbox')] = e
          /\ inbox'[1] = IF inbox = <<>> THEN e ELSE inbox[1]
      BY <1>type, <2>4, <3>1
    <3>4. backlogComplete /\ Token(inbox'[1]) = "frame" => inbox'[1].frame.session = lastOf
      BY <2>1, <2>4, <3>3 DEF Sessions
    <3>5. QED BY <2>1, <2>2, <2>4, <3>2, <3>3, <3>4 DEF Sessions
  <2>6. CASE ~sawFrame
    <3> DEFINE up == StateEvent("connected")
               mid == Append(inbox, up)
    <3>1. inbox' = Append(mid, e)
      BY <2>3, <2>6 DEF Report
    <3>2. up \in ClientEvent /\ Token(up) = "connected"
      BY DEF StateEvent, ClientEvent, Token, ConnState
    <3>3. /\ mid \in Seq(ClientEvent) /\ FromOne(mid)
          /\ mid # <<>> /\ mid[Len(mid)] = up
          /\ mid[1] = IF inbox = <<>> THEN up ELSE inbox[1]
      BY <1>type, <3>2, AppendFromOne DEF Sessions
    <3> HIDE DEF mid, up
    <3>4. FromOne(inbox')
      BY <2>4, <3>1, <3>2, <3>3, AppendFromOne
    <3>5. inbox' # <<>> /\ inbox'[Len(inbox')] = e /\ inbox'[1] = mid[1]
      BY <2>4, <3>1, <3>3
    <3>6. backlogComplete /\ Token(inbox'[1]) = "frame" => inbox'[1].frame.session = lastOf
      BY <3>2, <3>3, <3>5 DEF Sessions
    <3>7. QED BY <2>1, <2>2, <2>4, <3>4, <3>5, <3>6 DEF Sessions
  <2>7. QED BY <2>5, <2>6
<1>5. CASE SessionEnds
  BY <1>5, AnnounceInSession DEF SessionEnds, ConnState
<1>6. CASE SessionFails
  BY <1>6, <1>same DEF SessionFails
<1>7. CASE Retry
  <2>1. CASE pc' = "stopped" /\ inbox' = inbox
    BY <1>7, <1>same, <2>1 DEF Retry
  <2>2. CASE pc' = "backoff" /\ inbox' = Append(inbox, StateEvent("backoff"))
    BY <1>7, <2>2, AnnounceInSession DEF Retry, ConnState
  <2>3. QED BY <1>7, <2>1, <2>2 DEF Retry
<1>8. CASE Wake
  BY <1>8, <1>same DEF Wake
<1>9. CASE Writer
  BY <1>9, <1>same DEF Writer, WriterTakes, WriterSends, WriterStops
<1>10. CASE Handle
  <2> DEFINE t == Tail(inbox)
             e == inbox[1]
  <2>1. /\ inbox # <<>> /\ Head(inbox) = e /\ e \in ClientEvent
        /\ inbox' = t /\ UNCHANGED <<pc, wire, session>>
    BY <1>10, <1>type DEF Handle
  <2>2. /\ Len(t) = Len(inbox) - 1 /\ Len(inbox) \in Nat
        /\ \A i \in 1..Len(t) : t[i] = inbox[i + 1]
        /\ t = <<>> => inbox[Len(inbox)] = e
        /\ t # <<>> => /\ t[Len(t)] = inbox[Len(inbox)] /\ t[1] = inbox[2]
                       /\ 1 \in 1..Len(inbox) /\ 2 <= Len(inbox)
    <3>1. /\ Len(t) = Len(inbox) - 1 /\ Len(inbox) \in Nat /\ Len(inbox) >= 1
          /\ \A i \in 1..Len(t) : t[i] = inbox[i + 1]
          /\ t \in Seq(ClientEvent)
      BY <1>type, <2>1, HeadTailProperties
    <3> HIDE DEF t
    <3>2. t = <<>> <=> Len(t) = 0
      BY <3>1
    <3>3. QED BY <3>1, <3>2
  <2>3. FromOne(t)
    BY <2>2 DEF FromOne, Sessions
  <2>4. /\ t # <<>> /\ Token(e) = "frame" /\ Token(t[1]) = "frame"
             => t[1].frame.session = e.frame.session
        /\ pc = "open" /\ t = <<>> /\ Token(e) = "frame" => e.frame.session = session
        /\ pc = "open" /\ t # <<>> /\ Token(t[Len(t)]) = "frame" => t[Len(t)].frame.session = session
    BY <2>1, <2>2 DEF Sessions, FromOne
  <2>5. backlogComplete /\ Token(e) = "frame" => e.frame.session = lastOf
    BY <2>1 DEF Sessions
  <2>6. <<conn, Token(e)>> \in Follows
    BY <2>1 DEF Grammar, Word
  <2> HIDE DEF t, e
  <2>7. CASE e.type = "state" /\ HandleState(e.state)
    <3>1. /\ conn' = e.state /\ Token(e) = e.state /\ UNCHANGED <<lastOf, burstOf>>
          /\ backlogComplete' = IF LosesSocket(e.state) THEN FALSE ELSE backlogComplete
          /\ e.state \in ConnState
      BY <2>1, <2>7 DEF HandleState, Token, ClientEvent
    <3>2. ~backlogComplete'
      <4>1. ASSUME backlogComplete PROVE e.state \in {"disconnected", "backoff"}
        BY <2>6, <3>1, <4>1 DEF Sessions, Follows, ConnState
      <4>2. QED BY <3>1, <4>1 DEF LosesSocket, TypeOK, FlagsOK
    <3>3. QED BY <2>1, <2>3, <2>4, <3>1, <3>2 DEF Sessions
  <2>8. CASE e.type = "frame" /\ HandleFrame(e.frame)
    <3>1. /\ Token(e) = "frame" /\ lastOf' = e.frame.session /\ conn' = conn
          /\ \/ backlogComplete' = TRUE /\ burstOf' = e.frame.session
             \/ UNCHANGED <<backlogComplete, burstOf>>
      BY <2>8 DEF HandleFrame, Token
    <3>2. conn = "connected"
      BY <1>type, <2>6, <3>1 DEF Follows, ConnState
    <3>3. backlogComplete' => conn' = "connected" /\ burstOf' = lastOf'
      BY <2>5, <3>1, <3>2 DEF Sessions
    <3>4. QED BY <2>1, <2>3, <2>4, <3>1, <3>3 DEF Sessions
  <2>9. CASE e.type = "undecodable" /\ UNCHANGED <<shutdown, appVars, verbVars>>
    <3>1. Token(e) = "frame" /\ UNCHANGED <<backlogComplete, conn, burstOf, lastOf>>
      BY <2>9 DEF Token
    <3>2. QED BY <2>1, <2>3, <2>4, <2>5, <3>1 DEF Sessions
  <2>10. QED BY <1>10, <2>1, <2>7, <2>8, <2>9 DEF Handle
<1>11. CASE SetFocus \/ CloseWindow \/ SendVerb \/ Quit
  BY <1>11, <1>same DEF SetFocus, CloseWindow, SendVerb, Quit
<1>12. CASE LinkFault
  <2>1. wire' = wire \/ wire' = <<>>
    BY <1>12 DEF LinkFault
  <2>2. QED BY <1>12, <1>same, <2>1 DEF LinkFault
<1>13. CASE UNCHANGED vars
  BY <1>13, <1>same DEF vars
<1>14. CASE AttemptHangs \/ AttemptGoesOn
  BY <1>14, <1>same DEF AttemptHangs, AttemptGoesOn
<1>15. QED
  BY <1>1, <1>2, <1>3, <1>4, <1>5, <1>6, <1>7, <1>8, <1>9, <1>10, <1>11, <1>12, <1>13, <1>14
  DEF Next, Task, App

(* A backlog counts as complete only while the session whose burst ended is  *)
(* the one that the store applies: "absence is proof" is never claimed for a  *)
(* connection that was lost, however late its frames are handled.            *)
THEOREM AbsenceProves == Spec => []AbsenceIsProof
<1>1. Init => Sessions
  BY DEF Init, Sessions, FromOne
<1>2. Sessions => AbsenceIsProof
  BY DEF Sessions, AbsenceIsProof
<1>3. QED BY <1>1, <1>2, SessionsStep, Typing, EventGrammar, PTL DEF Spec

-------------------------------------------------------------------------------
Silent(q) == \A i \in 1..Len(q) : q[i].kind = "other"

(* If q asserts presence, what it asserts last is f. *)
Asserts(q, f) ==
  \A i \in 1..Len(q) :
    q[i].kind # "other" /\ (\A j \in 1..Len(q) : i < j => q[j].kind = "other")
      => q[i].kind = PresenceVerb(f)

Announced == \E i \in 1..Len(inbox) : inbox[i] = StateEvent("connected")

(* What was asserted last: the focus, or that of a window closed since. *)
Asserted == focused \/ unasserted

Presence ==
  /\ ~shutdown => sock
  /\ link # "none" => pc = "open"
  /\ Len(held) <= 1
  /\ pc # "stopped" /\ ~shutdown =>
       /\ Asserts(verbs, Asserted)
       /\ Silent(verbs) => Asserts(held, Asserted)
       /\ link = "live" /\ Silent(verbs) /\ Silent(held)
            => visible = Asserted \/ ~sawFrame \/ Announced

(* What is asserted by a queue that takes one more verb. *)
LEMMA AppendAsserts ==
  ASSUME NEW q \in Seq(Verb), NEW v \in Verb, NEW f \in BOOLEAN
  PROVE  /\ v.kind # "other" => ~Silent(Append(q, v))
         /\ v.kind = "other" => (Silent(Append(q, v)) <=> Silent(q))
         /\ v.kind = PresenceVerb(f) => Asserts(Append(q, v), f)
         /\ v.kind = "other" /\ Asserts(q, f) => Asserts(Append(q, v), f)
<1> DEFINE r == Append(q, v)
<1>1. /\ Len(r) = Len(q) + 1 /\ r[Len(q) + 1] = v /\ Len(q) \in Nat
      /\ \A i \in 1..Len(q) : r[i] = q[i]
  BY AppendProperties
<1>2. \A i \in 1..Len(r) : i \in 1..Len(q) \/ i = Len(q) + 1
  BY <1>1
<1>3. Len(q) + 1 \in 1..Len(r) /\ \A i \in 1..Len(q) : i \in 1..Len(r) /\ i < Len(q) + 1
  BY <1>1
<1> HIDE DEF r
<1>4. v.kind # "other" => ~Silent(r)
  BY <1>1, <1>3 DEF Silent
<1>5. v.kind = "other" => (Silent(r) <=> Silent(q))
  BY <1>1, <1>2, <1>3 DEF Silent
<1>6. v.kind = PresenceVerb(f) => Asserts(r, f)
  <2>1. v.kind = PresenceVerb(f) => v.kind # "other"
    BY DEF PresenceVerb
  <2>2. QED BY <1>1, <1>2, <1>3, <2>1 DEF Asserts
<1>7. v.kind = "other" /\ Asserts(q, f) => Asserts(r, f)
  <2>1. SUFFICES ASSUME v.kind = "other", Asserts(q, f), NEW i \in 1..Len(r), r[i].kind # "other",
                        \A j \in 1..Len(r) : i < j => r[j].kind = "other"
                 PROVE  r[i].kind = PresenceVerb(f)
    BY DEF Asserts
  <2>2. i \in 1..Len(q) /\ r[i] = q[i]
    BY <1>1, <1>2, <2>1
  <2>3. \A j \in 1..Len(q) : i < j => q[j].kind = "other"
    BY <1>1, <1>3, <2>1
  <2>4. QED BY <2>1, <2>2, <2>3 DEF Asserts
<1>8. QED BY <1>4, <1>5, <1>6, <1>7 DEF r

(* Taking the first verb in hand keeps what is asserted last. *)
LEMMA TakeAsserts ==
  ASSUME NEW q \in Seq(Verb), q # <<>>, NEW f \in BOOLEAN, Asserts(q, f),
         NEW h, h = <<Head(q)>>
  PROVE  /\ Asserts(Tail(q), f)
         /\ Silent(Tail(q)) => Asserts(h, f)
         /\ Silent(Tail(q)) /\ Silent(h) => Silent(q)
<1> DEFINE t == Tail(q)
<1>1. /\ Len(q) \in Nat /\ Len(q) >= 1 /\ Len(t) = Len(q) - 1 /\ Head(q) = q[1]
      /\ \A i \in 1..Len(t) : t[i] = q[i + 1]
  BY HeadTailProperties
<1>2. /\ \A i \in 1..Len(t) : i + 1 \in 1..Len(q) /\ t[i] = q[i + 1]
      /\ \A i \in 1..Len(q) : i # 1 => i - 1 \in 1..Len(t) /\ t[i - 1] = q[i]
      /\ 1 \in 1..Len(q)
  BY <1>1
<1>3. Len(h) = 1 /\ h[1] = q[1] /\ 1 \in 1..Len(h) /\ \A i \in 1..Len(h) : i = 1
  BY <1>1
<1> HIDE DEF t
<1>4. Asserts(t, f)
  <2>1. SUFFICES ASSUME NEW i \in 1..Len(t), t[i].kind # "other",
                        \A j \in 1..Len(t) : i < j => t[j].kind = "other"
                 PROVE  t[i].kind = PresenceVerb(f)
    BY DEF Asserts
  <2>2. i + 1 \in 1..Len(q) /\ q[i + 1].kind # "other"
    BY <1>2, <2>1
  <2>3. ASSUME NEW j \in 1..Len(q), i + 1 < j PROVE q[j].kind = "other"
    <3>1. j # 1 /\ i < j - 1
      BY <1>1, <2>3
    <3>2. j - 1 \in 1..Len(t) /\ t[j - 1] = q[j]
      BY <1>2, <3>1
    <3>3. QED BY <2>1, <3>1, <3>2
  <2>4. QED BY <1>2, <2>2, <2>3 DEF Asserts
<1>5. Silent(t) => \A j \in 1..Len(q) : 1 < j => q[j].kind = "other"
  BY SMTT(30), <1>2 DEF Silent
<1>6. Silent(t) => Asserts(h, f)
  BY <1>2, <1>3, <1>5 DEF Asserts
<1>7. Silent(t) /\ Silent(h) => Silent(q)
  BY <1>1, <1>3, <1>5 DEF Silent
<1>8. QED BY <1>4, <1>6, <1>7 DEF t

(* An announcement that is queued stays so until it is handled. *)
LEMMA AnnouncedStays ==
  ASSUME TypeOK, NEW e \in ClientEvent
  PROVE  /\ inbox' = Append(inbox, e) /\ Announced => Announced'
         /\ inbox' = Append(inbox, e) /\ e = StateEvent("connected") => Announced'
         /\ inbox # <<>> /\ inbox' = Tail(inbox) /\ Announced /\ Head(inbox) # StateEvent("connected")
              => Announced'
<1>1. inbox \in Seq(ClientEvent)
  BY DEF TypeOK
<1>2. ASSUME inbox' = Append(inbox, e)
      PROVE  /\ Len(inbox) + 1 \in 1..Len(inbox') /\ inbox'[Len(inbox) + 1] = e
             /\ \A i \in 1..Len(inbox) : i \in 1..Len(inbox') /\ inbox'[i] = inbox[i]
  BY <1>1, <1>2
<1>3. ASSUME inbox # <<>>, inbox' = Tail(inbox)
      PROVE  /\ Head(inbox) = inbox[1]
             /\ \A i \in 1..Len(inbox) : i # 1 => i - 1 \in 1..Len(inbox') /\ inbox'[i - 1] = inbox[i]
  <2>1. /\ Len(inbox) \in Nat /\ Len(inbox) >= 1 /\ Len(inbox') = Len(inbox) - 1
        /\ Head(inbox) = inbox[1] /\ \A i \in 1..Len(inbox') : inbox'[i] = inbox[i + 1]
    BY <1>1, <1>3, HeadTailProperties
  <2>2. QED BY <2>1
<1>4. QED BY <1>2, <1>3 DEF Announced

(* No step loses the presence that the server has yet to be told. *)
LEMMA PresenceStep == TypeOK /\ Grammar /\ Presence /\ [Next]_vars => Presence'
<1> SUFFICES ASSUME TypeOK, Grammar, Presence, [Next]_vars PROVE Presence'
  OBVIOUS
<1> USE DEF taskVars, appVars, verbVars, writeVars, netVars, bounds
<1>type. /\ verbs \in Seq(Verb) /\ held \in Seq(Verb) /\ inbox \in Seq(ClientEvent)
         /\ wire \in Seq(Frame) /\ focused \in BOOLEAN /\ visible \in BOOLEAN
         /\ unasserted \in BOOLEAN /\ Asserted \in BOOLEAN
         /\ issued \in Nat /\ shutdown \in BOOLEAN /\ sock \in BOOLEAN
  BY DEF TypeOK, FlagsOK, Asserted
<1>none. Len(<<>>) = 0 /\ Silent(<<>>) /\ \A f : Asserts(<<>>, f)
  BY DEF Silent, Asserts
<1>cut. ASSUME link' = "none", held' = held \/ held' = <<>>,
               UNCHANGED <<shutdown, sock, verbs, focused, unasserted>>, pc' # "stopped" => pc # "stopped"
        PROVE  Presence'
  <2>1. Len(held') <= 1
    BY <1>cut, <1>none DEF Presence
  <2>2. pc' # "stopped" /\ ~shutdown' =>
          Asserts(verbs', Asserted') /\ (Silent(verbs') => Asserts(held', Asserted'))
    BY <1>cut, <1>none, Zenon DEF Presence, Asserted
  <2>3. QED BY <1>cut, <2>1, <2>2 DEF Presence
<1>same. ASSUME UNCHANGED <<pc, sock, verbs, held, Asserted, link, visible, sawFrame>>,
                shutdown => shutdown', Announced => Announced'
         PROVE  Presence'
  BY <1>same DEF Presence
<1>sent. ASSUME NEW k \in VerbKind, Sent(k), sock, pc # "stopped"
         PROVE  \E v \in Verb : v.kind = k /\ verbs' = Append(verbs, v)
  <2>1. [n |-> issued + 1, kind |-> k] \in Verb
    BY <1>type DEF Verb
  <2>2. verbs' = Append(verbs, [n |-> issued + 1, kind |-> k])
    BY <1>sent DEF Sent
  <2>3. QED BY <2>1, <2>2
<1>idle. ASSUME link = "none", pc \in {"top", "connect", "hung", "retry", "backoff"},
                UNCHANGED <<shutdown, appVars, verbVars, writeVars, netVars>>
         PROVE  Presence'
  BY <1>idle, <1>cut
<1>told. ASSUME UNCHANGED <<focused, unasserted>> PROVE Asserted' = Asserted
  BY <1>told DEF Asserted
<1>1. CASE TaskTop \/ Refused \/ AttemptHangs \/ AttemptGoesOn \/ Retry \/ Wake
  <2>1. /\ pc \in {"top", "connect", "hung", "retry", "backoff"}
        /\ UNCHANGED <<shutdown, appVars, verbVars, writeVars, netVars>>
    BY <1>1 DEF TaskTop, Refused, AttemptHangs, AttemptGoesOn, Retry, Wake
  <2>2. link = "none"
    BY <2>1 DEF Presence
  <2>3. QED BY <1>idle, <2>1, <2>2
<1>2. CASE Accepted
  <2>1. ~sawFrame
    BY <1>2 DEF Accepted, Grammar
  <2>2. Asserted' = Asserted
    BY <1>2, <1>told DEF Accepted
  <2>3. QED BY <1>2, <2>1, <2>2 DEF Accepted, Presence
<1>3. CASE Receive
  <2>1. /\ UNCHANGED <<pc, sock, verbs, held, Asserted, link, visible, shutdown>> /\ sawFrame' = TRUE
        /\ Head(wire) \in Frame
    BY <1>3, <1>type, <1>told DEF Receive
  <2>2. PICK e \in {FrameEvent(Head(wire)), Undecodable(Head(wire))} : Report(e)
    BY <1>3 DEF Receive
  <2>3. e \in ClientEvent /\ StateEvent("connected") \in ClientEvent
    BY <2>1, <2>2 DEF FrameEvent, Undecodable, StateEvent, ClientEvent, ConnState
  <2>4. ~sawFrame \/ Announced => Announced'
    <3>1. CASE sawFrame
      <4>1. inbox' = Append(inbox, e)
        BY <2>2, <3>1 DEF Report
      <4>2. QED BY <2>3, <3>1, <4>1, AnnouncedStays
    <3>2. CASE ~sawFrame
      <4> DEFINE mid == Append(inbox, StateEvent("connected"))
      <4>1. inbox' = Append(mid, e)
        BY <2>2, <3>2 DEF Report
      <4>2. mid \in Seq(ClientEvent) /\ Len(mid) \in 1..Len(mid) /\ mid[Len(mid)] = StateEvent("connected")
        BY <1>type, <2>3
      <4> HIDE DEF mid
      <4>3. Len(mid) \in 1..Len(inbox') /\ inbox'[Len(mid)] = mid[Len(mid)]
        BY <2>3, <4>1, <4>2
      <4>4. QED BY <4>2, <4>3 DEF Announced
    <3>3. QED BY <3>1, <3>2
  <2>5. QED BY <2>1, <2>4 DEF Presence
<1>4. CASE SessionEnds \/ SessionFails
  BY <1>4, <1>cut DEF SessionEnds, SessionFails, AbortWriter
<1>5. CASE WriterTakes
  <2>1. /\ verbs # <<>> /\ held = <<>> /\ held' = <<Head(verbs)>> /\ verbs' = Tail(verbs)
        /\ UNCHANGED <<pc, sock, shutdown, Asserted, link, visible, sawFrame, inbox>>
    BY <1>5, <1>told DEF WriterTakes
  <2>2. Len(held') <= 1
    BY <2>1
  <2>3. pc # "stopped" /\ ~shutdown =>
          /\ Asserts(verbs', Asserted)
          /\ Silent(verbs') => Asserts(held', Asserted)
          /\ Silent(verbs') /\ Silent(held') => Silent(verbs)
    BY <1>type, <2>1, TakeAsserts DEF Presence
  <2>4. Announced' = Announced
    BY <2>1 DEF Announced
  <2>5. QED BY <1>none, <2>1, <2>2, <2>3, <2>4 DEF Presence
<1>6. CASE WriterSends
  <2>1. /\ held # <<>> /\ held' = <<>>
        /\ UNCHANGED <<pc, sock, shutdown, Asserted, link, sawFrame, inbox, verbs>>
        /\ \/ link # "live" /\ visible' = visible
           \/ link = "live" /\ Deliver(Head(held))
    <3>1. UNCHANGED <<focused, unasserted>>
      BY <1>6 DEF WriterSends
    <3>2. Asserted' = Asserted
      BY <3>1, <1>told
    <3>3. QED BY <1>6, <3>2, Zenon DEF WriterSends
  <2>2. /\ Head(held) = held[1] /\ 1 \in 1..Len(held) /\ \A i \in 1..Len(held) : i = 1
        /\ held[1] \in Verb
    BY <1>type, <2>1 DEF Presence
  <2>3. Announced' = Announced
    BY <2>1 DEF Announced
  <2>4. ASSUME pc # "stopped", ~shutdown, link = "live", Silent(verbs)
        PROVE  visible' = Asserted \/ ~sawFrame \/ Announced
    <3>1. CASE held[1].kind = "other"
      <4>1. visible' = visible /\ Silent(held)
        BY <2>1, <2>2, <2>4, <3>1 DEF Deliver, Silent
      <4>2. QED BY <2>4, <4>1 DEF Presence
    <3>2. CASE held[1].kind # "other"
      <4>1. Asserts(held, Asserted)
        BY <2>4 DEF Presence
      <4>2. held[1].kind = PresenceVerb(Asserted)
        BY <2>2, <3>2, <4>1 DEF Asserts
      <4>3. visible' = (held[1].kind = "visible")
        BY <2>1, <2>2, <2>4, <3>2 DEF Deliver
      <4>4. QED BY <1>type, <4>2, <4>3 DEF PresenceVerb
    <3>3. QED BY <3>1, <3>2
  <2>5. QED BY <1>none, <2>1, <2>3, <2>4 DEF Presence
<1>7. CASE WriterStops
  BY <1>7, <1>same, <1>told DEF WriterStops, Announced
<1>8. CASE Handle
  <2>1. /\ inbox # <<>> /\ inbox' = Tail(inbox) /\ Head(inbox) \in ClientEvent
        /\ UNCHANGED <<pc, sawFrame, focused, held, link, visible>>
    BY <1>8, <1>type DEF Handle
  <2>2. Announced /\ Head(inbox) # StateEvent("connected") => Announced'
    BY <2>1, AnnouncedStays
  <2>3. CASE Head(inbox).type = "state" /\ HandleState(Head(inbox).state)
    <3> DEFINE s == Head(inbox).state
    <3>1. Head(inbox) = StateEvent(s) /\ s \in ConnState
      BY <2>1, <2>3 DEF ClientEvent, StateEvent
    <3>2. CASE s = "connected"
      <4>1. UNCHANGED <<sock, shutdown>> /\ Sent(PresenceVerb(focused)) /\ Asserted' = focused
        <5>1. UNCHANGED <<sock, shutdown>> /\ Assert(focused)
          BY <2>3, <3>2 DEF HandleState
        <5>2. Asserted' = focused
          BY <2>1, <1>type, <5>1 DEF Assert, Asserted
        <5>3. QED BY <5>1, <5>2 DEF Assert
      <4>2. CASE pc = "stopped" \/ shutdown
        BY <2>1, <4>1, <4>2 DEF Presence
      <4>3. CASE pc # "stopped" /\ ~shutdown
        <5>1. PresenceVerb(focused) \in VerbKind \ {"other"} /\ sock
          BY <4>3 DEF PresenceVerb, VerbKind, Presence
        <5>2. PICK v \in Verb : v.kind = PresenceVerb(focused) /\ verbs' = Append(verbs, v)
          BY <1>sent, <4>1, <4>3, <5>1
        <5>3. Asserts(verbs', focused) /\ ~Silent(verbs')
          BY <1>type, <5>1, <5>2, AppendAsserts
        <5>4. QED BY <2>1, <4>1, <4>3, <5>1, <5>3 DEF Presence
      <4>4. QED BY <4>2, <4>3
    <3>3. CASE s # "connected"
      <4>1. UNCHANGED <<verbs, unasserted>> /\ (~shutdown' => sock') /\ (shutdown => shutdown')
        <5>1. UNCHANGED <<verbs, unasserted>>
          BY <2>3, <3>3 DEF HandleState
        <5>2. CASE s = "failed"
          BY <1>type, <2>3, <5>2, Zenon DEF HandleState, Presence
        <5>3. CASE s # "failed"
          <6>1. UNCHANGED <<sock, shutdown>>
            BY <2>3, <5>3 DEF HandleState
          <6>2. QED BY <5>1, <6>1 DEF Presence
        <5>4. QED BY <5>1, <5>2, <5>3
      <4>2. Announced => Announced'
        <5>1. Head(inbox) # StateEvent("connected")
          BY <3>1, <3>3 DEF StateEvent
        <5>2. QED BY <2>2, <5>1
      <4>3. Asserted' = Asserted
        BY <2>1, <4>1, <1>told
      <4>4. QED BY <2>1, <4>1, <4>2, <4>3 DEF Presence
    <3>4. QED BY <3>2, <3>3
  <2>4. CASE Head(inbox).type # "state" /\ UNCHANGED <<shutdown, sock, verbs, unasserted>>
    <3>1. Head(inbox) # StateEvent("connected")
      BY <2>4 DEF StateEvent
    <3>2. QED BY <1>same, <1>told, <2>1, <2>2, <2>4, <3>1
  <2>5. QED BY <1>8, <2>3, <2>4 DEF Handle, HandleFrame
<1>9. CASE SetFocus
  <2> DEFINE f == focused'
  <2>1. /\ ~shutdown /\ sock /\ Sent(PresenceVerb(f)) /\ f \in BOOLEAN /\ Asserted' = f
        /\ UNCHANGED <<pc, shutdown, sock, held, link, visible, sawFrame, inbox>>
    <3>1. /\ ~shutdown /\ sock /\ Assert(f) /\ f \in BOOLEAN
          /\ UNCHANGED <<pc, shutdown, sock, held, link, visible, sawFrame, inbox>>
      BY <1>9 DEF SetFocus, Presence
    <3>2. Asserted' = f
      BY <3>1 DEF Assert, Asserted
    <3>3. QED BY <3>1, <3>2 DEF Assert
  <2>2. CASE pc = "stopped"
    BY <2>1, <2>2 DEF Presence
  <2>3. CASE pc # "stopped"
    <3>1. PresenceVerb(f) \in VerbKind \ {"other"}
      BY DEF PresenceVerb, VerbKind
    <3>2. PICK v \in Verb : v.kind = PresenceVerb(f) /\ verbs' = Append(verbs, v)
      BY <1>sent, <2>1, <2>3, <3>1
    <3>3. Asserts(verbs', f) /\ ~Silent(verbs')
      BY <1>type, <2>1, <3>1, <3>2, AppendAsserts
    <3>4. QED BY <2>1, <3>3 DEF Presence
  <2>4. QED BY <2>2, <2>3
<1>other. ASSUME ~shutdown => sock, Sent("other"), Asserted' = Asserted,
                 UNCHANGED <<pc, shutdown, sock, held, link, visible, sawFrame, inbox>>
          PROVE  Presence'
  <2>1. CASE pc = "stopped" \/ shutdown
    BY <1>other, <2>1 DEF Presence
  <2>2. CASE pc # "stopped" /\ ~shutdown
    <3>1. PICK v \in Verb : v.kind = "other" /\ verbs' = Append(verbs, v)
      BY <1>sent, <1>other, <2>2 DEF VerbKind
    <3>2. (Silent(verbs') <=> Silent(verbs)) /\ (Asserts(verbs, Asserted) => Asserts(verbs', Asserted))
      BY <1>type, <3>1, AppendAsserts
    <3>3. Announced' = Announced
      BY <1>other DEF Announced
    <3>4. QED BY <1>other, <3>2, <3>3 DEF Presence
  <2>3. QED BY <2>1, <2>2
<1>10. CASE SendVerb
  <2>1. /\ ~shutdown /\ sock /\ Sent("other")
        /\ UNCHANGED <<pc, shutdown, sock, held, link, visible, sawFrame, inbox, focused, unasserted>>
    BY <1>10 DEF SendVerb, Presence
  <2>2. QED BY <2>1, <1>other, <1>told
<1>11. CASE Quit
  BY <1>11, <1>same, <1>told DEF Quit, Announced
<1>12. CASE LinkFault
  BY <1>12, <1>told DEF LinkFault, Presence
<1>13. CASE UNCHANGED vars
  BY <1>13, <1>same, <1>told DEF vars, Announced
<1>14. CASE CloseWindow
  <2>1. /\ focused /\ unasserted' = TRUE
        /\ UNCHANGED <<pc, shutdown, sock, held, link, visible, sawFrame, inbox>>
        /\ Sent("other") \/ UNCHANGED verbs
    BY <1>14 DEF CloseWindow
  <2>2. Asserted' = Asserted
    BY <2>1 DEF Asserted
  <2>3. ~shutdown => sock
    BY DEF Presence
  <2>4. CASE Sent("other")
    BY <1>other, <2>1, <2>2, <2>3, <2>4
  <2>5. CASE UNCHANGED verbs
    BY <1>same, <2>1, <2>2, <2>5 DEF Announced
  <2>6. QED BY <2>1, <2>4, <2>5
<1>15. QED
  BY <1>1, <1>2, <1>3, <1>4, <1>5, <1>6, <1>7, <1>8, <1>9, <1>10, <1>11, <1>12, <1>13, <1>14
  DEF Next, Task, Writer, App

(* Once everything queued on a working connection is delivered the server     *)
(* knows whether a window has the focus, whatever verbs and connections were  *)
(* lost before: each Connected asserts it anew, and so does each report of a  *)
(* window after that.  Only the focus of a window that was closed, which      *)
(* nothing asserts, is left standing until the next of these.                 *)
THEOREM PresenceIsKnown == Spec => []PresenceAgrees
<1>1. Init => Presence
  BY DEF Init, Presence, Silent, Asserts
<1>2. Presence => PresenceAgrees
  <2>1. Silent(<<>>) /\ (inbox = <<>> => ~Announced)
    BY DEF Silent, Announced
  <2>2. QED BY <2>1 DEF Presence, PresenceAgrees, Asserted
<1>3. QED BY <1>1, <1>2, PresenceStep, Typing, EventGrammar, PTL DEF Spec

-------------------------------------------------------------------------------
(* The writer's rate limit (Bucket), for every capacity, cost and length of *)
(* time.  The argument keeps two accounts: what was spent against the       *)
(* refill and the waits (Budget), and the server's level against the        *)
(* client's (Ahead).                                                        *)

(* Whatever was sent, or is about to be, was paid for by the full bucket,   *)
(* by the refill up to `last`, or by the waits, all of which end by `due`.  *)
Budget ==
  /\ spent + level + (IF holding THEN Cost ELSE 0) <= Capacity + last + due
  /\ IF holding THEN due <= last + Cost /\ last <= due ELSE due <= now

(* The client's bucket is never behind the server's. *)
Ahead == room <= IF holding THEN Cost + now - due ELSE Filled

Accounted == BucketTypes /\ Budget /\ Ahead

(* What a verb that is written leaves behind. *)
LEMMA WrittenTypes ==
  ASSUME BucketTypes, Written
  PROVE  /\ spent' \in Nat /\ overrun' \in BOOLEAN
         /\ room' \in 0..Capacity
         /\ spent' = spent + Cost
         /\ room' <= 0 \/ room' <= room - Cost
BY BucketAssumption DEF BucketTypes, Written

(* What is filled lies between nothing and a full bucket, and between the   *)
(* level kept and that level with all of the refill.                        *)
LEMMA FilledBounds ==
  ASSUME BucketTypes
  PROVE  Filled \in 0..Capacity /\ Filled <= level + (now - last)
BY BucketAssumption DEF BucketTypes, Filled, Least

(* A verb that is sent at once preserves the invariant. *)
LEMMA AtOnce ==
  ASSUME Accounted, Acquire, Filled >= Cost, holding' = holding
  PROVE  Accounted'
<1>1. /\ level' = Filled - Cost /\ last' = now /\ due' = due /\ now' = now
      /\ ~holding /\ Written
  BY BucketAssumption, FilledBounds DEF Acquire, Accounted, BucketTypes
<1>2. BucketTypes'
  BY <1>1, WrittenTypes, FilledBounds, BucketAssumption DEF Accounted, BucketTypes
<1>3. Budget'
  BY <1>1, WrittenTypes, FilledBounds, BucketAssumption DEF Accounted, BucketTypes, Budget
<1>4. Filled' = level'
  BY <1>1, <1>2, FilledBounds, BucketAssumption DEF BucketTypes, Filled, Least, Accounted
<1>5. Ahead'
  BY <1>1, <1>2, <1>4, WrittenTypes, FilledBounds, BucketAssumption DEF Accounted, BucketTypes, Ahead
<1>6. QED BY <1>2, <1>3, <1>5 DEF Accounted

(* A verb that has to wait preserves it. *)
LEMMA HeldBack ==
  ASSUME Accounted, Acquire, Filled < Cost
  PROVE  Accounted'
<1>1. /\ level' = 0 /\ last' = now /\ due' = now + (Cost - Filled) /\ now' = now
      /\ ~holding /\ holding' /\ spent' = spent /\ room' = room /\ overrun' = overrun
  BY BucketAssumption, FilledBounds DEF Acquire, Accounted, BucketTypes, server
<1>2. BucketTypes'
  BY <1>1, FilledBounds, BucketAssumption DEF Accounted, BucketTypes
<1>3. Budget'
  BY <1>1, FilledBounds, BucketAssumption DEF Accounted, BucketTypes, Budget
<1>4. Ahead'
  BY <1>1, FilledBounds, BucketAssumption DEF Accounted, BucketTypes, Ahead
<1>5. QED BY <1>2, <1>3, <1>4 DEF Accounted

(* The invariant is inductive. *)
LEMMA AccountedStep == Accounted /\ [BucketNext]_bucketVars => Accounted'
<1> SUFFICES ASSUME Accounted, [BucketNext]_bucketVars PROVE Accounted'
  OBVIOUS
<1>1. CASE Acquire
  <2>1. Filled >= Cost \/ Filled < Cost
    BY FilledBounds, BucketAssumption DEF Accounted
  <2>2. CASE Filled >= Cost
    <3>1. holding' = holding
      BY <1>1, <2>2, FilledBounds, BucketAssumption DEF Acquire, Accounted
    <3>2. QED BY <1>1, <2>2, <3>1, AtOnce
  <2>3. CASE Filled < Cost
    BY <1>1, <2>3, HeldBack
  <2>4. QED BY <2>1, <2>2, <2>3
<1>2. CASE Send
  <2>1. /\ holding /\ ~holding' /\ now >= due /\ Written
        /\ now' = now /\ level' = level /\ last' = last /\ due' = due
    BY <1>2 DEF Send, bucket
  <2>2. BucketTypes'
    <3>1. holding' \in BOOLEAN
      BY <1>2 DEF Send
    <3>2. spent' \in Nat /\ overrun' \in BOOLEAN /\ room' \in 0..Capacity
      BY <2>1, WrittenTypes DEF Accounted
    <3>3. QED BY <2>1, <3>1, <3>2 DEF Accounted, BucketTypes
  <2>3. Budget'
    BY <2>1, WrittenTypes, BucketAssumption DEF Accounted, BucketTypes, Budget
  <2>4. Filled' = Filled
    BY <2>1 DEF Filled
  <2>5. Ahead'
    BY <2>1, <2>2, <2>4, WrittenTypes, FilledBounds, BucketAssumption
    DEF Accounted, BucketTypes, Budget, Ahead, Filled, Least
  <2>6. QED BY <2>2, <2>3, <2>5 DEF Accounted
<1>3. CASE Tick
  <2>1. /\ now' = now + 1 /\ now' \in 0..MaxTime
        /\ level' = level /\ last' = last /\ holding' = holding /\ due' = due
        /\ spent' = spent /\ overrun' = overrun
        /\ room' = Least(room + 1, Capacity)
    BY <1>3, BucketAssumption DEF Tick, bucket, Accounted, BucketTypes
  <2>2. BucketTypes'
    BY <2>1, BucketAssumption DEF Accounted, BucketTypes, Least
  <2>3. Budget'
    BY <2>1, BucketAssumption DEF Accounted, BucketTypes, Budget
  <2>4. Ahead'
    BY <2>1, BucketAssumption DEF Accounted, BucketTypes, Ahead, Filled, Least
  <2>5. QED BY <2>2, <2>3, <2>4 DEF Accounted
<1>4. CASE UNCHANGED bucketVars
  BY <1>4 DEF bucketVars, bucket, server, Accounted, BucketTypes, Budget, Ahead, Filled
<1>5. QED BY <1>1, <1>2, <1>3, <1>4 DEF BucketNext

(* The invariant holds throughout. *)
THEOREM Accounts == BucketSpec => []Accounted
<1>1. BucketInit => Accounted
  <2> SUFFICES ASSUME BucketInit PROVE Accounted
    OBVIOUS
  <2>1. holding \in BOOLEAN /\ overrun \in BOOLEAN /\ ~holding
    BY DEF BucketInit
  <2>2. BucketTypes
    BY <2>1, BucketAssumption DEF BucketInit, BucketTypes
  <2>3. Budget /\ Ahead
    BY <2>1, BucketAssumption DEF BucketInit, Budget, Ahead, Filled, Least
  <2>4. QED BY <2>2, <2>3 DEF Accounted
<1>2. QED BY <1>1, AccountedStep, PTL DEF BucketSpec

(* Every variable has its type: no level is ever negative or above the      *)
(* capacity.                                                                *)
THEOREM BucketTyping == BucketSpec => []BucketTypes
BY Accounts, PTL DEF Accounted

(* The writer sends at most a full bucket and twice the refill. *)
THEOREM RateIsBounded == BucketSpec => []RateBound
<1>1. Accounted => RateBound
  BY BucketAssumption DEF Accounted, BucketTypes, Budget, RateBound
<1>2. QED BY <1>1, Accounts, PTL

(* The writer only waits when the server would not accept the verb yet. *)
THEOREM WaitsAreNeeded == BucketSpec => []NoNeedlessWait
<1>1. Accounted => NoNeedlessWait
  BY BucketAssumption DEF Accounted, BucketTypes, Ahead, NoNeedlessWait
<1>2. QED BY <1>1, Accounts, PTL

===============================================================================
