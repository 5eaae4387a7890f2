-------------------------------- MODULE Account --------------------------------
(***************************************************************************)
(* The settings and the networks of the account (scully app.rs, settings.rs,  *)
(* networkdialog.rs, lurker-client rest.rs): values written at once and        *)
(* confirmed by a reply, replies that replace the whole map, the frame that    *)
(* tells of other devices, the settings window, and the roster.                *)
(*                                                                          *)
(* Every REST call is a task of its own: the server takes the calls in any     *)
(* order, and their replies arrive in any order, also among the frames of the  *)
(* socket.  A call may fail before the server has seen it or after.            *)
(***************************************************************************)
EXTENDS Naturals, FiniteSets, Sequences

CONSTANTS
  Tier,       \* the key chat.events, in a category of its own
  Fold,       \* the key chat.consolidate_joins
  Nets,       \* networks
  MaxCalls,   \* bound: REST calls under way
  MaxMoves    \* bound: what the user, other devices and faults do, all together

ASSUME AccountAssumption ==
  /\ Tier # Fold /\ Nets \cap {Tier, Fold} = {}
  /\ IsFiniteSet(Nets)
  /\ MaxCalls \in Nat \ {0} /\ MaxMoves \in Nat

VARIABLES
  (* the server *)
  srv,      \* stored values
  nets,     \* networks of the account
  (* the application *)
  values,   \* settings_values
  registry, \* whether the registry has been fetched
  unit,     \* event_mode and consolidate, which the page unit is made of
  listed,   \* networks in the store
  form,     \* the network dialog
  pane,     \* the settings window
  (* between them *)
  calls,    \* REST calls under way
  frames,   \* settings frames on their way
  linked,   \* whether the socket is up
  (* history, for the properties *)
  late,     \* keys and networks on which the two differ for a named reason
  moves

server == <<srv, nets>>
settings == <<values, registry, unit>>
windows == <<form, pane>>
wire == <<calls, frames, linked>>
accountVars == <<server, settings, listed, windows, wire, late, moves>>

Keys == {Tier, Fold}
Unset == "unset"
Value == {"on", "off"}
Values == [Keys -> Value \cup {Unset}]

\* The registry's defaults; "on" is what the application assumes without it.
Default == [k \in Keys |-> IF k = Tier THEN "off" ELSE "on"]

Move == moves < MaxMoves /\ moves' = moves + 1

--------------------------------------------------------------------------------
(* Settings *)

\* App::setting, "unset" for null
EffectiveIn(map, known, k) ==
  IF map[k] # Unset THEN map[k] ELSE IF known THEN Default[k] ELSE Unset

Effective(k) == EffectiveIn(values, registry, k)

\* mutant: the fold is read before the reply is in
UnitOfOld(map, known, old) ==
  [Tier |-> IF EffectiveIn(map, known, Tier) = "off" THEN "off" ELSE "on", Fold |-> old.Fold]

\* apply_settings: the tier falls back to all rows, the fold to what it was.
UnitOf(map, known, old) ==
  [Tier |-> IF EffectiveIn(map, known, Tier) = "off" THEN "off" ELSE "on",
   Fold |-> IF EffectiveIn(map, known, Fold) = Unset THEN old.Fold
            ELSE EffectiveIn(map, known, Fold)]

Take(map, known) ==
  /\ values' = map /\ registry' = known
  /\ unit' = UnitOf(map, known, unit)

--------------------------------------------------------------------------------
(* Calls *)

Call == [op : {"boot", "patch", "reset", "roster", "create", "update", "delete"},
         of : Keys \cup Nets \cup {"all"}, value : Value \cup {Unset},
         state : {"sent", "done", "refused", "failed"},
         map : Values, nets : SUBSET Nets]

NoCall == [op |-> "none"]
Slots == 1..MaxCalls
UnderWay == {i \in Slots : calls[i] # NoCall}
Free == Slots \ UnderWay

Request(op, of, value) ==
  [op |-> op, of |-> of, value |-> value, state |-> "sent",
   map |-> [k \in Keys |-> Unset], nets |-> {}]

Put(cs, call) ==
  LET i == CHOOSE i \in Slots : cs[i] = NoCall IN [cs EXCEPT ![i] = call]

\* The server's side of a call that it accepts
Accept(c) ==
  /\ srv' = CASE c.op = "patch" -> [srv EXCEPT ![c.of] = c.value]
              [] c.op = "reset" -> [srv EXCEPT ![c.of] = Unset]
              [] OTHER -> srv
  /\ nets' = CASE c.op = "create" -> nets \cup {c.of}
               [] c.op = "delete" -> nets \ {c.of}
               [] OTHER -> nets

\* It refuses a value, or to delete a network that it does not have.
Refusable(c) ==
  \/ c.op \in {"patch", "create", "update"}
  \/ c.op = "delete" /\ c.of \notin nets

Serve(i) ==
  LET c == calls[i] IN
  /\ c # NoCall /\ c.state = "sent"
  /\ c.op = "delete" => c.of \in nets
  /\ c.op = "create" => c.of \notin nets
  /\ Accept(c)
  /\ calls' = [calls EXCEPT ![i] = [c EXCEPT !.state = "done", !.map = srv', !.nets = nets']]
  /\ UNCHANGED <<settings, listed, windows, frames, linked, late, moves>>

Refuse(i) ==
  /\ calls[i] # NoCall /\ calls[i].state = "sent" /\ Refusable(calls[i])
  /\ calls' = [calls EXCEPT ![i].state = "refused"]
  /\ UNCHANGED <<server, settings, listed, windows, frames, linked, late, moves>>

\* Lost before or after the server has seen it; the application cannot tell.
Lose(i) ==
  /\ calls[i] # NoCall /\ calls[i].state \in {"sent", "done"}
  /\ calls' = [calls EXCEPT ![i].state = "failed"]
  /\ Move
  /\ UNCHANGED <<server, settings, listed, windows, frames, linked, late>>

--------------------------------------------------------------------------------
(* Replies *)

\* What of the server's state the application does not have
Differs(map) == {k \in Keys : map[k] # srv[k]}

Answered(i, ok) ==
  /\ calls[i] # NoCall
  /\ IF ok THEN calls[i].state = "done" ELSE calls[i].state \in {"refused", "failed"}

\* A reply brings the whole map, as it was when the server answered.
MapReply(i) ==
  LET c == calls[i] IN
  /\ Answered(i, TRUE) /\ c.op \in {"boot", "patch", "reset"}
  /\ Take(c.map, registry \/ c.op = "boot")
  /\ calls' = [calls EXCEPT ![i] = NoCall]
  /\ late' = (late \ Keys) \cup Differs(c.map)
  /\ UNCHANGED <<server, listed, form, pane, frames, linked, moves>>

\* mutant: the value that was refused stays
PatchFailsQuietly(i) ==
  /\ Answered(i, FALSE) /\ calls[i].op = "patch"
  /\ calls' = [calls EXCEPT ![i] = NoCall]
  /\ UNCHANGED <<server, settings, listed, windows, frames, linked, late, moves>>

\* mutant: the write is tried again
PatchFailsRetried(i) ==
  /\ Answered(i, FALSE) /\ calls[i].op = "patch"
  /\ calls' = Put([calls EXCEPT ![i] = NoCall], Request("patch", calls[i].of, calls[i].value))
  /\ UNCHANGED <<server, settings, listed, windows, frames, linked, late, moves>>

\* A write that failed is not taken back; the settings are fetched again.
PatchFails(i) ==
  /\ Answered(i, FALSE) /\ calls[i].op = "patch"
  /\ calls' = Put([calls EXCEPT ![i] = NoCall], Request("boot", "all", Unset))
  /\ UNCHANGED <<server, settings, listed, windows, frames, linked, late, moves>>

\* Nothing comes of a fetch or a reset that failed.
MapFails(i) ==
  /\ Answered(i, FALSE) /\ calls[i].op \in {"boot", "reset"}
  /\ calls' = [calls EXCEPT ![i] = NoCall]
  /\ late' = late \cup Differs(values)
  /\ UNCHANGED <<server, settings, listed, windows, frames, linked, moves>>

\* set_network_roster adds what it names and removes nothing.
RosterReply(i) ==
  LET c == calls[i] IN
  /\ Answered(i, TRUE) /\ c.op = "roster"
  /\ listed' = listed \cup c.nets
  /\ calls' = [calls EXCEPT ![i] = NoCall]
  /\ late' = late \cup (c.nets \ nets)
  /\ UNCHANGED <<server, settings, windows, frames, linked, moves>>

\* A network created or edited: the roster is read again, the dialog closes.
SaveReply(i) ==
  /\ Answered(i, TRUE) /\ calls[i].op \in {"create", "update"}
  /\ form' = "closed"
  /\ calls' = Put([calls EXCEPT ![i] = NoCall], Request("roster", "all", Unset))
  /\ UNCHANGED <<server, settings, listed, pane, frames, linked, late, moves>>

DeleteReply(i) ==
  LET n == calls[i].of IN
  /\ Answered(i, TRUE) /\ calls[i].op = "delete"
  /\ listed' = listed \ {n}
  /\ calls' = [calls EXCEPT ![i] = NoCall]
  /\ late' = late \ {n}
  /\ UNCHANGED <<server, settings, windows, frames, linked, moves>>

\* The dialog that waits can be sent again; a network already gone stays listed.
NetworkFails(i) ==
  LET c == calls[i] IN
  /\ Answered(i, FALSE) /\ c.op \in {"roster", "create", "update", "delete"}
  /\ form' = IF c.op \in {"create", "update"} /\ form = "busy" THEN "open" ELSE form
  /\ calls' = [calls EXCEPT ![i] = NoCall]
  /\ late' = late \cup CASE c.op = "roster" -> nets \ listed
                         [] c.op \in {"create", "delete"} -> {c.of}
                         [] OTHER -> {}
  /\ UNCHANGED <<server, settings, listed, pane, frames, linked, moves>>

--------------------------------------------------------------------------------
(* The settings window: one category for each key *)

Closed == [open |-> FALSE, category |-> Tier, painted |-> Tier, control |-> Unset, timers |-> {}]

\* populate
Paint(p, k) == [p EXCEPT !.painted = k, !.control = Effective(k)]

\* The categories come from the registry.
OpenPane ==
  /\ ~pane.open /\ registry
  /\ pane' = [Paint(pane, Tier) EXCEPT !.open = TRUE, !.category = Tier]
  /\ Move
  /\ UNCHANGED <<server, settings, listed, form, wire, late>>

ChooseCategory(k) ==
  /\ pane.open /\ pane.category # k
  /\ pane' = [Paint(pane, k) EXCEPT !.category = k]
  /\ Move
  /\ UNCHANGED <<server, settings, listed, form, wire, late>>

ClosePane ==
  /\ pane.open
  /\ pane' = [Closed EXCEPT !.timers = pane.timers]
  /\ UNCHANGED <<server, settings, listed, form, wire, late, moves>>

\* set_setting: at once in the map, then the call
SetSetting(v) ==
  LET k == pane.painted IN
  /\ pane.open /\ pane.control # v /\ Free # {}
  /\ Take([values EXCEPT ![k] = v], registry)
  /\ pane' = [pane EXCEPT !.control = v]
  /\ calls' = Put(calls, Request("patch", k, v))
  /\ Move
  /\ UNCHANGED <<server, listed, form, frames, linked, late>>

\* reset_setting: nothing changes until the reply; the pane is painted again
\* when a timer of its own fires.
ResetSetting ==
  LET k == pane.painted IN
  /\ pane.open /\ Free # {}
  /\ calls' = Put(calls, Request("reset", k, Unset))
  /\ pane' = [pane EXCEPT !.timers = @ \cup {k}]
  /\ Move
  /\ UNCHANGED <<server, settings, listed, form, frames, linked, late>>

TimerFires(k) ==
  LET fired == [pane EXCEPT !.timers = @ \ {k}] IN
  /\ k \in pane.timers
  /\ pane' = IF pane.open THEN Paint(fired, k) ELSE fired
  /\ UNCHANGED <<server, settings, listed, form, wire, late, moves>>

--------------------------------------------------------------------------------
(* Networks *)

OpenForm ==
  /\ form = "closed"
  /\ form' = "open"
  /\ UNCHANGED <<server, settings, listed, pane, wire, late, moves>>

CloseForm ==
  /\ form # "closed"
  /\ form' = "closed"
  /\ UNCHANGED <<server, settings, listed, pane, wire, late, moves>>

\* The button is off while the call is under way; Enter is not.
Save(op, n) ==
  /\ form \in {"open", "busy"} /\ Free # {}
  /\ IF op = "create" THEN /\ n \notin nets \cup listed
                           /\ \A i \in UnderWay : calls[i].of # n
     ELSE n \in listed \cap nets
  /\ form' = "busy"
  /\ calls' = Put(calls, Request(op, n, Unset))
  /\ Move
  /\ UNCHANGED <<server, settings, listed, pane, frames, linked, late>>

DeleteNetwork(n) ==
  /\ n \in listed /\ Free # {}
  /\ calls' = Put(calls, Request("delete", n, Unset))
  /\ Move
  /\ UNCHANGED <<server, settings, listed, windows, frames, linked, late>>

--------------------------------------------------------------------------------
(* Other devices and the socket *)

\* A setting changed elsewhere comes as a frame, if the socket is up.
ChangedElsewhere(k, v) ==
  /\ srv[k] # v
  /\ srv' = [srv EXCEPT ![k] = v]
  /\ IF linked THEN frames' = Append(frames, <<k, v>>) /\ UNCHANGED late
     ELSE late' = late \cup {k} /\ UNCHANGED frames
  /\ Move
  /\ UNCHANGED <<nets, settings, listed, windows, calls, linked>>

\* No frame tells of a network deleted elsewhere.
DeletedElsewhere(n) ==
  /\ n \in nets
  /\ nets' = nets \ {n}
  /\ late' = late \cup {n}
  /\ Move
  /\ UNCHANGED <<srv, settings, listed, windows, wire>>

SettingsFrame ==
  LET k == Head(frames)[1]
      v == Head(frames)[2]
      more == \E j \in 2..Len(frames) : frames[j][1] = k
  IN
  /\ frames # <<>>
  /\ Take([values EXCEPT ![k] = v], registry)
  /\ frames' = Tail(frames)
  /\ late' = IF more THEN late ELSE IF v = srv[k] THEN late \ {k} ELSE late \cup {k}
  /\ UNCHANGED <<server, listed, windows, calls, linked, moves>>

SocketLost ==
  /\ linked
  /\ linked' = FALSE /\ frames' = <<>>
  /\ late' = late \cup {frames[j][1] : j \in DOMAIN frames}
  /\ Move
  /\ UNCHANGED <<server, settings, listed, windows, calls>>

\* The snapshot of a new connection adds networks; settings are not read again.
SocketBack ==
  /\ ~linked
  /\ linked' = TRUE
  /\ listed' = listed \cup nets
  /\ UNCHANGED <<server, settings, windows, calls, frames, late, moves>>

--------------------------------------------------------------------------------
\* start_session has read the roster and asked for the settings.
\* A session just started fetches the settings first.
AccountInit(started) ==
  /\ srv \in Values
  /\ nets \in SUBSET Nets /\ listed = nets
  /\ values = [k \in Keys |-> Unset] /\ registry = FALSE
  /\ unit = [Tier |-> "on", Fold |-> "on"]
  /\ form = "closed" /\ pane = Closed
  /\ calls = [i \in Slots |-> IF started /\ i = 1 THEN Request("boot", "all", Unset) ELSE NoCall]
  /\ frames = <<>> /\ linked = TRUE
  /\ late = {} /\ moves = 0

Answer(i) ==
  \/ Serve(i) \/ Refuse(i)
  \/ MapReply(i) \/ PatchFails(i) \/ MapFails(i)
  \/ RosterReply(i) \/ SaveReply(i) \/ DeleteReply(i) \/ NetworkFails(i)

User ==
  \/ OpenPane \/ ClosePane \/ ResetSetting \/ OpenForm \/ CloseForm
  \/ \E k \in Keys : ChooseCategory(k)
  \/ \E v \in Value : SetSetting(v)
  \/ \E n \in Nets : DeleteNetwork(n) \/ \E op \in {"create", "update"} : Save(op, n)

AccountNext ==
  \/ User \/ SettingsFrame \/ SocketLost \/ SocketBack
  \/ \E i \in Slots : Answer(i) \/ Lose(i)
  \/ \E k \in Keys : TimerFires(k) \/ \E v \in Value : ChangedElsewhere(k, v)
  \/ \E n \in Nets : DeletedElsewhere(n)

\* Every call gets an answer, if only that it failed; frames are read.
AccountFairness ==
  /\ \A i \in Slots : WF_accountVars(Answer(i))
  /\ WF_accountVars(SettingsFrame)

--------------------------------------------------------------------------------
(* Properties *)

\* Types.
TypeOK ==
  /\ srv \in Values /\ values \in Values /\ registry \in BOOLEAN
  /\ nets \subseteq Nets /\ listed \subseteq Nets
  /\ unit \in [{"Tier", "Fold"} -> Value]
  /\ form \in {"closed", "open", "busy"}
  /\ pane \in [open : BOOLEAN, category : Keys, painted : Keys,
               control : Value \cup {Unset}, timers : SUBSET Keys]
  /\ \A i \in Slots : calls[i] \in Call \cup {NoCall}
  /\ frames \in Seq(Keys \X Value) /\ linked \in BOOLEAN
  /\ late \subseteq Keys \cup Nets /\ moves \in 0..MaxMoves

\* When nothing is under way the settings are the server's, and so are the
\* networks.  Not so for what another device changed while this one was not
\* connected, for what an older reply or frame overwrote, and after a fetch or
\* a deletion that failed (app.rs:383: "so the optimistic write can't stick").
SettledAgrees ==
  UnderWay = {} /\ frames = <<>> =>
    /\ \A k \in Keys \ late : registry => values[k] = srv[k]
    /\ listed \ late = nets \ late

\* The unit that pages are requested and rendered in follows the settings,
\* whichever reply, write or frame brought them (app.rs:334-336).
UnitFollows ==
  TypeOK /\
  LET tier == Effective(Tier)
      fold == Effective(Fold)
  IN /\ unit.Tier = IF tier = Unset THEN "on" ELSE tier
     /\ fold = Unset \/ unit.Fold = fold

\* Once the user and the other devices stop, every call is answered and the
\* settings settle.
Settles == <>[](UnderWay = {} /\ frames = <<>>)
================================================================================
