----------------------------------- MODULE Panes -----------------------------------
(***************************************************************************)
(* Which panes of a full window are to be seen (scully window.rs): the list of  *)
(* conversations, the conversation, its members.  A wide window has what the     *)
(* settings say; in a narrow one the three take turns, and the tools, which      *)
(* are beside the list otherwise, come along with the conversation.             *)
(*                                                                          *)
(* The width is read whenever the layout is made; that it changed is noticed at  *)
(* the next frame.                                                           *)
(***************************************************************************)
EXTENDS Naturals

VARIABLES
  width,     \* "wide" or "narrow", as allocated
  resized,   \* the next frame makes the layout again
  pane,      \* the layout: flags, panes to be seen, where the tools are
  reading,   \* what kind of conversation is active, if any
  wanted,    \* the settings: show_channel_list, show_member_list
  unsettled  \* ghost: the settings came while the window was narrow, and no layout since

panesVars == <<width, resized, pane, reading, wanted, unsettled>>

Places == {"list", "conversation", "members"}
Wishes == {"unset", "yes", "no"}

--------------------------------------------------------------------------------
(* A pane is put into view, or out of it *)
Put(panes, which, seen) == IF seen THEN panes \cup {which} ELSE panes \ {which}

\* mutant: the members are put beside the conversation whatever the width
MemberColumnAlways(p, kind, settings) ==
  [p EXCEPT !.seen = Put(@, "members", kind = "channel" /\ settings.members # "no")]

\* update_member_pane: for channels, and not in a narrow window
MemberColumn(p, kind, settings) ==
  IF p.narrow THEN p
  ELSE [p EXCEPT !.seen = Put(@, "members", kind = "channel" /\ settings.members # "no")]

\* apply_display_settings: a list that no setting mentions stays as it is.
Settled(p, kind, settings) ==
  MemberColumn(IF settings.list = "unset" THEN p
               ELSE [p EXCEPT !.seen = Put(@, "list", settings.list = "yes")], kind, settings)

\* The one pane that a narrow window shows
Turn(p) == IF p.list THEN "list" ELSE IF p.members THEN "members" ELSE "conversation"

\* apply_narrow_layout
Layout(p, kind, settings, wide) ==
  LET entered == [p EXCEPT !.list = IF p.narrow THEN @ ELSE kind = "none",
                           !.members = p.narrow /\ @, !.narrow = TRUE, !.tools = "conversation"]
      left == [p EXCEPT !.narrow = FALSE, !.tools = "list", !.back = FALSE]
  IN IF ~wide THEN [entered EXCEPT !.seen = {Turn(entered)}, !.back = ~entered.list]
     ELSE IF p.narrow THEN Settled(left, kind, settings) ELSE p

Laid(p, kind) ==
  /\ pane' = Layout(p, kind, wanted, width = "wide")
  /\ unsettled' = FALSE

--------------------------------------------------------------------------------
\* The user, or what arranges the windows, drags the edge.
Resize(w) ==
  /\ width' = w /\ resized' = TRUE
  /\ UNCHANGED <<pane, reading, wanted, unsettled>>

\* add_tick_callback
Tick ==
  /\ resized /\ resized' = FALSE
  /\ Laid(pane, reading)
  /\ UNCHANGED <<width, reading, wanted>>

SettingsChanged(settings) ==
  /\ settings # wanted
  /\ wanted' = settings
  /\ pane' = Settled(pane, reading, settings)
  /\ unsettled' = pane.narrow
  /\ UNCHANGED <<width, resized, reading>>

\* activate, from the list, a notification or a shortcut: narrow_show_conversation
Pick(kind) ==
  /\ reading' = kind
  /\ \E p \in {MemberColumn(pane, kind, wanted)} :
       IF p.narrow THEN Laid([p EXCEPT !.list = FALSE, !.members = FALSE], kind)
       ELSE pane' = p /\ UNCHANGED unsettled
  /\ UNCHANGED <<width, resized, wanted>>

\* narrow_show_list: a button, or Escape
Back ==
  /\ pane.narrow /\ ~pane.list
  /\ Laid(IF pane.members THEN [pane EXCEPT !.members = FALSE] ELSE [pane EXCEPT !.list = TRUE], reading)
  /\ UNCHANGED <<width, resized, reading, wanted>>

ToggleMembers ==
  /\ pane.narrow /\ ~pane.list
  /\ Laid([pane EXCEPT !.members = ~@], reading)
  /\ UNCHANGED <<width, resized, reading, wanted>>

PanesInit ==
  /\ width = "wide" /\ resized = TRUE /\ reading = "none" /\ unsettled = FALSE
  /\ wanted = [list |-> "unset", members |-> "unset"]
  /\ pane = [narrow |-> FALSE, list |-> TRUE, members |-> FALSE, back |-> FALSE, tools |-> "list",
             seen |-> {"list", "conversation"}]

PanesNext ==
  \/ \E w \in {"wide", "narrow"} : Resize(w)
  \/ Tick
  \/ \E settings \in [list : Wishes, members : Wishes] : SettingsChanged(settings)
  \/ \E kind \in {"channel", "dm"} : Pick(kind)
  \/ Back \/ ToggleMembers

--------------------------------------------------------------------------------
(* Properties *)

\* The panes that are shown are those of the width and of the place that the user
\* went to, however resizing, settings and navigation meet.  Narrow, there is one
\* ("Narrow mode owns the panes outright", window.rs:1947), with the way back and
\* the tools in it; the settings may put the list beside it, or take the list
\* away, until the layout is made again.  Wide, the columns are what the settings
\* say.
PanesAgree ==
  /\ ~(pane.list /\ pane.members)
  /\ pane.narrow =>
       /\ pane.tools = "conversation" /\ pane.back = ~pane.list
       /\ IF unsettled THEN pane.seen \cup {"list"} = {Turn(pane), "list"}
                       ELSE pane.seen = {Turn(pane)}
  /\ ~pane.narrow =>
       /\ pane.tools = "list" /\ ~pane.back
       /\ "members" \in pane.seen <=> reading = "channel" /\ wanted.members # "no"
       /\ wanted.list # "unset" => ("list" \in pane.seen <=> wanted.list = "yes")

\* Nothing but the narrow layout ever shows or hides the conversation: one out of
\* view when the window grows stays so, though the pane that replaced it goes away
\* ("restore whatever the settings say about the panes", window.rs:1751).
WideShowsConversation == pane.narrow \/ "conversation" \in pane.seen
================================================================================
