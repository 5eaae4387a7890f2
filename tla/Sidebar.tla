---------------------------------- MODULE Sidebar ----------------------------------
(***************************************************************************)
(* The list of conversations (scully window.rs rebuild_buffer_list and          *)
(* on_store_events; favorites, contacts, pins and presence of lurker-client      *)
(* store.rs): which section a conversation is under, what its row says, and    *)
(* which of the store's signals have the list made again.                     *)
(*                                                                          *)
(* One network, with its log, a channel, and a conversation with a peer.  The   *)
(* order of rows is left out: sections and rows are sets.                      *)
(***************************************************************************)
EXTENDS Naturals, FiniteSets

CONSTANT MaxMoves  \* bound: frames, and what the user does

ASSUME SidebarAssumption == MaxMoves \in Nat

VARIABLES
  store,    \* what the list is made from
  active,   \* the conversation that the window shows
  folded,   \* collapsed
  shown,    \* the list
  moves

sidebarVars == <<store, active, folded, shown, moves>>

Log == "log"
Channel == "channel"
Peer == "peer"
Keys == {Log, Channel, Peer}
None == "none"
Presences == {"unknown", "online", "away", "offline"}
Titles == {"FRIENDS", "FAVORITES", "PINNED", "DIRECT MESSAGES", "NETWORK"}

--------------------------------------------------------------------------------
(* rebuild_buffer_list *)

\* On a network that is down everybody is offline, whatever came last.
PresenceOf(s) == IF s.up THEN s.presence ELSE "offline"

\* A friend is a favourite conversation or, to an older server, a contact.
Friends(s) ==
  IF s.seeded THEN s.favorites \cap {Peer} ELSE IF s.contact THEN {Peer} ELSE {}

\* mutant: a friend's conversation is one of the direct messages too
UnderFriendsToo(s, title) ==
  CASE title = "FRIENDS" -> Friends(s)
    [] title = "FAVORITES" -> IF s.seeded THEN s.favorites \cap {Channel} ELSE {}
    [] title = "PINNED" -> (s.held \cap s.pinned) \ s.favorites
    [] title = "DIRECT MESSAGES" -> {k \in (s.held \cap {Peer}) \ s.pinned : k \notin s.favorites}
    [] OTHER -> ((s.held \ {Peer}) \ s.pinned) \ s.favorites

Under(s, title) ==
  CASE title = "FRIENDS" -> Friends(s)
    [] title = "FAVORITES" -> IF s.seeded THEN s.favorites \cap {Channel} ELSE {}
    [] title = "PINNED" -> (s.held \cap s.pinned) \ s.favorites
    [] title = "DIRECT MESSAGES" ->
         {k \in (s.held \cap {Peer}) \ s.pinned : k \notin s.favorites /\ ~s.contact}
    [] OTHER -> ((s.held \ {Peer}) \ s.pinned) \ s.favorites

UnreadOf(s, k) == IF k \in s.held THEN s.unread[k] ELSE 0

\* A row, with the decorations that tell its state
RowOf(s, title, k) ==
  [title |-> title, key |-> k, unread |-> UnreadOf(s, k),
   dot |-> IF title = "FRIENDS" THEN PresenceOf(s) ELSE None,
   parted |-> k = Channel /\ k \in s.held /\ ~s.joined]

\* A section's header: its dot, and what a folded one says of its rows
HeadOf(s, fold, title) ==
  [title |-> title, folded |-> title \in fold,
   unread |-> IF title \in fold THEN {k \in Under(s, title) : UnreadOf(s, k) > 0} ELSE {},
   dot |-> CASE title = "FRIENDS" ->
                  IF PresenceOf(s) \in {"online", "away"} THEN PresenceOf(s) ELSE "offline"
             [] title = "NETWORK" -> IF s.up THEN "online" ELSE "offline"
             [] OTHER -> None]

\* The network has its section even when nothing is in it.
Listed(s) == {t \in Titles : Under(s, t) # {} \/ t = "NETWORK"}

\* The active conversation's row is selected, if it has one; folded away it has none.
Selected(rows, act) == {k \in {act} : \E r \in rows : r.key = k}

List(s, fold, act) ==
  LET rows == UNION {{RowOf(s, t, k) : k \in Under(s, t)} : t \in Listed(s) \ fold}
  IN [heads |-> {HeadOf(s, fold, t) : t \in Listed(s)}, rows |-> rows,
      selected |-> Selected(rows, act)]

--------------------------------------------------------------------------------
(* on_store_events *)

\* The signals that have the list made again: all of these, but for a change in
\* the conversation that is shown
Relists(event, key) == event # "changed" \/ key # active

Move == moves < MaxMoves /\ moves' = moves + 1

\* What a frame leaves, and its signals
Becomes(s, events) ==
  /\ Move /\ store' = s /\ UNCHANGED <<active, folded>>
  /\ shown' = IF \E e \in events : Relists(e[1], e[2]) THEN List(s, folded, active) ELSE shown

--------------------------------------------------------------------------------
(* store.rs *)

\* snapshot: the network's state, pins, who is reachable, and the channel if the
\* user is in it; if not, nothing says so.
NetworkSnapshot ==
  \E up, described \in BOOLEAN, pins \in SUBSET {Channel, Peer}, p \in Presences :
    Becomes([store EXCEPT !.up = up, !.pins = pins, !.pinned = pins \cap store.held, !.presence = p,
                          !.described = @ \/ described,
                          !.joined = @ \/ (described /\ Channel \in store.held)],
            {<<"network", None>>})

State ==
  Becomes([store EXCEPT !.up = ~@], {<<"network", None>>})

PeerPresence ==
  \E p \in Presences \ {"unknown"} :
    /\ p # PresenceOf(store)
    /\ Becomes([store EXCEPT !.presence = p], {<<"presence", None>>})

\* The server unpins what becomes a favourite, in a frame of its own.
PinsChanged ==
  \E pins \in SUBSET {Channel, Peer} :
    Becomes([store EXCEPT !.pins = pins, !.pinned = pins \cap store.held], {<<"list", None>>})

FavoritesChanged ==
  \E favorites \in SUBSET {Channel, Peer} :
    Becomes([store EXCEPT !.favorites = favorites, !.seeded = TRUE], {<<"favorites", None>>})

\* contacts-snapshot, contact-updated, contact-deleted: only an older server's
ContactsChanged ==
  /\ ~store.seeded
  /\ Becomes([store EXCEPT !.contact = ~@], {<<"contacts", None>>})

\* A conversation comes with the pin that the network's list has for it, and a
\* channel as joined if the snapshot had described it.
Touched(s, k) ==
  [s EXCEPT !.held = @ \cup {k}, !.pinned = IF k \in s.pins THEN @ \cup {k} ELSE @,
            !.unread[k] = IF k \in s.held THEN @ ELSE 0,
            !.joined = IF k = Channel /\ k \notin s.held THEN s.described ELSE @]

\* The shell of a conversation just opened, or its part of a connect burst
Backlog(k) ==
  \E joined \in BOOLEAN :
    Becomes([Touched(store, k) EXCEPT !.joined = IF k = Channel THEN joined ELSE @],
            {<<"changed", k>>, <<"read", k>>})

BufferClosed(k) ==
  /\ k \in store.held
  /\ Becomes([store EXCEPT !.held = @ \ {k}, !.pinned = @ \ {k}], {<<"list", None>>})

\* A row: the conversation is there from then on.
Irc(k) ==
  Becomes(Touched(store, k),
          {<<"changed", k>>} \cup (IF k \in store.held THEN {} ELSE {<<"list", None>>}))

ChannelJoined ==
  Becomes([Touched(store, Channel) EXCEPT !.joined = TRUE], {<<"list", None>>, <<"changed", Channel>>})

ChannelParted ==
  /\ Channel \in store.held /\ store.joined
  /\ Becomes([store EXCEPT !.joined = FALSE], {<<"changed", Channel>>})

ReadState(k) ==
  /\ k \in store.held
  /\ Becomes([store EXCEPT !.unread[k] = 1 - @], {<<"read", k>>})

--------------------------------------------------------------------------------
(* The user *)

\* activate; a friend's row may stand for a conversation that is not open.
Activate(k) ==
  /\ active # k
  /\ \E r \in shown.rows : r.key = k
  /\ active' = k /\ shown' = List(store, folded, k)
  /\ Move /\ UNCHANGED <<store, folded>>

\* A header is clicked; the list is made again in the next turn of the loop.
Fold(title) ==
  /\ \E h \in shown.heads : h.title = title
  /\ \E fold \in {IF title \in folded THEN folded \ {title} ELSE folded \cup {title}} :
       folded' = fold /\ shown' = List(store, fold, active)
  /\ Move /\ UNCHANGED <<store, active>>

SidebarInit ==
  /\ store \in [held : {{Log, Channel, Peer}}, pins : {{}}, pinned : {{}}, seeded : {FALSE},
                favorites : {{}}, contact : BOOLEAN, up : {TRUE}, presence : {"unknown"},
                joined : {TRUE}, described : {FALSE}, unread : {[k \in Keys |-> 0]}]
  /\ active \in {Channel, Peer} /\ folded = {} /\ shown = List(store, folded, active) /\ moves = 0

SidebarNext ==
  \/ NetworkSnapshot \/ State \/ PeerPresence \/ PinsChanged \/ FavoritesChanged \/ ContactsChanged
  \/ ChannelJoined \/ ChannelParted
  \/ \E k \in Keys : Backlog(k) \/ BufferClosed(k) \/ Irc(k) \/ ReadState(k) \/ Activate(k)
  \/ \E title \in Titles : Fold(title)

--------------------------------------------------------------------------------
(* Properties *)

\* Every signal that matters has the list made again: it is what it would be if
\* it were made now, but for one thing, the channel that is shown and was left.
UpToDate ==
  LET now == List(store, folded, active)
      Plain(rows) == {[r EXCEPT !.parted = IF active = Channel THEN FALSE ELSE @] : r \in rows}
  IN /\ shown.heads = now.heads /\ shown.selected = now.selected
     /\ Plain(shown.rows) = Plain(now.rows)

\* And each conversation is in one section of it ("or the same conversation
\* appears twice under two names", window.rs:2187; "must not double-place a
\* buffer while frames race", :2163), but for a contact's: pinned, it is in two,
\* and in none after the server has come to know favourites.
SidebarAgrees ==
  /\ UpToDate
  /\ \A k \in store.held :
       \/ Cardinality({t \in Titles : k \in Under(store, t)}) = 1
       \/ k = Peer /\ store.contact /\ (k \in store.pinned \/ store.seeded)
================================================================================
