---------------------------- MODULE ScreenProofs ----------------------------
(***************************************************************************)
(* What holds of the parts of a window in every state, however many people,     *)
(* networks, words and frames there are: the panes, the list of channels and    *)
(* the search window, the list of conversations, completion, and what a mode    *)
(* command does.                                                             *)
(***************************************************************************)
EXTENDS Screen, FiniteSetTheorems, SequenceTheorems, WellFoundedInduction, TLAPS

(* The panes, with the types of what they are made from *)
PanesInv ==
  /\ pane \in [narrow : BOOLEAN, list : BOOLEAN, members : BOOLEAN, back : BOOLEAN,
               tools : {"list", "conversation"}, seen : SUBSET Places]
  /\ reading \in {"none", "channel", "dm"} /\ wanted \in [list : Wishes, members : Wishes]
  /\ unsettled \in BOOLEAN
  /\ PanesAgree


--------------------------------------------------------------------------------
(* A step of the panes keeps what is to be seen of them. *)
LEMMA PanesStep == PanesInv /\ PanesNext => PanesInv'
<1> SUFFICES ASSUME PanesInv, PanesNext PROVE PanesInv'
  OBVIOUS
<1> DEFINE P == [narrow : BOOLEAN, list : BOOLEAN, members : BOOLEAN, back : BOOLEAN,
                 tools : {"list", "conversation"}, seen : SUBSET Places]
           K == {"none", "channel", "dm"}
           W == [list : Wishes, members : Wishes]
           Good(p, kind, w, u) ==
             /\ p \in P /\ ~(p.list /\ p.members)
             /\ p.narrow =>
                  /\ p.tools = "conversation" /\ p.back = ~p.list
                  /\ IF u THEN p.seen \cup {"list"} = {Turn(p), "list"} ELSE p.seen = {Turn(p)}
             /\ ~p.narrow =>
                  /\ p.tools = "list" /\ ~p.back
                  /\ "members" \in p.seen <=> kind = "channel" /\ w.members # "no"
                  /\ w.list # "unset" => ("list" \in p.seen <=> w.list = "yes")
<1>good. Good(pane, reading, wanted, unsettled) /\ reading \in K /\ wanted \in W /\ unsettled \in BOOLEAN
  BY DEF PanesInv, PanesAgree
<1>goal. ASSUME reading' \in K, wanted' \in W, unsettled' \in BOOLEAN,
                Good(pane', reading', wanted', unsettled')
         PROVE  PanesInv'
  BY <1>goal DEF PanesInv, PanesAgree, Turn
<1>put. ASSUME NEW s \in SUBSET Places, NEW x \in Places, NEW b \in BOOLEAN
        PROVE  Put(s, x, b) \in SUBSET Places /\ \A y : y \in Put(s, x, b) <=> IF y = x THEN b ELSE y \in s
  BY DEF Put
<1> USE DEF Places, Wishes
<1>member. ASSUME NEW p \in P, NEW kind \in K, NEW w \in W
           PROVE  /\ MemberColumn(p, kind, w) \in P
                  /\ p.narrow => MemberColumn(p, kind, w) = p
                  /\ ~p.narrow =>
                       /\ \E s \in SUBSET Places : MemberColumn(p, kind, w) = [p EXCEPT !.seen = s]
                       /\ MemberColumn(p, kind, w).seen
                            = Put(p.seen, "members", kind = "channel" /\ w.members # "no")
  BY <1>put DEF MemberColumn
<1>settled. ASSUME NEW p \in P, NEW kind \in K, NEW w \in W
            PROVE  /\ Settled(p, kind, w) \in P
                   /\ \E s \in SUBSET Places : Settled(p, kind, w) = [p EXCEPT !.seen = s]
                   /\ p.narrow => Settled(p, kind, w).seen \in
                                    {p.seen, p.seen \cup {"list"}, p.seen \ {"list"}}
                   /\ ~p.narrow =>
                        /\ "members" \in Settled(p, kind, w).seen <=> kind = "channel" /\ w.members # "no"
                        /\ w.list # "unset" => ("list" \in Settled(p, kind, w).seen <=> w.list = "yes")
  <2> DEFINE l == IF w.list = "unset" THEN p ELSE [p EXCEPT !.seen = Put(@, "list", w.list = "yes")]
  <2>1. PICK v \in SUBSET Places :
          /\ l = [p EXCEPT !.seen = v]
          /\ v = IF w.list = "unset" THEN p.seen ELSE Put(p.seen, "list", w.list = "yes")
    <3>1. CASE w.list = "unset"
      <4>1. l = [p EXCEPT !.seen = p.seen] /\ p.seen \in SUBSET Places
        BY <3>1
      <4>2. QED BY <3>1, <4>1
    <3>2. CASE w.list # "unset"
      <4>1. l = [p EXCEPT !.seen = Put(p.seen, "list", w.list = "yes")]
        BY <3>2
      <4>2. Put(p.seen, "list", w.list = "yes") \in SUBSET Places
        BY <1>put
      <4>3. QED BY <3>2, <4>1, <4>2
    <3>3. QED BY <3>1, <3>2
  <2>l. l \in P /\ l.narrow = p.narrow /\ l.seen = v
    BY <2>1
  <2>2. Settled(p, kind, w) = MemberColumn(l, kind, w)
    BY DEF Settled
  <2> HIDE DEF l
  <2>3. CASE p.narrow
    <3>1. Settled(p, kind, w) = l
      BY <2>l, <2>2, <2>3 DEF MemberColumn
    <3>2. l.seen \in {p.seen, p.seen \cup {"list"}, p.seen \ {"list"}}
      BY <2>1, <2>l DEF Put
    <3>3. QED BY SMTT(30), <2>1, <2>l, <2>3, <3>1, <3>2
  <2>4. CASE ~p.narrow
    <3>1. PICK s \in SUBSET Places : MemberColumn(l, kind, w) = [l EXCEPT !.seen = s]
      BY <1>member, <2>l, <2>4
    <3>2. Settled(p, kind, w).seen = Put(l.seen, "members", kind = "channel" /\ w.members # "no")
      BY <1>member, <2>l, <2>2, <2>4
    <3>3. Settled(p, kind, w) = [p EXCEPT !.seen = s] /\ [p EXCEPT !.seen = s] \in P
      <4>1. [p EXCEPT !.seen = s] \in P /\ [[p EXCEPT !.seen = v] EXCEPT !.seen = s] = [p EXCEPT !.seen = s]
        OBVIOUS
      <4>2. Settled(p, kind, w) = [[p EXCEPT !.seen = v] EXCEPT !.seen = s]
        BY <2>1, <2>2, <3>1
      <4>3. QED BY <4>1, <4>2
    <3>4. "members" \in Settled(p, kind, w).seen <=> kind = "channel" /\ w.members # "no"
      BY <3>2 DEF Put
    <3>5. w.list # "unset" => ("list" \in Settled(p, kind, w).seen <=> w.list = "yes")
      BY <2>1, <2>l, <3>2 DEF Put
    <3>6. QED BY <2>4, <3>3, <3>4, <3>5
  <2>5. QED BY <2>3, <2>4
<1>layout. ASSUME NEW p \in P, NEW kind \in K, NEW w \in W, NEW wide \in BOOLEAN, NEW u \in BOOLEAN,
                  ~(p.list /\ p.members), ~p.narrow => Good(p, kind, w, u)
           PROVE  Good(Layout(p, kind, w, wide), kind, w, FALSE)
  <2> DEFINE entered == [p EXCEPT !.list = IF p.narrow THEN @ ELSE kind = "none",
                                  !.members = p.narrow /\ @, !.narrow = TRUE, !.tools = "conversation"]
             left == [p EXCEPT !.narrow = FALSE, !.tools = "list", !.back = FALSE]
  <2>1. CASE ~wide
    <3>1. /\ entered \in P /\ entered.narrow /\ entered.tools = "conversation"
          /\ ~(entered.list /\ entered.members)
      BY <1>layout
    <3>2. Turn(entered) \in Places
      BY DEF Turn
    <3>3. Layout(p, kind, w, wide) = [entered EXCEPT !.seen = {Turn(entered)}, !.back = ~entered.list]
      BY <2>1 DEF Layout
    <3> HIDE DEF entered
    <3> DEFINE r == [entered EXCEPT !.seen = {Turn(entered)}, !.back = ~entered.list]
    <3>4. /\ r \in P /\ r.narrow /\ r.tools = "conversation" /\ ~(r.list /\ r.members)
          /\ r.back = ~r.list /\ Turn(r) = Turn(entered) /\ r.seen = {Turn(entered)}
      BY <3>1, <3>2 DEF Turn
    <3> HIDE DEF r
    <3>5. Good(r, kind, w, FALSE)
      BY <3>4
    <3>6. QED BY <3>3, <3>5 DEF r
  <2>2. CASE wide /\ p.narrow
    <3>1. left \in P /\ ~left.narrow /\ left.tools = "list" /\ ~left.back /\ ~(left.list /\ left.members)
      BY <1>layout
    <3>2. Layout(p, kind, w, wide) = Settled(left, kind, w)
      BY <2>2 DEF Layout
    <3> HIDE DEF left
    <3> DEFINE r == Settled(left, kind, w)
    <3>3. PICK s \in SUBSET Places : r = [left EXCEPT !.seen = s]
      BY <1>settled, <3>1
    <3>4. r \in P /\ ~r.narrow /\ r.tools = "list" /\ ~r.back /\ ~(r.list /\ r.members)
      BY <3>1, <3>3
    <3>5. /\ "members" \in r.seen <=> kind = "channel" /\ w.members # "no"
          /\ w.list # "unset" => ("list" \in r.seen <=> w.list = "yes")
      BY <1>settled, <3>1
    <3> HIDE DEF r
    <3>6. Good(r, kind, w, FALSE)
      BY <3>4, <3>5
    <3>7. QED BY <3>2, <3>6 DEF r
  <2>3. CASE wide /\ ~p.narrow
    <3>1. Layout(p, kind, w, wide) = p
      BY <2>3 DEF Layout
    <3>2. QED BY <1>layout, <2>3, <3>1
  <2>4. QED BY <2>1, <2>2, <2>3
<1> HIDE DEF P, W, K, Good
<1>laid. ASSUME NEW p \in P, NEW kind \in K, ~(p.list /\ p.members), Laid(p, kind),
                ~p.narrow => Good(p, kind, wanted, FALSE), reading' = kind, wanted' = wanted
         PROVE  PanesInv'
  <2>1. (width = "wide") \in BOOLEAN
    OBVIOUS
  <2>2. Good(Layout(p, kind, wanted, width = "wide"), kind, wanted, FALSE)
    BY <1>good, <1>laid, <1>layout, <2>1
  <2>3. pane' = Layout(p, kind, wanted, width = "wide") /\ unsettled' = FALSE
    BY <1>laid DEF Laid
  <2>4. QED BY <1>good, <1>goal, <1>laid, <2>2, <2>3
<1>types. pane \in P /\ ~(pane.list /\ pane.members) /\ pane.narrow \in BOOLEAN
          /\ (~pane.narrow => Good(pane, reading, wanted, FALSE))
  BY <1>good DEF Good, P
<1>1. ASSUME NEW w \in {"wide", "narrow"}, Resize(w) PROVE PanesInv'
  BY <1>1, <1>good, <1>goal DEF Resize
<1>2. CASE Tick
  BY <1>2, <1>good, <1>types, <1>laid DEF Tick
<1>3. ASSUME NEW w \in [list : Wishes, members : Wishes], SettingsChanged(w) PROVE PanesInv'
  <2>1. w \in W /\ pane' = Settled(pane, reading, w) /\ wanted' = w /\ reading' = reading
        /\ unsettled' = pane.narrow
    BY <1>3 DEF SettingsChanged, W
  <2>2. PICK s \in SUBSET Places : pane' = [pane EXCEPT !.seen = s]
    <3>1. pane \in P /\ reading \in K /\ w \in W
      BY <1>good, <1>types, <2>1
    <3>2. \E s \in SUBSET Places : Settled(pane, reading, w) = [pane EXCEPT !.seen = s]
      BY <1>settled, <3>1
    <3>3. QED BY <2>1, <3>2
  <2>3. pane' \in P /\ pane'.seen = s /\ pane'.narrow = pane.narrow /\ pane'.tools = pane.tools
        /\ pane'.back = pane.back /\ pane'.list = pane.list /\ pane'.members = pane.members
    BY <1>types, <2>2 DEF P
  <2>4. CASE pane.narrow
    <3>1. s \in {pane.seen, pane.seen \cup {"list"}, pane.seen \ {"list"}}
      BY <1>good, <1>types, <1>settled, <2>1, <2>3, <2>4
    <3>2. pane.seen \cup {"list"} = {Turn(pane), "list"}
      BY <1>good, <2>4 DEF Good
    <3>3. s \cup {"list"} = {Turn(pane), "list"} /\ Turn(pane') = Turn(pane)
      BY <2>3, <3>1, <3>2 DEF Turn
    <3>4. Good(pane', reading', wanted', TRUE)
      BY <1>good, <2>1, <2>3, <2>4, <3>3 DEF Good
    <3>5. unsettled' = TRUE
      BY <2>1, <2>4, <1>types
    <3>6. QED BY <1>good, <1>goal, <2>1, <3>4, <3>5
  <2>5. CASE ~pane.narrow
    <3>1. /\ "members" \in s <=> reading = "channel" /\ w.members # "no"
          /\ w.list # "unset" => ("list" \in s <=> w.list = "yes")
      BY <1>good, <1>types, <1>settled, <2>1, <2>3, <2>5
    <3>2. Good(pane', reading', wanted', FALSE)
      BY <1>good, <2>1, <2>3, <2>5, <3>1 DEF Good
    <3>3. unsettled' = FALSE
      BY <2>1, <2>5, <1>types
    <3>4. QED BY <1>good, <1>goal, <2>1, <3>2, <3>3
  <2>6. QED BY <2>4, <2>5
<1>4. ASSUME NEW kind \in {"channel", "dm"}, Pick(kind) PROVE PanesInv'
  <2> DEFINE p == MemberColumn(pane, kind, wanted)
  <2>1. kind \in K /\ reading' = kind /\ wanted' = wanted
    BY <1>4 DEF Pick, K
  <2>2. p \in P
    BY <1>good, <1>types, <1>member, <2>1
  <2>3. IF p.narrow THEN Laid([p EXCEPT !.list = FALSE, !.members = FALSE], kind)
        ELSE pane' = p /\ UNCHANGED unsettled
    BY <1>4 DEF Pick
  <2>4. CASE pane.narrow
    <3>1. p = pane
      BY <1>good, <1>types, <1>member, <2>1, <2>4
    <3>2. [pane EXCEPT !.list = FALSE, !.members = FALSE] \in P
          /\ [pane EXCEPT !.list = FALSE, !.members = FALSE].narrow
          /\ ~[pane EXCEPT !.list = FALSE, !.members = FALSE].list
      BY <1>types, <2>4 DEF P
    <3>3. QED BY <1>laid, <2>1, <2>3, <2>4, <3>1, <3>2
  <2>5. CASE ~pane.narrow
    <3>1. PICK s \in SUBSET Places : p = [pane EXCEPT !.seen = s]
      BY <1>good, <1>types, <1>member, <2>1, <2>5
    <3>2. p.seen = Put(pane.seen, "members", kind = "channel" /\ wanted.members # "no")
      BY <1>good, <1>types, <1>member, <2>1, <2>5
    <3>3. p.seen = s /\ p.narrow = pane.narrow /\ p.tools = pane.tools
          /\ p.back = pane.back /\ p.list = pane.list /\ p.members = pane.members
      BY <1>types, <3>1 DEF P
    <3>4. /\ "members" \in s <=> kind = "channel" /\ wanted.members # "no"
          /\ "list" \in s <=> "list" \in pane.seen
      BY <3>2, <3>3 DEF Put
    <3> HIDE DEF p
    <3>5. Good(p, kind, wanted, unsettled)
      BY <1>good, <2>2, <2>5, <3>3, <3>4 DEF Good
    <3>6. pane' = p /\ unsettled' = unsettled
      BY <2>3, <2>5, <3>3
    <3>7. QED BY <1>good, <1>goal, <2>1, <3>5, <3>6
  <2>6. QED BY <1>types, <2>4, <2>5
<1>5. CASE Back
  <2>1. PICK p \in {[pane EXCEPT !.members = FALSE], [pane EXCEPT !.list = TRUE]} :
          /\ Laid(p, reading) /\ UNCHANGED <<reading, wanted>> /\ pane.narrow
          /\ p = [pane EXCEPT !.list = TRUE] => ~pane.members
    <3>1. CASE pane.members
      <4>1. [pane EXCEPT !.members = FALSE] # [pane EXCEPT !.list = TRUE]
        BY <1>types, <3>1 DEF P
      <4>2. QED BY <1>5, <3>1, <4>1 DEF Back
    <3>2. QED BY <1>5, <3>1 DEF Back
  <2>2. p \in P /\ p.narrow /\ ~(p.list /\ p.members)
    BY <1>types, <2>1 DEF P
  <2>3. QED BY <1>good, <1>laid, <2>1, <2>2
<1>6. CASE ToggleMembers
  <2>1. Laid([pane EXCEPT !.members = ~@], reading) /\ UNCHANGED <<reading, wanted>> /\ pane.narrow /\ ~pane.list
    BY <1>6 DEF ToggleMembers
  <2>2. [pane EXCEPT !.members = ~@] \in P /\ [pane EXCEPT !.members = ~@].narrow
        /\ ~[pane EXCEPT !.members = ~@].list
    BY <1>types, <2>1 DEF P
  <2>3. QED BY <1>good, <1>laid, <2>1, <2>2
<1>7. QED BY <1>1, <1>2, <1>3, <1>4, <1>5, <1>6 DEF PanesNext

(* The panes of a window are those of its width and of the place that the user *)
(* went to, through every resizing, change of the settings and navigation      *)
(* (window.rs:1947).                                                           *)
THEOREM PanesAreRight == Spec => []PanesAgree
<1>1. Init => PanesInv
  <2>1. Init => PanesInit
    BY DEF Init
  <2>2. PanesInit => PanesInv
    <3>1. SUFFICES ASSUME PanesInit PROVE PanesInv
      OBVIOUS
    <3>2. /\ pane \in [narrow : BOOLEAN, list : BOOLEAN, members : BOOLEAN, back : BOOLEAN,
                        tools : {"list", "conversation"}, seen : SUBSET Places]
          /\ ~pane.narrow /\ ~pane.members /\ ~pane.back /\ pane.tools = "list"
          /\ "members" \notin pane.seen /\ wanted.list = "unset"
          /\ wanted \in [list : Wishes, members : Wishes]
      BY <3>1 DEF PanesInit, Places, Wishes
    <3>3. reading = "none" /\ unsettled = FALSE
      BY <3>1 DEF PanesInit
    <3>4. QED BY <3>2, <3>3 DEF PanesInv, PanesAgree
  <2>3. QED BY <2>1, <2>2
<1>2. PanesInv /\ [Next]_screenVars => PanesInv'
  <2>1. UNCHANGED panesVars => (PanesInv => PanesInv')
    BY DEF panesVars, PanesInv, PanesAgree, Turn
  <2>2. [Next]_screenVars => PanesNext \/ UNCHANGED panesVars
    BY DEF Next, screenVars
  <2>3. QED BY <2>1, <2>2, PanesStep
<1>3. PanesInv => PanesAgree
  BY DEF PanesInv
<1>4. QED BY <1>1, <1>2, <1>3, PTL DEF Spec

--------------------------------------------------------------------------------
(* The search window waits for its last search or for none. *)
FinderInv ==
  /\ token \in Nat /\ sought \subseteq 1..token /\ reached \in Nat
  /\ finder \in [open : BOOLEAN, last : {0, token}, listed : Nat]
  /\ ~finder.open => finder.last = 0
  /\ FinderAgrees

(* What is on its way to the server, and back *)
Verbs == [kind : {"search"}, network : Networks, filter : Filters]
         \cup [kind : {"list"}, network : Networks]
Answers == [kind : {"rows"}, network : Networks, filter : Filters, busy : BOOLEAN]
           \cup [kind : {"state"}, network : Networks, busy : BOOLEAN]
NoneOf(kind, s) == \A i \in DOMAIN s : s[i].kind # kind
LastIs(kind, s, n, f) ==
  \A i \in DOMAIN s : s[i].kind = kind /\ (\A j \in DOMAIN s : j > i => s[j].kind # kind)
                        => s[i].network = n /\ s[i].filter = f
BrowserTypes ==
  /\ linked \in BOOLEAN /\ listing \subseteq Networks /\ loading \in BOOLEAN
  /\ queries \in Seq(Verbs) /\ frames \in Seq(Answers)
  /\ browser \in [Networks -> Filters \cup {Closed}] /\ taken \in 0..Len(queries)
  /\ queried \in [networks : SUBSET Networks, last : Networks \cup {Closed}, count : Nat, lost : BOOLEAN]
(* The page that is there when all is heard is the one of the last query: what *)
(* comes for the last of the queries under way, of the answers if there is none *)
(* of these, or the page that is there already.                               *)
PageComing(n) ==
  /\ LastIs("search", queries, n, browser[n])
  /\ NoneOf("search", queries) => LastIs("rows", frames, n, browser[n])
  /\ NoneOf("search", queries) /\ NoneOf("rows", frames) =>
       page = [network |-> n, filter |-> browser[n]]
PagesCome ==
  \A n \in Networks : browser[n] # Closed /\ queried.last = n /\ ~queried.lost => PageComing(n)
(* Nothing is asked but about the networks asked about; while the connection  *)
(* is down the server has taken nothing, and what it fetches is lost unless a  *)
(* verb is queued.                                                            *)
Local ==
  /\ \A i \in DOMAIN queries : queries[i].network \in queried.networks
  /\ \A i \in DOMAIN frames : frames[i].network \in queried.networks
  /\ listing \subseteq queried.networks
  /\ ~linked => taken = 0 /\ (queried.lost \/ listing = {} \/ queries # <<>>)
(* With nothing to take and nothing lost, the last answer tells what the       *)
(* server does.                                                               *)
BusyComes ==
  \A n \in Networks : queried.networks = {n} /\ ~queried.lost /\ queries = <<>> =>
    /\ frames # <<>> => (frames[Len(frames)].busy <=> n \in listing)
    /\ frames = <<>> => (loading <=> n \in listing)
BrowserInv == BrowserTypes /\ PagesCome /\ Local /\ BusyComes


--------------------------------------------------------------------------------
(* Steps keep the search window waiting for its last search.                  *)
LEMMA FinderStep == FinderInv /\ (Browses \/ Seeks) => FinderInv'
<1> SUFFICES ASSUME FinderInv, Browses \/ Seeks PROVE FinderInv'
  OBVIOUS
<1>inv. /\ token \in Nat /\ sought \subseteq 1..token /\ reached \in Nat
        /\ finder \in [open : BOOLEAN, last : {0, token}, listed : Nat]
        /\ ~finder.open => finder.last = 0
        /\ finder.last # 0 /\ finder.last \notin sought => finder.listed = finder.last
  BY DEF FinderInv, FinderAgrees
<1>same. UNCHANGED <<token, sought, finder>> /\ reached' \in Nat => FinderInv'
  BY <1>inv DEF FinderInv, FinderAgrees
<1>1. ASSUME NEW n \in Networks,
             \/ OpenBrowser(n) \/ CloseBrowser(n) \/ Refresh(n) \/ ListEnds(n)
             \/ \E filter \in Filters : TypeFilter(n, filter)
      PROVE  FinderInv'
  BY <1>1, <1>inv, <1>same DEF OpenBrowser, CloseBrowser, Refresh, ListEnds, TypeFilter
<1>2. CASE Take \/ Answer \/ Hear \/ Reconnect \/ TakeSearch
  <2>1. UNCHANGED <<token, sought, finder>> /\ reached' \in {reached, reached + 1}
    BY <1>2, Zenon DEF Take, Answer, Hear, Reconnect, TakeSearch
  <2>2. QED BY <1>inv, <1>same, <2>1
<1>3. CASE OpenFinder \/ CloseFinder
  <2>1. finder' \in [open : BOOLEAN, last : {0, token}, listed : Nat] /\ finder'.last = 0
        /\ UNCHANGED <<token, sought, reached>>
    <3>1. PICK b \in BOOLEAN : /\ finder' = [open |-> b, last |-> 0, listed |-> 0]
                               /\ UNCHANGED <<token, sought, reached>>
      BY <1>3 DEF OpenFinder, CloseFinder
    <3>2. QED BY <1>inv, <3>1
  <2>2. QED BY <1>inv, <2>1 DEF FinderInv, FinderAgrees
<1>4. CASE Search
  <2>1. token' = token + 1 /\ finder' = [finder EXCEPT !.last = token + 1]
        /\ finder.open /\ sought' = sought \cup {token + 1} /\ reached' = reached
    BY <1>4 DEF Search
  <2>2. token' \in Nat /\ sought' \subseteq 1..token'
    BY <1>inv, <2>1
  <2>3. /\ finder' \in [open : BOOLEAN, last : {0, token'}, listed : Nat] /\ finder'.open
        /\ finder'.last = token + 1
    BY <1>inv, <2>1
  <2>4. finder'.last \in sought'
    BY <2>1, <2>3
  <2>5. QED BY <1>inv, <2>1, <2>2, <2>3, <2>4 DEF FinderInv, FinderAgrees
<1>5. ASSUME NEW t \in sought, Found(t) PROVE FinderInv'
  <2>1. /\ token' = token /\ sought' = sought \ {t} /\ t \in 1..token /\ reached' = reached
        /\ finder' = IF t >= token THEN Rendered(t) ELSE finder
    BY <1>5, <1>inv DEF Found
  <2>2. CASE t >= token /\ finder.open
    <3>1. t = token /\ finder' = [finder EXCEPT !.listed = t]
      BY <1>inv, <2>1, <2>2 DEF Rendered
    <3>2. finder' \in [open : BOOLEAN, last : {0, token}, listed : Nat] /\ finder'.open
          /\ finder'.listed = token
      BY <1>inv, <2>2, <3>1
    <3>3. QED BY <1>inv, <2>1, <3>2 DEF FinderInv, FinderAgrees
  <2>3. CASE ~finder.open
    <3>1. finder' = finder /\ finder.last = 0
      BY <1>inv, <2>1, <2>3 DEF Rendered
    <3>2. QED BY <1>inv, <2>1, <3>1 DEF FinderInv, FinderAgrees
  <2>4. CASE ~(t >= token)
    <3>1. finder' = finder /\ finder.last # t
      BY <1>inv, <2>1, <2>4
    <3>2. QED BY <1>inv, <2>1, <3>1 DEF FinderInv, FinderAgrees
  <2>5. QED BY <2>2, <2>3, <2>4
<1>6. CASE LoseConnection
  <2>1. /\ token' = token /\ reached' = reached /\ sought' \subseteq sought
        /\ finder' = IF finder.last \in sought \ sought' THEN [finder EXCEPT !.last = 0] ELSE finder
    BY <1>6 DEF LoseConnection
  <2>2. CASE finder.last \in sought \ sought'
    <3>1. finder' \in [open : BOOLEAN, last : {0, token}, listed : Nat] /\ finder'.last = 0
      BY <1>inv, <2>1, <2>2
    <3>2. QED BY <1>inv, <2>1, <3>1 DEF FinderInv, FinderAgrees
  <2>3. CASE finder.last \notin sought \ sought'
    BY <1>inv, <2>1, <2>3 DEF FinderInv, FinderAgrees
  <2>4. QED BY <2>2, <2>3
<1>7. QED BY <1>1, <1>2, <1>3, <1>4, <1>5, <1>6 DEF Browses, Seeks

(* A sequence with one more at its end, or one less at its beginning          *)
LEMMA LookupEnds ==
  ASSUME NEW S, NEW s \in Seq(S), NEW x \in S
  PROVE  /\ Append(s, x) \in Seq(S) /\ Len(Append(s, x)) = Len(s) + 1
         /\ Append(s, x)[Len(s) + 1] = x /\ \A i \in DOMAIN s : Append(s, x)[i] = s[i]
         /\ DOMAIN Append(s, x) = DOMAIN s \cup {Len(s) + 1} /\ Append(s, x) # <<>>
         /\ DOMAIN s = 1..Len(s) /\ Len(s) \in Nat
         /\ s # <<>> => /\ Tail(s) \in Seq(S) /\ Len(Tail(s)) = Len(s) - 1 /\ Head(s) = s[1]
                        /\ s[1] \in S /\ 1 \in DOMAIN s
                        /\ \A i \in DOMAIN Tail(s) : i + 1 \in DOMAIN s /\ Tail(s)[i] = s[i + 1]
                        /\ \A i \in DOMAIN s : i # 1 => i - 1 \in DOMAIN Tail(s) /\ Tail(s)[i - 1] = s[i]
                        /\ DOMAIN Tail(s) = 1..(Len(s) - 1)
  BY SMTT(30)

(* The last of a kind, when one more is appended or the first is taken away    *)
LEMMA LastMoves ==
  ASSUME NEW S, NEW s \in Seq(S), NEW x \in S, NEW kind, NEW n, NEW f
  PROVE  /\ x.kind = kind => /\ ~NoneOf(kind, Append(s, x))
                             /\ x.network = n /\ x.filter = f => LastIs(kind, Append(s, x), n, f)
         /\ x.kind # kind => /\ NoneOf(kind, Append(s, x)) => NoneOf(kind, s)
                             /\ LastIs(kind, s, n, f) => LastIs(kind, Append(s, x), n, f)
         /\ s # <<>> /\ LastIs(kind, s, n, f) => LastIs(kind, Tail(s), n, f)
         /\ s # <<>> /\ LastIs(kind, s, n, f) /\ NoneOf(kind, Tail(s)) /\ Head(s).kind = kind =>
              Head(s).network = n /\ Head(s).filter = f
         /\ s # <<>> /\ NoneOf(kind, Tail(s)) /\ Head(s).kind # kind => NoneOf(kind, s)
<1> DEFINE a == Append(s, x)
           t == Tail(s)
<1>1. /\ Len(a) = Len(s) + 1 /\ a[Len(s) + 1] = x /\ \A i \in DOMAIN s : a[i] = s[i]
      /\ DOMAIN a = DOMAIN s \cup {Len(s) + 1} /\ DOMAIN s = 1..Len(s) /\ Len(s) \in Nat
      /\ s # <<>> => /\ Head(s) = s[1] /\ 1 \in DOMAIN s
                     /\ \A i \in DOMAIN t : i + 1 \in DOMAIN s /\ t[i] = s[i + 1]
                     /\ \A i \in DOMAIN s : i # 1 => i - 1 \in DOMAIN t /\ t[i - 1] = s[i]
                     /\ DOMAIN t = 1..(Len(s) - 1)
  BY LookupEnds
<1> HIDE DEF a, t
<1>2. x.kind = kind => ~NoneOf(kind, a)
  BY <1>1 DEF NoneOf
<1>3. ASSUME x.kind = kind, x.network = n, x.filter = f PROVE LastIs(kind, a, n, f)
  <2>1. SUFFICES ASSUME NEW i \in DOMAIN a, \A j \in DOMAIN a : j > i => a[j].kind # kind
                 PROVE  i = Len(s) + 1
    BY <1>1, <1>3 DEF LastIs
  <2>2. QED BY <1>1, <1>3, <2>1
<1>4. x.kind # kind /\ NoneOf(kind, a) => NoneOf(kind, s)
  BY <1>1 DEF NoneOf
<1>5. ASSUME x.kind # kind, LastIs(kind, s, n, f) PROVE LastIs(kind, a, n, f)
  <2>1. SUFFICES ASSUME NEW i \in DOMAIN a, a[i].kind = kind, \A j \in DOMAIN a : j > i => a[j].kind # kind
                 PROVE  a[i].network = n /\ a[i].filter = f
    BY DEF LastIs
  <2>2. i \in DOMAIN s /\ a[i] = s[i]
    BY <1>1, <1>5, <2>1
  <2>3. \A j \in DOMAIN s : j > i => s[j].kind # kind
    BY <1>1, <2>1
  <2>4. QED BY <1>5, <2>1, <2>2, <2>3 DEF LastIs
<1>6. ASSUME s # <<>>, LastIs(kind, s, n, f) PROVE LastIs(kind, t, n, f)
  <2>1. SUFFICES ASSUME NEW i \in DOMAIN t, t[i].kind = kind, \A j \in DOMAIN t : j > i => t[j].kind # kind
                 PROVE  t[i].network = n /\ t[i].filter = f
    BY DEF LastIs
  <2>2. i + 1 \in DOMAIN s /\ t[i] = s[i + 1] /\ i \in Nat
    BY <1>1, <1>6
  <2>3. ASSUME NEW j \in DOMAIN s, j > i + 1 PROVE s[j].kind # kind
    <3>1. j - 1 \in DOMAIN t /\ t[j - 1] = s[j] /\ j - 1 > i
      BY <1>1, <1>6, <2>2, <2>3
    <3>2. QED BY <2>1, <3>1
  <2>4. QED BY <1>6, <2>1, <2>2, <2>3 DEF LastIs
<1>7. ASSUME s # <<>>, LastIs(kind, s, n, f), NoneOf(kind, t), Head(s).kind = kind
      PROVE  Head(s).network = n /\ Head(s).filter = f
  <2>1. ASSUME NEW j \in DOMAIN s, j > 1 PROVE s[j].kind # kind
    <3>1. j - 1 \in DOMAIN t /\ t[j - 1] = s[j]
      BY <1>1, <1>7, <2>1
    <3>2. QED BY <1>7, <3>1 DEF NoneOf
  <2>2. QED BY <1>1, <1>7, <2>1 DEF LastIs
<1>8. ASSUME s # <<>>, NoneOf(kind, t), Head(s).kind # kind PROVE NoneOf(kind, s)
  <2>1. SUFFICES ASSUME NEW i \in DOMAIN s PROVE s[i].kind # kind
    BY DEF NoneOf
  <2>2. CASE i = 1
    BY <1>1, <1>8, <2>2
  <2>3. CASE i # 1
    <3>1. i - 1 \in DOMAIN t /\ t[i - 1] = s[i]
      BY <1>1, <1>8, <2>3
    <3>2. QED BY <1>8, <3>1 DEF NoneOf
  <2>4. QED BY <2>2, <2>3
<1>9. QED BY <1>2, <1>3, <1>4, <1>5, <1>6, <1>7, <1>8 DEF a, t

--------------------------------------------------------------------------------
(* A verb is queued, whether or not there is a connection.                    *)
LEMMA SentVerb ==
  ASSUME BrowserTypes, NEW verb \in Verbs, Sent(verb)
  PROVE  /\ queries' \in Seq(Verbs) /\ queries' = Append(queries, verb)
         /\ queried' \in [networks : SUBSET Networks, last : Networks \cup {Closed}, count : Nat, lost : BOOLEAN]
         /\ queried'.networks = queried.networks \cup {verb.network}
         /\ verb.kind = "search" => queried'.last = verb.network /\ ~queried'.lost
         /\ verb.kind = "list" => queried'.last = queried.last /\ queried'.lost = queried.lost
<1>1. /\ queries' = Append(queries, verb)
      /\ queried' = [networks |-> queried.networks \cup {verb.network},
                     last |-> IF verb.kind = "search" THEN verb.network ELSE queried.last,
                     count |-> queried.count + 1,
                     lost |-> verb.kind # "search" /\ queried.lost]
  BY DEF Sent
<1>2. /\ queries \in Seq(Verbs) /\ verb.network \in Networks
      /\ queried \in [networks : SUBSET Networks, last : Networks \cup {Closed}, count : Nat, lost : BOOLEAN]
  BY DEF BrowserTypes, Verbs
<1>3. queries' \in Seq(Verbs)
  BY <1>1, <1>2, LookupEnds
<1>4. CASE verb.kind = "search"
  <2>1. queried' = [networks |-> queried.networks \cup {verb.network}, last |-> verb.network,
                    count |-> queried.count + 1, lost |-> FALSE]
    BY <1>1, <1>4
  <2>2. QED BY <1>1, <1>2, <1>3, <1>4, <2>1
<1>5. CASE verb.kind = "list"
  <2>1. queried' = [networks |-> queried.networks \cup {verb.network}, last |-> queried.last,
                    count |-> queried.count + 1, lost |-> queried.lost]
    BY <1>1, <1>2, <1>5
  <2>2. QED BY <1>1, <1>2, <1>3, <1>5, <2>1
<1>6. QED BY <1>4, <1>5 DEF Verbs

(* A lost connection takes with it the verbs taken and some of the last        *)
(* answers; it is noted, unless a search is still queued.                      *)
LEMMA ConnectionLost ==
  ASSUME BrowserTypes, LoseConnection
  PROVE  /\ linked' = FALSE /\ taken' = 0 /\ UNCHANGED <<listing, page, loading, browser>>
         /\ queries' \in Seq(Verbs) /\ frames' \in Seq(Answers)
         /\ queried' \in [networks : SUBSET Networks, last : Networks \cup {Closed}, count : Nat, lost : BOOLEAN]
         /\ queried'.networks = queried.networks /\ queried'.last = queried.last
         /\ \A i \in DOMAIN queries' : i + taken \in DOMAIN queries /\ queries'[i] = queries[i + taken]
         /\ \A i \in DOMAIN frames' : i \in DOMAIN frames /\ frames'[i] = frames[i]
         /\ \A n, f : LastIs("search", queries, n, f) => LastIs("search", queries', n, f)
         /\ ~queried'.lost => ~queried.lost
         /\ ~queried'.lost /\ NoneOf("search", queries') =>
              queries' = queries /\ frames' = frames /\ listing = {} /\ taken = 0
<1> DEFINE queued == \E i \in DOMAIN queries' : queries'[i].kind = "search"
<1>1. /\ linked' = FALSE /\ taken' = 0 /\ UNCHANGED <<listing, page, loading, browser>>
      /\ queries' = SubSeq(queries, taken + 1, Len(queries))
  BY DEF LoseConnection
<1>2. PICK heard \in 0..Len(frames) :
        /\ frames' = SubSeq(frames, 1, heard)
        /\ queried' = [queried EXCEPT
             !.lost = @ \/ ((taken > 0 \/ heard < Len(frames) \/ listing # {}) /\ ~queued)]
  BY Zenon DEF LoseConnection
<1>3. /\ queries \in Seq(Verbs) /\ frames \in Seq(Answers) /\ taken \in 0..Len(queries)
      /\ queried \in [networks : SUBSET Networks, last : Networks \cup {Closed}, count : Nat, lost : BOOLEAN]
  BY DEF BrowserTypes
<1>4. /\ Len(queries) \in Nat /\ DOMAIN queries = 1..Len(queries) /\ taken \in Nat /\ taken <= Len(queries)
      /\ Len(frames) \in Nat /\ DOMAIN frames = 1..Len(frames) /\ heard \in Nat /\ heard <= Len(frames)
  BY <1>2, <1>3
<1>5. /\ queries' \in Seq(Verbs) /\ DOMAIN queries' = 1..(Len(queries) - taken)
      /\ \A i \in DOMAIN queries' : queries'[i] = queries[i + taken]
  BY <1>1, <1>3, <1>4
<1>6. /\ frames' \in Seq(Answers) /\ DOMAIN frames' = 1..heard
      /\ \A i \in DOMAIN frames' : frames'[i] = frames[i]
  BY <1>2, <1>3, <1>4
<1>7. \A i \in DOMAIN queries' : i + taken \in DOMAIN queries
  BY <1>4, <1>5
<1>8. \A i \in DOMAIN frames' : i \in DOMAIN frames
  BY <1>4, <1>6
<1>9. ASSUME NEW n, NEW f, LastIs("search", queries, n, f) PROVE LastIs("search", queries', n, f)
  <2>1. SUFFICES ASSUME NEW i \in DOMAIN queries', queries'[i].kind = "search",
                        \A j \in DOMAIN queries' : j > i => queries'[j].kind # "search"
                 PROVE  queries'[i].network = n /\ queries'[i].filter = f
    BY DEF LastIs
  <2>2. i + taken \in DOMAIN queries /\ queries'[i] = queries[i + taken] /\ i \in Nat
    BY <1>5, <1>7
  <2>3. ASSUME NEW j \in DOMAIN queries, j > i + taken PROVE queries[j].kind # "search"
    <3>1. j - taken \in DOMAIN queries' /\ j - taken > i /\ j - taken + taken = j
      BY <1>4, <1>5, <2>2, <2>3
    <3>2. QED BY <1>5, <2>1, <3>1
  <2>4. QED BY <1>9, <2>1, <2>2, <2>3 DEF LastIs
<1> HIDE DEF queued
<1>10. /\ queried' \in [networks : SUBSET Networks, last : Networks \cup {Closed}, count : Nat, lost : BOOLEAN]
       /\ queried'.networks = queried.networks /\ queried'.last = queried.last
       /\ ~queried'.lost => ~queried.lost
       /\ ~queried'.lost /\ ~queued => taken = 0 /\ heard = Len(frames) /\ listing = {}
  <2> DEFINE gone == taken > 0 \/ heard < Len(frames) \/ listing # {}
             lost == queried.lost \/ (gone /\ ~queued)
  <2>1. ~gone => taken = 0 /\ heard = Len(frames) /\ listing = {}
    <3>1. ~(taken > 0) => taken = 0
      BY <1>4
    <3>2. ~(heard < Len(frames)) => heard = Len(frames)
      <4>1. PICK n \in Nat : n = Len(frames)
        BY <1>4
      <4>2. heard \in Nat /\ heard <= n
        BY <1>4, <4>1
      <4>3. ~(heard < n) => heard = n
        BY <4>2
      <4>4. QED BY <4>1, <4>3
    <3>3. QED BY <3>1, <3>2
  <2>2. queried' = [queried EXCEPT !.lost = lost]
    BY <1>2
  <2>3. lost \in BOOLEAN
    OBVIOUS
  <2>4. ~lost => ~queried.lost /\ (~queued => ~gone)
    OBVIOUS
  <2> HIDE DEF lost
  <2>5. /\ queried' \in [networks : SUBSET Networks, last : Networks \cup {Closed}, count : Nat, lost : BOOLEAN]
        /\ queried'.networks = queried.networks /\ queried'.last = queried.last
        /\ queried'.lost = lost
    BY <1>3, <2>2, <2>3
  <2> HIDE DEF gone
  <2>6. QED BY <2>1, <2>4, <2>5
<1>11. NoneOf("search", queries') => ~queued
  BY DEF NoneOf, queued
<1>12. taken = 0 => queries' = queries
  BY <1>1, <1>3, <1>4
<1>13. heard = Len(frames) => frames' = frames
  BY <1>2, <1>3, <1>4
<1>14. QED BY <1>1, <1>5, <1>6, <1>7, <1>8, <1>9, <1>10, <1>11, <1>12, <1>13

(* A query is a verb, and what asks for one opens or filters a window.         *)
LEMMA QueryIsVerb ==
  ASSUME NEW n \in Networks, NEW f \in Filters
  PROVE  /\ [kind |-> "search", network |-> n, filter |-> f] \in Verbs
         /\ [kind |-> "list", network |-> n] \in Verbs
  BY DEF Verbs

(* Steps keep the types. *)
LEMMA BrowserTypesStep == BrowserTypes /\ (Browses \/ Seeks) => BrowserTypes'
<1> SUFFICES ASSUME BrowserTypes, Browses \/ Seeks PROVE BrowserTypes'
  OBVIOUS
<1> USE LookupsAssumption
<1>type. /\ linked \in BOOLEAN /\ listing \subseteq Networks /\ loading \in BOOLEAN
         /\ queries \in Seq(Verbs) /\ frames \in Seq(Answers)
         /\ browser \in [Networks -> Filters \cup {Closed}] /\ taken \in 0..Len(queries)
         /\ queried \in [networks : SUBSET Networks, last : Networks \cup {Closed}, count : Nat, lost : BOOLEAN]
  BY DEF BrowserTypes
<1>longer. ASSUME NEW verb \in Verbs, Sent(verb), taken' = taken PROVE taken' \in 0..Len(queries')
  <2>1. queries' = Append(queries, verb)
    BY <1>longer, SentVerb
  <2>2. Len(queries') = Len(queries) + 1 /\ Len(queries) \in Nat
    BY <1>type, <2>1, LookupEnds
  <2>3. QED BY <1>longer, <1>type, <2>2
<1>1. ASSUME NEW n \in Networks, NEW f \in Filters, ChanlistSearch(n, f),
             browser' = [browser EXCEPT ![n] = f], UNCHANGED <<linked, listing, taken, frames, loading>>
      PROVE  BrowserTypes'
  <2>1. Sent([kind |-> "search", network |-> n, filter |-> f])
    BY <1>1 DEF ChanlistSearch
  <2>2. queries' \in Seq(Verbs) /\ queried' \in
          [networks : SUBSET Networks, last : Networks \cup {Closed}, count : Nat, lost : BOOLEAN]
    BY <2>1, SentVerb, QueryIsVerb
  <2>3. taken' \in 0..Len(queries')
    BY <1>1, <1>longer, <2>1, QueryIsVerb
  <2>4. QED BY <1>1, <1>type, <2>2, <2>3 DEF BrowserTypes
<1>2. ASSUME NEW n \in Networks, OpenBrowser(n) \/ \E filter \in Filters : TypeFilter(n, filter)
      PROVE  BrowserTypes'
  <2>1. PICK f \in Filters : /\ ChanlistSearch(n, f) /\ browser' = [browser EXCEPT ![n] = f]
                             /\ UNCHANGED <<linked, listing, taken, frames, loading>>
    BY <1>2 DEF OpenBrowser, TypeFilter
  <2>2. QED BY <1>1, <2>1
<1>3. ASSUME NEW n \in Networks, Refresh(n) PROVE BrowserTypes'
  <2>1. Sent([kind |-> "list", network |-> n]) /\ loading' = TRUE
        /\ UNCHANGED <<linked, listing, taken, frames, browser>>
    BY <1>3 DEF Refresh
  <2>2. queries' \in Seq(Verbs) /\ queried' \in
          [networks : SUBSET Networks, last : Networks \cup {Closed}, count : Nat, lost : BOOLEAN]
    BY <2>1, SentVerb, QueryIsVerb
  <2>3. taken' \in 0..Len(queries')
    BY <1>longer, <2>1, QueryIsVerb
  <2>4. QED BY <1>type, <2>1, <2>2, <2>3 DEF BrowserTypes
<1>4. ASSUME NEW n \in Networks, CloseBrowser(n) PROVE BrowserTypes'
  BY <1>4, <1>type DEF CloseBrowser, BrowserTypes
<1>5. CASE Answer
  <2>taken. taken \in Nat /\ taken > 0 /\ taken <= Len(queries) /\ taken' = taken - 1
    BY <1>5, <1>type DEF Answer
  <2>1. /\ queries # <<>> /\ queries' = Tail(queries) /\ Head(queries) \in Verbs
        /\ UNCHANGED <<linked, loading, browser, queried>> /\ Len(queries') = Len(queries) - 1
    <3>1. queries # <<>>
      BY <1>type, <2>taken
    <3>2. QED BY <1>5, <1>type, <3>1, LookupEnds DEF Answer
  <2>2. Head(queries).network \in Networks
    BY <2>1 DEF Verbs
  <2>3. listing' \subseteq Networks
    BY <1>5, <1>type, <2>2 DEF Answer
  <2>4. PICK x \in Answers : frames' = Append(frames, x)
    <3>1. CASE Head(queries).kind = "search"
      <4>1. Head(queries).filter \in Filters
        BY <2>1, <3>1 DEF Verbs
      <4>2. [kind |-> "rows", network |-> Head(queries).network, filter |-> Head(queries).filter,
             busy |-> Head(queries).network \in listing] \in Answers
        BY <2>2, <4>1 DEF Answers
      <4>3. QED BY <1>5, <3>1, <4>2 DEF Answer
    <3>2. CASE Head(queries).kind # "search"
      <4>1. Progress(Head(queries).network, TRUE) \in Answers
        BY <2>2 DEF Answers, Progress
      <4>2. QED BY <1>5, <3>2, <4>1 DEF Answer
    <3>3. QED BY <3>1, <3>2
  <2>5. frames' \in Seq(Answers) /\ queries' \in Seq(Verbs)
    BY <1>type, <2>1, <2>4, LookupEnds
  <2>6. taken' \in 0..Len(queries')
    BY <1>type, <2>taken, <2>1
  <2>7. QED BY <1>type, <2>1, <2>3, <2>5, <2>6 DEF BrowserTypes
<1>6. ASSUME NEW n \in Networks, ListEnds(n) PROVE BrowserTypes'
  <2>1. Progress(n, FALSE) \in Answers
    BY DEF Progress, Answers
  <2>2. frames' \in Seq(Answers)
    BY <1>6, <1>type, <2>1, LookupEnds DEF ListEnds
  <2>3. QED BY <1>6, <1>type, <2>2 DEF ListEnds, BrowserTypes
<1>7. CASE Hear
  <2>1. Head(frames) \in Answers /\ Tail(frames) \in Seq(Answers)
    BY <1>7, <1>type, LookupEnds DEF Hear
  <2>2. Head(frames).busy \in BOOLEAN
    BY <2>1 DEF Answers
  <2>3. frames' = Tail(frames) /\ loading' = Head(frames).busy
        /\ UNCHANGED <<linked, listing, queries, taken, browser, queried>>
    BY <1>7 DEF Hear
  <2>4. loading' \in BOOLEAN
    BY <2>2, <2>3, Zenon
  <2>5. QED BY <1>type, <2>1, <2>3, <2>4 DEF BrowserTypes
<1>8. CASE Take \/ OpenFinder \/ Search \/ TakeSearch \/ CloseFinder \/ (\E t \in sought : Found(t)) \/ Reconnect
  <2>1. UNCHANGED <<listing, queries, frames, loading, browser, queried>> /\ linked' \in BOOLEAN
        /\ taken' \in 0..Len(queries)
    <3>1. linked' \in {linked, TRUE}
      BY <1>8, Zenon DEF Take, OpenFinder, Search, TakeSearch, CloseFinder, Found, Reconnect
    <3>2. UNCHANGED <<listing, queries, frames, loading, browser, queried>>
      BY <1>8 DEF Take, OpenFinder, Search, TakeSearch, CloseFinder, Found, Reconnect
    <3>3. taken' = taken \/ (taken < Len(queries) /\ taken' = taken + 1)
      BY <1>8 DEF Take, OpenFinder, Search, TakeSearch, CloseFinder, Found, Reconnect
    <3>4. taken' \in 0..Len(queries)
      <4>1. Len(queries) \in Nat
        BY <1>type
      <4>2. QED BY <1>type, <3>3, <4>1
    <3>5. QED BY <1>type, <3>1, <3>2, <3>4
  <2>2. QED BY <1>type, <2>1 DEF BrowserTypes
<1>9. CASE LoseConnection
  <2>1. /\ linked' = FALSE /\ taken' = 0 /\ UNCHANGED <<listing, loading, browser>>
        /\ queries' \in Seq(Verbs) /\ frames' \in Seq(Answers)
        /\ queried' \in [networks : SUBSET Networks, last : Networks \cup {Closed}, count : Nat, lost : BOOLEAN]
    BY <1>9, ConnectionLost
  <2>2. taken' \in 0..Len(queries')
    BY <2>1
  <2>3. QED BY <1>type, <2>1, <2>2 DEF BrowserTypes
<1>10. QED BY <1>2, <1>3, <1>4, <1>5, <1>6, <1>7, <1>8, <1>9 DEF Browses, Seeks

(* Steps keep the page of the last query coming. *)
LEMMA PagesStep == BrowserTypes /\ PagesCome /\ Local /\ (Browses \/ Seeks) => PagesCome'
<1> SUFFICES ASSUME BrowserTypes, PagesCome, Local, Browses \/ Seeks, NEW n \in Networks,
                    browser'[n] # Closed, queried'.last = n, ~queried'.lost
             PROVE  PageComing(n)'
  BY DEF PagesCome
<1> USE LookupsAssumption
<1>type. /\ linked \in BOOLEAN /\ listing \subseteq Networks /\ loading \in BOOLEAN
         /\ queries \in Seq(Verbs) /\ frames \in Seq(Answers)
         /\ browser \in [Networks -> Filters \cup {Closed}] /\ taken \in 0..Len(queries)
         /\ queried \in [networks : SUBSET Networks, last : Networks \cup {Closed}, count : Nat, lost : BOOLEAN]
  BY DEF BrowserTypes
<1>now. browser[n] # Closed /\ queried.last = n /\ ~queried.lost =>
          /\ LastIs("search", queries, n, browser[n])
          /\ NoneOf("search", queries) => LastIs("rows", frames, n, browser[n])
          /\ NoneOf("search", queries) /\ NoneOf("rows", frames) =>
               page = [network |-> n, filter |-> browser[n]]
  BY DEF PagesCome, PageComing
<1>goal. ASSUME LastIs("search", queries', n, browser'[n]),
                NoneOf("search", queries') => LastIs("rows", frames', n, browser'[n]),
                NoneOf("search", queries') /\ NoneOf("rows", frames') =>
                  page' = [network |-> n, filter |-> browser'[n]]
         PROVE  PageComing(n)'
  BY <1>goal DEF PageComing, LastIs, NoneOf
<1>same. ASSUME UNCHANGED <<queries, frames, page>>, browser'[n] = browser[n], queried.last = n, ~queried.lost
         PROVE  PageComing(n)'
  BY <1>now, <1>goal, <1>same
<1>1. ASSUME NEW m \in Networks, OpenBrowser(m) \/ \E filter \in Filters : TypeFilter(m, filter)
      PROVE  PageComing(n)'
  <2>1. PICK f \in Filters : /\ ChanlistSearch(m, f) /\ browser' = [browser EXCEPT ![m] = f]
                             /\ UNCHANGED <<linked, listing, frames, loading>>
    BY <1>1 DEF OpenBrowser, TypeFilter
  <2> DEFINE verb == [kind |-> "search", network |-> m, filter |-> f]
  <2>2. verb \in Verbs /\ verb.kind = "search" /\ verb.network = m /\ verb.filter = f
    BY QueryIsVerb
  <2>3. Sent(verb)
    BY <2>1 DEF ChanlistSearch
  <2> HIDE DEF verb
  <2>4. queries' = Append(queries, verb) /\ queried'.last = m
    BY <2>2, <2>3, SentVerb
  <2>5. n = m /\ queries' = Append(queries, verb) /\ browser'[n] = f
    BY <1>type, <2>1, <2>4
  <2>6. ~NoneOf("search", queries') /\ LastIs("search", queries', n, f)
    BY <1>type, <2>2, <2>5, LastMoves
  <2>7. QED BY <1>goal, <2>5, <2>6
<1>2. ASSUME NEW m \in Networks, Refresh(m) PROVE PageComing(n)'
  <2> DEFINE verb == [kind |-> "list", network |-> m]
  <2>1. verb \in Verbs /\ verb.kind = "list" /\ verb.kind # "search"
    BY LookupsAssumption, QueryIsVerb
  <2>2. Sent(verb) /\ UNCHANGED <<browser, frames, page>>
    BY <1>2 DEF Refresh
  <2> HIDE DEF verb
  <2>3. /\ queries' = Append(queries, verb)
        /\ queried'.last = queried.last /\ queried'.lost = queried.lost
    BY <2>1, <2>2, SentVerb
  <2>4. queried.last = n /\ ~queried.lost /\ queries' = Append(queries, verb) /\ browser[n] # Closed
    BY <1>type, <2>2, <2>3
  <2>5. /\ NoneOf("search", queries') => NoneOf("search", queries)
        /\ LastIs("search", queries, n, browser[n]) => LastIs("search", queries', n, browser[n])
    BY <1>type, <2>1, <2>4, LastMoves
  <2>6. QED BY <1>now, <1>goal, <2>2, <2>4, <2>5
<1>3. ASSUME NEW m \in Networks, CloseBrowser(m) PROVE PageComing(n)'
  <2>1. n # m /\ browser'[n] = browser[n] /\ UNCHANGED <<queries, frames, page, queried>>
    BY <1>3, <1>type DEF CloseBrowser
  <2>2. QED BY <1>same, <2>1
<1>4. CASE Answer
  <2>1. /\ queries # <<>> /\ queries' = Tail(queries) /\ UNCHANGED <<page, browser, queried>>
        /\ Head(queries) \in Verbs
    <3>1. queries # <<>>
      BY <1>4, <1>type DEF Answer
    <3>2. QED BY <1>4, <1>type, <3>1, LookupEnds DEF Answer
  <2>2. /\ LastIs("search", queries, n, browser[n])
        /\ NoneOf("search", queries) => LastIs("rows", frames, n, browser[n])
        /\ NoneOf("search", queries) /\ NoneOf("rows", frames) =>
             page = [network |-> n, filter |-> browser[n]]
    BY <1>now, <2>1
  <2>3. LastIs("search", queries', n, browser[n])
    BY <1>type, <2>1, <2>2, LastMoves
  <2>4. CASE Head(queries).kind = "search"
    <3> DEFINE x == [kind |-> "rows", network |-> Head(queries).network, filter |-> Head(queries).filter,
                     busy |-> Head(queries).network \in listing]
    <3>1. x \in Answers /\ x.kind = "rows" /\ x.network = Head(queries).network /\ x.filter = Head(queries).filter
      BY <2>1, <2>4 DEF Answers, Verbs
    <3>2. frames' = Append(frames, x)
      BY <1>4, <2>4 DEF Answer
    <3> HIDE DEF x
    <3>3. NoneOf("search", queries') => x.network = n /\ x.filter = browser[n]
      BY <1>type, <2>1, <2>2, <2>4, <3>1, LastMoves
    <3>4. ~NoneOf("rows", frames') /\ (NoneOf("search", queries') => LastIs("rows", frames', n, browser[n]))
      BY <1>type, <3>1, <3>2, <3>3, LastMoves
    <3>5. QED BY <1>goal, <2>1, <2>3, <3>4
  <2>5. CASE Head(queries).kind # "search"
    <3> DEFINE x == Progress(Head(queries).network, TRUE)
    <3>1. x \in Answers /\ x.kind # "rows"
      BY <2>1 DEF Answers, Verbs, Progress
    <3>2. frames' = Append(frames, x)
      BY <1>4, <2>5 DEF Answer
    <3> HIDE DEF x
    <3>3. NoneOf("search", queries') => NoneOf("search", queries)
      BY <1>type, <2>1, <2>5, LastMoves
    <3>4. /\ NoneOf("rows", frames') => NoneOf("rows", frames)
          /\ LastIs("rows", frames, n, browser[n]) => LastIs("rows", frames', n, browser[n])
      BY <1>type, <3>1, <3>2, LastMoves
    <3>5. QED BY <1>goal, <2>1, <2>2, <2>3, <3>3, <3>4
  <2>6. QED BY <2>4, <2>5
<1>5. ASSUME NEW m \in Networks, ListEnds(m) PROVE PageComing(n)'
  <2> DEFINE x == Progress(m, FALSE)
  <2>1. x \in Answers /\ x.kind # "rows"
    BY DEF Answers, Progress
  <2>2. /\ frames' = IF linked THEN Append(frames, x) ELSE frames
        /\ UNCHANGED <<queries, page, browser, queried>>
    BY <1>5 DEF ListEnds
  <2> HIDE DEF x
  <2>3. CASE ~linked
    BY <1>same, <2>2, <2>3
  <2>4. CASE linked
    <3>1. /\ NoneOf("rows", frames') => NoneOf("rows", frames)
          /\ LastIs("rows", frames, n, browser[n]) => LastIs("rows", frames', n, browser[n])
      BY <1>type, <2>1, <2>2, <2>4, LastMoves
    <3>2. QED BY <1>now, <1>goal, <2>2, <3>1
  <2>5. QED BY <2>3, <2>4
<1>6. CASE Hear
  <2>1. /\ frames # <<>> /\ frames' = Tail(frames) /\ Head(frames) \in Answers
        /\ page' = IF Head(frames).kind = "rows"
                   THEN [network |-> Head(frames).network, filter |-> Head(frames).filter] ELSE page
        /\ UNCHANGED <<queries, browser, queried>>
    BY <1>6, <1>type, LookupEnds DEF Hear
  <2>2. ASSUME NoneOf("search", queries)
        PROVE  /\ LastIs("rows", frames', n, browser[n])
               /\ NoneOf("rows", frames') => page' = [network |-> n, filter |-> browser[n]]
    <3>1. /\ LastIs("rows", frames, n, browser[n])
          /\ NoneOf("rows", frames) => page = [network |-> n, filter |-> browser[n]]
      BY <1>now, <2>1, <2>2
    <3>2. LastIs("rows", frames', n, browser[n])
      BY <1>type, <2>1, <3>1, LastMoves
    <3>3. NoneOf("rows", frames') /\ Head(frames).kind = "rows" =>
            Head(frames).network = n /\ Head(frames).filter = browser[n]
      BY <1>type, <2>1, <3>1, LastMoves
    <3>4. NoneOf("rows", frames') /\ Head(frames).kind # "rows" => NoneOf("rows", frames)
      BY <1>type, <2>1, LastMoves
    <3>5. QED BY <2>1, <3>1, <3>2, <3>3, <3>4
  <2>3. QED BY <1>now, <1>goal, <2>1, <2>2
<1>7. CASE Take \/ OpenFinder \/ Search \/ TakeSearch \/ CloseFinder \/ (\E t \in sought : Found(t)) \/ Reconnect
  <2>1. UNCHANGED <<queries, frames, page, browser, queried>>
    BY <1>7 DEF Take, OpenFinder, Search, TakeSearch, CloseFinder, Found, Reconnect
  <2>2. QED BY <1>same, <2>1
<1>8. CASE LoseConnection
  <2>1. /\ UNCHANGED <<browser, page>> /\ queried'.last = queried.last /\ ~queried.lost
        /\ LastIs("search", queries, n, browser[n]) => LastIs("search", queries', n, browser[n])
        /\ NoneOf("search", queries') => queries' = queries /\ frames' = frames
    BY <1>8, ConnectionLost
  <2>2. /\ LastIs("search", queries, n, browser[n])
        /\ NoneOf("search", queries) => LastIs("rows", frames, n, browser[n])
        /\ NoneOf("search", queries) /\ NoneOf("rows", frames) =>
             page = [network |-> n, filter |-> browser[n]]
    BY <1>now, <2>1
  <2>3. CASE NoneOf("search", queries')
    BY <1>same, <2>1, <2>3
  <2>4. CASE ~NoneOf("search", queries')
    BY <1>goal, <2>1, <2>2, <2>4
  <2>5. QED BY <2>3, <2>4
<1>9. QED BY <1>1, <1>2, <1>3, <1>4, <1>5, <1>6, <1>7, <1>8 DEF Browses, Seeks

--------------------------------------------------------------------------------
(* Steps keep to the networks asked about, and a connection that is down to    *)
(* what it lost and what is queued.                                            *)
LEMMA LocalStep == BrowserTypes /\ Local /\ (Browses \/ Seeks) => Local'
<1> SUFFICES ASSUME BrowserTypes, Local, Browses \/ Seeks PROVE Local'
  OBVIOUS
<1> USE LookupsAssumption
<1>type. /\ linked \in BOOLEAN /\ listing \subseteq Networks
         /\ queries \in Seq(Verbs) /\ frames \in Seq(Answers) /\ taken \in 0..Len(queries)
         /\ queried \in [networks : SUBSET Networks, last : Networks \cup {Closed}, count : Nat, lost : BOOLEAN]
  BY DEF BrowserTypes
<1>now. /\ \A i \in DOMAIN queries : queries[i].network \in queried.networks
        /\ \A i \in DOMAIN frames : frames[i].network \in queried.networks
        /\ listing \subseteq queried.networks
        /\ ~linked => taken = 0 /\ (queried.lost \/ listing = {} \/ queries # <<>>)
  BY DEF Local
<1>same. UNCHANGED <<linked, listing, queries, taken, frames, queried>> => Local'
  BY DEF Local
<1>sent. ASSUME NEW verb \in Verbs, Sent(verb), UNCHANGED <<linked, listing, taken, frames>> PROVE Local'
  <2>1. /\ queries' = Append(queries, verb) /\ queries' # <<>>
        /\ queried'.networks = queried.networks \cup {verb.network}
    BY <1>sent, <1>type, SentVerb, LookupEnds
  <2>2. \A i \in DOMAIN queries' : queries'[i].network \in queried'.networks
    <3>1. /\ DOMAIN queries' = DOMAIN queries \cup {Len(queries) + 1} /\ queries'[Len(queries) + 1] = verb
          /\ \A i \in DOMAIN queries : queries'[i] = queries[i]
      BY <1>type, <2>1, LookupEnds
    <3>2. QED BY <1>now, <2>1, <3>1
  <2>3. \A i \in DOMAIN frames' : frames'[i].network \in queried'.networks
    BY <1>now, <1>sent, <2>1
  <2>4. QED BY <1>now, <1>sent, <2>1, <2>2, <2>3 DEF Local
<1>1. ASSUME NEW n \in Networks,
             OpenBrowser(n) \/ Refresh(n) \/ \E filter \in Filters : TypeFilter(n, filter)
      PROVE  Local'
  <2>1. PICK verb \in Verbs : Sent(verb) /\ UNCHANGED <<linked, listing, taken, frames>>
    <3>1. CASE Refresh(n)
      <4>1. [kind |-> "list", network |-> n] \in Verbs
        BY QueryIsVerb
      <4>2. QED BY <3>1, <4>1 DEF Refresh
    <3>2. CASE OpenBrowser(n) \/ \E filter \in Filters : TypeFilter(n, filter)
      <4>1. PICK f \in Filters : ChanlistSearch(n, f) /\ UNCHANGED <<linked, listing, taken, frames>>
        BY <3>2 DEF OpenBrowser, TypeFilter
      <4>2. [kind |-> "search", network |-> n, filter |-> f] \in Verbs
        BY QueryIsVerb
      <4>3. QED BY <4>1, <4>2 DEF ChanlistSearch
    <3>3. QED BY <1>1, <3>1, <3>2
  <2>2. QED BY <1>sent, <2>1
<1>2. ASSUME NEW n \in Networks, CloseBrowser(n) PROVE Local'
  BY <1>2, <1>same DEF CloseBrowser
<1>3. CASE Answer
  <2>1. /\ queries # <<>> /\ queries' = Tail(queries) /\ UNCHANGED <<linked, queried>>
        /\ Head(queries) \in Verbs /\ Head(queries).network \in queried.networks /\ linked
    <3>1. queries # <<>> /\ linked
      BY <1>3, <1>type, <1>now DEF Answer
    <3>2. QED BY <1>3, <1>type, <1>now, <3>1, LookupEnds DEF Answer
  <2>2. listing' \subseteq queried.networks
    <3>1. listing' \in {listing, listing \cup {Head(queries).network}}
      BY <1>3 DEF Answer
    <3>2. QED BY <1>now, <2>1, <3>1
  <2>3. PICK x \in Answers : frames' = Append(frames, x) /\ x.network = Head(queries).network
    <3>1. CASE Head(queries).kind = "search"
      <4> DEFINE x == [kind |-> "rows", network |-> Head(queries).network, filter |-> Head(queries).filter,
                       busy |-> Head(queries).network \in listing]
      <4>1. x \in Answers /\ x.network = Head(queries).network
        BY <2>1, <3>1 DEF Answers, Verbs
      <4>2. QED BY <1>3, <3>1, <4>1 DEF Answer
    <3>2. CASE Head(queries).kind # "search"
      <4>1. /\ Progress(Head(queries).network, TRUE) \in Answers
            /\ Progress(Head(queries).network, TRUE).network = Head(queries).network
        BY <2>1 DEF Answers, Verbs, Progress
      <4>2. QED BY <1>3, <3>2, <4>1 DEF Answer
    <3>3. QED BY <3>1, <3>2
  <2>4. \A i \in DOMAIN queries' : queries'[i].network \in queried.networks
    BY <1>type, <1>now, <2>1, LookupEnds
  <2>5. \A i \in DOMAIN frames' : frames'[i].network \in queried.networks
    <3>1. /\ DOMAIN frames' = DOMAIN frames \cup {Len(frames) + 1} /\ frames'[Len(frames) + 1] = x
          /\ \A i \in DOMAIN frames : frames'[i] = frames[i]
      BY <1>type, <2>3, LookupEnds
    <3>2. QED BY <1>now, <2>1, <2>3, <3>1
  <2>6. QED BY <1>now, <2>1, <2>2, <2>4, <2>5 DEF Local
<1>4. ASSUME NEW n \in Networks, ListEnds(n) PROVE Local'
  <2> DEFINE x == Progress(n, FALSE)
  <2>1. x \in Answers /\ x.network = n
    BY DEF Progress, Answers
  <2>2. /\ n \in listing /\ listing' = listing \ {n} /\ UNCHANGED <<linked, queries, taken, queried>>
        /\ frames' = IF linked THEN Append(frames, x) ELSE frames
    BY <1>4 DEF ListEnds
  <2> HIDE DEF x
  <2>3. \A i \in DOMAIN frames' : frames'[i].network \in queried.networks
    <3>1. CASE linked
      <4>1. /\ DOMAIN frames' = DOMAIN frames \cup {Len(frames) + 1} /\ frames'[Len(frames) + 1] = x
            /\ \A i \in DOMAIN frames : frames'[i] = frames[i]
        BY <1>type, <2>1, <2>2, <3>1, LookupEnds
      <4>2. QED BY <1>now, <2>1, <2>2, <4>1
    <3>2. QED BY <1>now, <2>2, <3>1
  <2>4. QED BY <1>now, <2>2, <2>3 DEF Local
<1>5. CASE Hear
  <2>1. frames # <<>> /\ frames' = Tail(frames) /\ UNCHANGED <<linked, listing, queries, taken, queried>>
    BY <1>5 DEF Hear
  <2>2. \A i \in DOMAIN frames' : frames'[i].network \in queried.networks
    BY <1>type, <1>now, <2>1, LookupEnds
  <2>3. QED BY <1>now, <2>1, <2>2 DEF Local
<1>6. CASE OpenFinder \/ Search \/ TakeSearch \/ CloseFinder \/ (\E t \in sought : Found(t))
  BY <1>6, <1>same DEF OpenFinder, Search, TakeSearch, CloseFinder, Found
<1>7. CASE Take \/ Reconnect
  BY <1>7, <1>now DEF Take, Reconnect, Local
<1>8. CASE LoseConnection
  <2>1. /\ taken' = 0 /\ UNCHANGED listing /\ queried'.networks = queried.networks
        /\ \A i \in DOMAIN queries' : i + taken \in DOMAIN queries /\ queries'[i] = queries[i + taken]
        /\ \A i \in DOMAIN frames' : i \in DOMAIN frames /\ frames'[i] = frames[i]
        /\ ~queried'.lost /\ NoneOf("search", queries') => listing = {}
    BY <1>8, ConnectionLost
  <2>2. queries' = <<>> => NoneOf("search", queries')
    BY DEF NoneOf
  <2>3. QED BY <1>now, <2>1, <2>2 DEF Local
<1>9. QED BY <1>1, <1>2, <1>3, <1>4, <1>5, <1>6, <1>7, <1>8 DEF Browses, Seeks

(* Steps keep the last answer true to what the server does. *)
LEMMA BusyStep == BrowserTypes /\ Local /\ BusyComes /\ (Browses \/ Seeks) => BusyComes'
<1> SUFFICES ASSUME BrowserTypes, Local, BusyComes, Browses \/ Seeks, NEW n \in Networks,
                    queried'.networks = {n}, ~queried'.lost, queries' = <<>>
             PROVE  /\ frames' # <<>> => (frames'[Len(frames')].busy <=> n \in listing')
                    /\ frames' = <<>> => (loading' <=> n \in listing')
  BY DEF BusyComes
<1> DEFINE Goal == /\ frames' # <<>> => (frames'[Len(frames')].busy <=> n \in listing')
                   /\ frames' = <<>> => (loading' <=> n \in listing')
<1> USE LookupsAssumption
<1>type. /\ linked \in BOOLEAN /\ listing \subseteq Networks
         /\ queries \in Seq(Verbs) /\ frames \in Seq(Answers) /\ taken \in 0..Len(queries)
         /\ queried \in [networks : SUBSET Networks, last : Networks \cup {Closed}, count : Nat, lost : BOOLEAN]
  BY DEF BrowserTypes
<1>now. queried.networks = {n} /\ ~queried.lost /\ queries = <<>> =>
          /\ frames # <<>> => (frames[Len(frames)].busy <=> n \in listing)
          /\ frames = <<>> => (loading <=> n \in listing)
  BY DEF BusyComes
<1>local. /\ \A i \in DOMAIN queries : queries[i].network \in queried.networks
          /\ \A i \in DOMAIN frames : frames[i].network \in queried.networks
          /\ listing \subseteq queried.networks
          /\ ~linked => taken = 0 /\ (queried.lost \/ listing = {} \/ queries # <<>>)
  BY DEF Local
<1>same. UNCHANGED <<frames, listing, queries, loading, queried>> => Goal
  BY <1>now
<1>1. ASSUME NEW m \in Networks,
             OpenBrowser(m) \/ Refresh(m) \/ \E filter \in Filters : TypeFilter(m, filter)
      PROVE  Goal
  <2>1. PICK verb \in Verbs : Sent(verb) /\ UNCHANGED <<linked, listing, frames>>
    <3>1. CASE Refresh(m)
      <4>1. [kind |-> "list", network |-> m] \in Verbs
        BY QueryIsVerb
      <4>2. QED BY <3>1, <4>1 DEF Refresh
    <3>2. CASE OpenBrowser(m) \/ \E filter \in Filters : TypeFilter(m, filter)
      <4>1. PICK f \in Filters : ChanlistSearch(m, f) /\ UNCHANGED <<linked, listing, frames>>
        BY <3>2 DEF OpenBrowser, TypeFilter
      <4>2. [kind |-> "search", network |-> m, filter |-> f] \in Verbs
        BY QueryIsVerb
      <4>3. QED BY <4>1, <4>2 DEF ChanlistSearch
    <3>3. QED BY <1>1, <3>1, <3>2
  <2>2. queries' = Append(queries, verb)
    BY <2>1, SentVerb
  <2>3. queries' # <<>>
    BY <1>type, <2>2, LookupEnds
  <2>4. QED BY <2>3
<1>2. ASSUME NEW m \in Networks, CloseBrowser(m) PROVE Goal
  BY <1>2, <1>same DEF CloseBrowser
<1>3. CASE Answer
  <2>1. /\ queries # <<>> /\ UNCHANGED queried /\ Head(queries) \in Verbs /\ Head(queries).network = n
    <3>1. queries # <<>> /\ UNCHANGED queried
      BY <1>3, <1>type DEF Answer
    <3>2. Head(queries) \in Verbs /\ Head(queries).network \in queried.networks
      BY <1>type, <1>local, <3>1, LookupEnds
    <3>3. QED BY <3>1, <3>2
  <2>2. PICK x \in Answers : frames' = Append(frames, x) /\ (x.busy <=> n \in listing')
    <3>1. CASE Head(queries).kind = "search"
      <4> DEFINE x == [kind |-> "rows", network |-> n, filter |-> Head(queries).filter,
                       busy |-> n \in listing]
      <4>1. x \in Answers /\ (x.busy <=> n \in listing)
        <5>1. Head(queries).filter \in Filters
          BY <2>1, <3>1 DEF Verbs
        <5>2. x \in Answers
          BY <5>1 DEF Answers
        <5>3. x.busy <=> n \in listing
          OBVIOUS
        <5>4. QED BY <5>2, <5>3
      <4>2. frames' = Append(frames, x) /\ listing' = listing
        BY <1>3, <2>1, <3>1 DEF Answer
      <4>3. QED BY <4>1, <4>2
    <3>2. CASE Head(queries).kind # "search"
      <4>1. Progress(n, TRUE) \in Answers /\ Progress(n, TRUE).busy = TRUE
        BY DEF Answers, Progress
      <4>2. frames' = Append(frames, Progress(n, TRUE)) /\ listing' = listing \cup {n}
        BY <1>3, <2>1, <3>2 DEF Answer
      <4>3. QED BY <4>1, <4>2
    <3>3. QED BY <3>1, <3>2
  <2>3. frames' # <<>> /\ Len(frames') = Len(frames) + 1 /\ frames'[Len(frames) + 1] = x
    BY <1>type, <2>2, LookupEnds
  <2>4. QED BY <2>2, <2>3
<1>4. ASSUME NEW m \in Networks, ListEnds(m) PROVE Goal
  <2> DEFINE x == Progress(m, FALSE)
  <2>1. x \in Answers /\ x.busy = FALSE
    BY DEF Progress, Answers
  <2>2. /\ m \in listing /\ listing' = listing \ {m} /\ UNCHANGED <<linked, queries, queried, loading>>
        /\ frames' = IF linked THEN Append(frames, x) ELSE frames
    BY <1>4 DEF ListEnds
  <2>3. m = n
    BY <1>local, <2>2
  <2> HIDE DEF x
  <2>4. CASE linked
    <3>1. frames' # <<>> /\ Len(frames') = Len(frames) + 1 /\ frames'[Len(frames) + 1] = x
      BY <1>type, <2>1, <2>2, <2>4, LookupEnds
    <3>2. QED BY <2>1, <2>2, <2>3, <3>1
  <2>5. CASE ~linked
    BY <1>local, <2>2, <2>5
  <2>6. QED BY <2>4, <2>5
<1>5. CASE Hear
  <2>1. /\ frames # <<>> /\ frames' = Tail(frames) /\ loading' = Head(frames).busy
        /\ UNCHANGED <<listing, queries, queried>>
    BY <1>5 DEF Hear
  <2>2. frames[Len(frames)].busy <=> n \in listing
    BY <1>now, <2>1
  <2>3. CASE Len(frames) = 1
    <3>1. frames' = <<>> /\ Head(frames) = frames[Len(frames)]
      BY <1>type, <2>1, <2>3
    <3>2. loading' <=> n \in listing
      BY <2>1, <2>2, <3>1, Zenon
    <3>3. QED BY <2>1, <3>1, <3>2
  <2>4. CASE Len(frames) # 1
    <3>1. frames' # <<>> /\ frames'[Len(frames')] = frames[Len(frames)]
      <4>1. /\ Len(frames) \in Nat /\ Len(frames) # 0 /\ Len(frames') = Len(frames) - 1
            /\ DOMAIN frames' = 1..(Len(frames) - 1)
            /\ \A i \in DOMAIN frames' : frames'[i] = frames[i + 1]
        BY <1>type, <2>1, LookupEnds
      <4>2. Len(frames) - 1 \in DOMAIN frames' /\ Len(frames) - 1 + 1 = Len(frames)
        BY <2>4, <4>1
      <4>3. frames'[Len(frames) - 1] = frames[Len(frames)] /\ frames' # <<>>
        BY <4>1, <4>2
      <4>4. QED BY <4>1, <4>3
    <3>2. QED BY <2>1, <2>2, <3>1
  <2>5. QED BY <2>3, <2>4
<1>6. CASE Take \/ OpenFinder \/ Search \/ TakeSearch \/ CloseFinder \/ (\E t \in sought : Found(t)) \/ Reconnect
  BY <1>6, <1>same DEF Take, OpenFinder, Search, TakeSearch, CloseFinder, Found, Reconnect
<1>7. CASE LoseConnection
  <2>1. NoneOf("search", queries')
    BY DEF NoneOf
  <2>2. /\ UNCHANGED <<listing, loading>> /\ queried'.networks = queried.networks /\ ~queried.lost
        /\ queries' = queries /\ frames' = frames
    BY <1>7, <2>1, ConnectionLost
  <2>3. QED BY <1>now, <2>2
<1>8. QED BY <1>1, <1>2, <1>3, <1>4, <1>5, <1>6, <1>7 DEF Browses, Seeks

(* Both windows show what was looked up last, however many networks' windows   *)
(* share the one page and the one "still fetching" (app.rs:465), and in         *)
(* whichever order the answers to searches come.                               *)
THEOREM LookedUpIsShown == Spec => []LookupAgrees
<1> DEFINE I == FinderInv /\ BrowserInv
<1>1. Init => I
  <2>1. SUFFICES ASSUME Init PROVE I
    OBVIOUS
  <2>2. /\ linked = TRUE /\ listing = {} /\ queries = <<>> /\ taken = 0 /\ frames = <<>> /\ loading = FALSE
        /\ browser = [n \in Networks |-> Closed]
        /\ queried = [networks |-> {}, last |-> Closed, count |-> 0, lost |-> FALSE]
        /\ token = 0 /\ sought = {} /\ reached = 0 /\ finder = [open |-> FALSE, last |-> 0, listed |-> 0]
    BY <2>1 DEF Init, LookupsInit
  <2>3. FinderInv
    BY <2>2 DEF FinderInv, FinderAgrees
  <2>4. BrowserTypes
    <3>1. queries \in Seq(Verbs) /\ frames \in Seq(Answers)
      <4>1. <<>> \in Seq(Verbs) /\ <<>> \in Seq(Answers)
        OBVIOUS
      <4>2. QED BY <2>2, <4>1, Zenon
    <3>2. taken \in 0..Len(queries)
      <4>1. Len(queries) = 0
        BY <2>2
      <4>2. QED BY <2>2, <4>1
    <3>3. QED BY <2>2, <3>1, <3>2 DEF BrowserTypes
  <2>5. PagesCome /\ BusyComes
    BY <2>2 DEF PagesCome, BusyComes
  <2>6. Local
    BY <2>2 DEF Local
  <2>7. QED BY <2>3, <2>4, <2>5, <2>6 DEF BrowserInv
<1>2. I /\ [Next]_screenVars => I'
  <2>1. [Next]_screenVars => Browses \/ Seeks \/ UNCHANGED lookupVars
    BY DEF Next, screenVars
  <2>2. I /\ UNCHANGED lookupVars => I'
    BY DEF lookupVars, FinderInv, FinderAgrees, BrowserInv, BrowserTypes, PagesCome, PageComing, LastIs,
           NoneOf, Local, BusyComes
  <2>3. I /\ (Browses \/ Seeks) => I'
    BY FinderStep, BrowserTypesStep, PagesStep, LocalStep, BusyStep DEF BrowserInv
  <2>4. QED BY <2>1, <2>2, <2>3
<1>3. I => LookupAgrees
  <2>1. SUFFICES ASSUME BrowserInv, NEW n \in Networks, browser[n] # Closed, queried.last = n,
                        ~queried.lost, queries = <<>>, frames = <<>>
                 PROVE  /\ page = [network |-> n, filter |-> browser[n]]
                        /\ queried.networks = {n} => loading = (n \in listing)
    BY DEF LookupAgrees, BrowserAgrees, FinderInv
  <2>2. NoneOf("search", queries) /\ NoneOf("rows", frames)
    BY <2>1 DEF NoneOf
  <2>3. page = [network |-> n, filter |-> browser[n]]
    BY <2>1, <2>2 DEF BrowserInv, PagesCome, PageComing
  <2>4. queried.networks = {n} => (loading <=> n \in listing)
    BY <2>1 DEF BrowserInv, BusyComes
  <2>5. loading \in BOOLEAN
    BY <2>1 DEF BrowserInv, BrowserTypes
  <2>6. QED BY <2>3, <2>4, <2>5
<1>4. QED BY <1>1, <1>2, <1>3, PTL DEF Spec

--------------------------------------------------------------------------------
(* The list is up to date, of a store whose pins are those of conversations    *)
(* that are there, and that knows of favourites if it has some.                *)
SidebarInv ==
  /\ store \in [held : SUBSET Keys, pins : SUBSET {Channel, Peer}, pinned : SUBSET {Channel, Peer},
                seeded : BOOLEAN, favorites : SUBSET {Channel, Peer}, contact : BOOLEAN,
                up : BOOLEAN, presence : Presences, joined : BOOLEAN, described : BOOLEAN,
                unread : [Keys -> {0, 1}]]
  /\ store.pinned = store.pins \cap store.held
  /\ store.favorites # {} => store.seeded
  /\ UpToDate


--------------------------------------------------------------------------------
\* Rows that differ in whether they are shown as left, with that put aside
LEMMA BareRow ==
  ASSUME NEW t, NEW k, NEW u, NEW d, NEW p, NEW q1, NEW r1, NEW r2,
         r1 = [title |-> t, key |-> k, unread |-> u, dot |-> d, parted |-> p],
         r2 = [title |-> t, key |-> k, unread |-> u, dot |-> d, parted |-> q1]
  PROVE  [r1 EXCEPT !.parted = FALSE] = [r2 EXCEPT !.parted = FALSE]
<1>1. ASSUME NEW f PROVE [r1 EXCEPT !.parted = f] = [r2 EXCEPT !.parted = f]
  BY SMT
<1>2. QED BY <1>1, Zenon

(* The list against one made of any store *)
Same(st, fold, act, list) ==
  LET now == List(st, fold, act)
      Plain(rows) == {[r EXCEPT !.parted = IF act = Channel THEN FALSE ELSE @] : r \in rows}
  IN /\ list.heads = now.heads /\ list.selected = now.selected
     /\ Plain(list.rows) = Plain(now.rows)

LEMMA UpToDateIsSame == /\ UpToDate <=> Same(store, folded, active, shown)
                        /\ UpToDate' <=> Same(store', folded', active', shown')
                        /\ \A st, fold, act : Same(st, fold, act, List(st, fold, act))
<1>1. /\ UpToDate <=> Same(store, folded, active, shown)
      /\ UpToDate' <=> Same(store', folded', active', shown')
  BY DEF UpToDate, Same
<1>2. ASSUME NEW st, NEW fold, NEW act PROVE Same(st, fold, act, List(st, fold, act))
  BY DEF Same
<1>3. QED BY <1>1, <1>2

(* What is made from the store is made again, unless nothing of it changed or   *)
(* the channel that is shown was left.                                         *)
LEMMA RelistedOrSame ==
  ASSUME UpToDate, NEW s, NEW events, Becomes(s, events),
         \/ \E e \in events : Relists(e[1], e[2])
         \/ s = store
         \/ s = [store EXCEPT !.joined = FALSE] /\ active = Channel
  PROVE  UpToDate'
<1>1. store' = s /\ UNCHANGED <<active, folded>>
      /\ shown' = IF \E e \in events : Relists(e[1], e[2]) THEN List(s, folded, active) ELSE shown
  BY DEF Becomes
<1>2. CASE \E e \in events : Relists(e[1], e[2])
  BY <1>1, <1>2, UpToDateIsSame
<1>3. CASE ~(\E e \in events : Relists(e[1], e[2])) /\ s = store
  BY <1>1, <1>3, UpToDateIsSame
<1>4. CASE ~(\E e \in events : Relists(e[1], e[2])) /\ s = [store EXCEPT !.joined = FALSE] /\ active = Channel
  <2> DEFINE Made(st) == UNION {{RowOf(st, t, k) : k \in Under(st, t)} : t \in Listed(st) \ folded}
             Unleft(r) == [r EXCEPT !.parted = FALSE]
             Barely(st) == {Unleft(r) : r \in Made(st)}
  <2>1. s.held = store.held /\ s.pins = store.pins /\ s.pinned = store.pinned /\ s.seeded = store.seeded
        /\ s.favorites = store.favorites /\ s.contact = store.contact /\ s.up = store.up
        /\ s.presence = store.presence /\ s.unread = store.unread
    BY <1>4
  <2>2. /\ \A t : Under(s, t) = Under(store, t)
        /\ \A k : UnreadOf(s, k) = UnreadOf(store, k)
        /\ PresenceOf(s) = PresenceOf(store)
    BY <2>1 DEF Under, Friends, UnreadOf, PresenceOf
  <2>3. Listed(s) = Listed(store) /\ \A t : HeadOf(s, folded, t) = HeadOf(store, folded, t)
    BY <2>1, <2>2 DEF Listed, HeadOf
  <2>4. \A t, k : Unleft(RowOf(s, t, k)) = Unleft(RowOf(store, t, k))
    <3>1. SUFFICES ASSUME NEW t, NEW k PROVE Unleft(RowOf(s, t, k)) = Unleft(RowOf(store, t, k))
      OBVIOUS
    <3> DEFINE u(st) == UnreadOf(st, k)
               d(st) == IF t = "FRIENDS" THEN PresenceOf(st) ELSE None
               p(st) == k = Channel /\ k \in st.held /\ ~st.joined
    <3>2. \A st : RowOf(st, t, k)
                   = [title |-> t, key |-> k, unread |-> u(st), dot |-> d(st), parted |-> p(st)]
      BY DEF RowOf
    <3>3. u(s) = u(store) /\ d(s) = d(store)
      BY <2>2
    <3> HIDE DEF u, d, p
    <3>4. RowOf(s, t, k) = [title |-> t, key |-> k, unread |-> u(store), dot |-> d(store), parted |-> p(s)]
      BY <3>2, <3>3
    <3>5. RowOf(store, t, k)
            = [title |-> t, key |-> k, unread |-> u(store), dot |-> d(store), parted |-> p(store)]
      BY <3>2
    <3>6. [RowOf(s, t, k) EXCEPT !.parted = FALSE] = [RowOf(store, t, k) EXCEPT !.parted = FALSE]
      BY <3>4, <3>5, BareRow
    <3>7. QED BY <3>6 DEF Unleft
  <2>5. \A t, k : RowOf(s, t, k).key = k /\ RowOf(store, t, k).key = k
    BY DEF RowOf
  <2>6. \A st : \A r : r \in Made(st) <=> \E t \in Listed(st) \ folded : \E k \in Under(st, t) : r = RowOf(st, t, k)
    OBVIOUS
  <2> HIDE DEF Made, Unleft
  <2>7. Barely(s) = Barely(store)
    <3>1. ASSUME NEW x PROVE x \in Barely(s) <=> x \in Barely(store)
      <4>1. x \in Barely(s) <=> \E t \in Listed(s) \ folded : \E k \in Under(s, t) : x = Unleft(RowOf(s, t, k))
        BY <2>6
      <4>2. x \in Barely(store) <=>
              \E t \in Listed(store) \ folded : \E k \in Under(store, t) : x = Unleft(RowOf(store, t, k))
        BY <2>6
      <4>3. QED BY <2>2, <2>3, <2>4, <4>1, <4>2
    <3>2. QED BY <3>1
  <2>8. Selected(Made(s), active) = Selected(Made(store), active)
    <3>1. (\E r \in Made(s) : r.key = active) <=> (\E r \in Made(store) : r.key = active)
      BY <2>2, <2>3, <2>5, <2>6
    <3>2. QED BY <3>1 DEF Selected
  <2>9. \A st : /\ List(st, folded, active).rows = Made(st)
                /\ List(st, folded, active).selected = Selected(Made(st), active)
                /\ List(st, folded, active).heads = {HeadOf(st, folded, t) : t \in Listed(st)}
    BY DEF List, Made
  <2>10. {HeadOf(s, folded, t) : t \in Listed(s)} = {HeadOf(store, folded, t) : t \in Listed(store)}
    BY <2>3
  <2>11. /\ shown.heads = List(store, folded, active).heads
         /\ shown.selected = List(store, folded, active).selected
         /\ {Unleft(r) : r \in shown.rows} = {Unleft(r) : r \in List(store, folded, active).rows}
    BY <1>4, UpToDateIsSame DEF Same, Unleft
  <2>12. /\ shown.heads = List(s, folded, active).heads
         /\ shown.selected = List(s, folded, active).selected
         /\ {Unleft(r) : r \in shown.rows} = {Unleft(r) : r \in List(s, folded, active).rows}
    BY <2>7, <2>8, <2>9, <2>10, <2>11
  <2>13. store' = s /\ shown' = shown /\ active' = active /\ folded' = folded
    BY <1>1, <1>4
  <2>14. Same(s, folded, active, shown)
    BY <1>4, <2>12 DEF Same, Unleft
  <2>15. QED BY <2>13, <2>14, UpToDateIsSame
<1>5. QED BY <1>2, <1>3, <1>4

(* Steps keep the list up to date. *)
LEMMA SidebarStep == SidebarInv /\ SidebarNext => SidebarInv'
<1> SUFFICES ASSUME SidebarInv, SidebarNext PROVE SidebarInv'
  OBVIOUS
<1> DEFINE S == [held : SUBSET Keys, pins : SUBSET {Channel, Peer}, pinned : SUBSET {Channel, Peer},
                 seeded : BOOLEAN, favorites : SUBSET {Channel, Peer}, contact : BOOLEAN,
                 up : BOOLEAN, presence : Presences, joined : BOOLEAN, described : BOOLEAN,
                 unread : [Keys -> {0, 1}]]
           Good(s) == /\ s \in S /\ s.pinned = s.pins \cap s.held
                      /\ s.favorites # {} => s.seeded
<1>now. Good(store) /\ UpToDate
  BY DEF SidebarInv
<1>becomes. ASSUME NEW s, NEW events, Becomes(s, events), Good(s),
                   \/ \E e \in events : Relists(e[1], e[2])
                   \/ s = store
                   \/ s = [store EXCEPT !.joined = FALSE] /\ active = Channel
            PROVE  SidebarInv'
  <2>1. UpToDate'
    BY <1>now, <1>becomes, RelistedOrSame
  <2>2. store' = s
    BY <1>becomes DEF Becomes
  <2>3. QED BY <1>becomes, <2>1, <2>2 DEF SidebarInv
<1>loud. \A e \in {<<"network", None>>, <<"presence", None>>, <<"list", None>>, <<"favorites", None>>,
                   <<"contacts", None>>} : Relists(e[1], e[2])
  BY DEF Relists
<1>read. \A k : Relists("read", k) /\ Relists("list", k)
  BY DEF Relists
<1> USE DEF Keys, Channel, Peer, Log
<1>1. CASE NetworkSnapshot
  <2>1. PICK up \in BOOLEAN, described \in BOOLEAN, pins \in SUBSET {Channel, Peer}, p \in Presences :
          Becomes([store EXCEPT !.up = up, !.pins = pins, !.pinned = pins \cap store.held, !.presence = p,
                                !.described = @ \/ described,
                                !.joined = @ \/ (described /\ Channel \in store.held)],
                  {<<"network", None>>})
    BY <1>1 DEF NetworkSnapshot
  <2> DEFINE s == [store EXCEPT !.up = up, !.pins = pins, !.pinned = pins \cap store.held, !.presence = p,
                                !.described = @ \/ described,
                                !.joined = @ \/ (described /\ Channel \in store.held)]
  <2>2. Good(s)
    BY ZenonT(40), <1>now
  <2> HIDE DEF s, Good
  <2>3. QED BY <1>becomes, <1>loud, <2>1, <2>2 DEF s
<1>signal. ASSUME NEW s, Good(s),
                  NEW e \in {<<"network", None>>, <<"presence", None>>, <<"list", None>>,
                             <<"favorites", None>>, <<"contacts", None>>},
                  Becomes(s, {e})
           PROVE  SidebarInv'
  <2> HIDE DEF Good
  <2>1. \E x \in {e} : Relists(x[1], x[2])
    BY <1>loud
  <2>2. QED BY <1>becomes, <1>signal, <2>1
<1>2. CASE State \/ PeerPresence \/ PinsChanged \/ FavoritesChanged \/ ContactsChanged
  <2>1. CASE State
    <3>1. Good([store EXCEPT !.up = ~@])
      BY <1>now
    <3>2. Becomes([store EXCEPT !.up = ~@], {<<"network", None>>})
      BY <2>1 DEF State
    <3> HIDE DEF Good
    <3>3. QED BY <1>signal, <3>1, <3>2
  <2>2. CASE PeerPresence
    <3>1. PICK p \in Presences : Becomes([store EXCEPT !.presence = p], {<<"presence", None>>})
      BY <2>2 DEF PeerPresence
    <3>2. Good([store EXCEPT !.presence = p])
      BY <1>now
    <3> HIDE DEF Good
    <3>3. QED BY <1>signal, <3>1, <3>2
  <2>3. CASE PinsChanged
    <3>1. PICK pins \in SUBSET {Channel, Peer} :
            Becomes([store EXCEPT !.pins = pins, !.pinned = pins \cap store.held], {<<"list", None>>})
      BY <2>3 DEF PinsChanged
    <3>2. Good([store EXCEPT !.pins = pins, !.pinned = pins \cap store.held])
      BY <1>now
    <3> HIDE DEF Good
    <3>3. QED BY <1>signal, <3>1, <3>2
  <2>4. CASE FavoritesChanged
    <3>1. PICK favorites \in SUBSET {Channel, Peer} :
            Becomes([store EXCEPT !.favorites = favorites, !.seeded = TRUE], {<<"favorites", None>>})
      BY <2>4 DEF FavoritesChanged
    <3>2. Good([store EXCEPT !.favorites = favorites, !.seeded = TRUE])
      BY <1>now
    <3> HIDE DEF Good
    <3>3. QED BY <1>signal, <3>1, <3>2
  <2>5. CASE ContactsChanged
    <3>1. Good([store EXCEPT !.contact = ~@])
      BY <1>now
    <3>2. Becomes([store EXCEPT !.contact = ~@], {<<"contacts", None>>})
      BY <2>5 DEF ContactsChanged
    <3> HIDE DEF Good
    <3>3. QED BY <1>signal, <3>1, <3>2
  <2>6. QED BY <1>2, <2>1, <2>2, <2>3, <2>4, <2>5
<1>touched. ASSUME NEW k \in Keys
            PROVE  /\ Good(Touched(store, k)) /\ Touched(store, k).unread = [store.unread EXCEPT ![k] = IF k \in store.held THEN @ ELSE 0]
                   /\ \A b \in BOOLEAN : Good([Touched(store, k) EXCEPT !.joined = IF k = Channel THEN b ELSE @])
                   /\ k \in store.held => Touched(store, k) = store
                   /\ Good([Touched(store, k) EXCEPT !.joined = TRUE])
  <2>1. /\ store \in S /\ store.pinned = store.pins \cap store.held
        /\ store.favorites # {} => store.seeded
    BY <1>now
  <2> DEFINE s == Touched(store, k)
             u == [store.unread EXCEPT ![k] = IF k \in store.held THEN @ ELSE 0]
             j == IF k = Channel /\ k \notin store.held THEN store.described ELSE store.joined
             p == IF k \in store.pins THEN store.pinned \cup {k} ELSE store.pinned
  <2>2. s = [store EXCEPT !.held = @ \cup {k}, !.pinned = p, !.unread = u, !.joined = j]
    BY <2>1 DEF Touched
  <2>3. u \in [Keys -> {0, 1}] /\ j \in BOOLEAN /\ p \in SUBSET {Channel, Peer}
        /\ p = store.pins \cap (store.held \cup {k})
        /\ (k \in store.held => u = store.unread /\ j = store.joined /\ p = store.pinned)
    BY <2>1
  <2> HIDE DEF u, j, p, s
  <2>4. s \in S /\ s.pinned = s.pins \cap s.held /\ (s.favorites # {} => s.seeded) /\ s.unread = u
    BY <2>1, <2>2, <2>3
  <2>5. k \in store.held => s = store
    <3>1. SUFFICES ASSUME k \in store.held PROVE s = store
      OBVIOUS
    <3>2. store.held \cup {k} = store.held /\ u = store.unread /\ j = store.joined /\ p = store.pinned
      BY <2>3, <3>1
    <3>3. s = [store EXCEPT !.held = store.held, !.pinned = store.pinned, !.unread = store.unread,
                            !.joined = store.joined]
      BY <2>1, <2>2, <3>2
    <3>4. QED BY <2>1, <3>3
  <2>6. \A b \in BOOLEAN : Good([s EXCEPT !.joined = b])
    BY <2>4
  <2>7. \A b \in BOOLEAN : Good([s EXCEPT !.joined = IF k = Channel THEN b ELSE @])
    BY <2>4
  <2>8. Good(s)
    BY <2>4
  <2>9. QED BY <2>4, <2>5, <2>6, <2>7, <2>8 DEF s, u
<1>3. ASSUME NEW k \in Keys, Backlog(k) PROVE SidebarInv'
  <2>1. PICK b \in BOOLEAN : Becomes([Touched(store, k) EXCEPT !.joined = IF k = Channel THEN b ELSE @],
                                     {<<"changed", k>>, <<"read", k>>})
    BY <1>3 DEF Backlog
  <2> DEFINE s == [Touched(store, k) EXCEPT !.joined = IF k = Channel THEN b ELSE @]
  <2> HIDE DEF Good
  <2>2. Good(s)
    BY <1>touched
  <2>3. Becomes(s, {<<"changed", k>>, <<"read", k>>})
    BY <2>1
  <2> HIDE DEF s
  <2>4. QED BY <1>becomes, <1>read, <2>2, <2>3
<1>4. ASSUME NEW k \in Keys, BufferClosed(k) PROVE SidebarInv'
  <2> DEFINE s == [store EXCEPT !.held = @ \ {k}, !.pinned = @ \ {k}]
  <2>1. Becomes(s, {<<"list", None>>})
    BY <1>4 DEF BufferClosed
  <2>2. Good(s)
    BY <1>now
  <2> HIDE DEF s, Good
  <2>3. QED BY <1>becomes, <1>read, <2>1, <2>2
<1>5. ASSUME NEW k \in Keys, Irc(k) PROVE SidebarInv'
  <2> DEFINE s == Touched(store, k)
             more == IF k \in store.held THEN {} ELSE {<<"list", None>>}
  <2>1. Becomes(s, {<<"changed", k>>} \cup more)
    BY <1>5 DEF Irc
  <2> HIDE DEF Good
  <2>2. Good(s) /\ (k \in store.held => s = store) /\ (k \notin store.held => <<"list", None>> \in more)
    BY <1>touched
  <2> HIDE DEF s, more
  <2>3. QED BY <1>becomes, <1>read, <2>1, <2>2
<1>6. CASE ChannelJoined
  <2> DEFINE s == [Touched(store, Channel) EXCEPT !.joined = TRUE]
  <2>1. Becomes(s, {<<"list", None>>, <<"changed", Channel>>})
    BY <1>6 DEF ChannelJoined
  <2> HIDE DEF Good
  <2>2. Good(s)
    <3>1. \A k \in Keys : Good([Touched(store, k) EXCEPT !.joined = TRUE])
      BY <1>touched
    <3>2. QED BY <3>1
  <2> HIDE DEF s
  <2>3. QED BY <1>becomes, <1>read, <2>1, <2>2
<1>7. CASE ChannelParted
  <2> DEFINE s == [store EXCEPT !.joined = FALSE]
  <2>1. Becomes(s, {<<"changed", Channel>>})
    BY <1>7 DEF ChannelParted
  <2>2. Good(s)
    BY <1>now
  <2>3. Relists("changed", Channel) \/ active = Channel
    BY DEF Relists
  <2> HIDE DEF Good
  <2>4. QED BY <1>becomes, <2>1, <2>2, <2>3
<1>8. ASSUME NEW k \in Keys, ReadState(k) PROVE SidebarInv'
  <2> DEFINE s == [store EXCEPT !.unread[k] = 1 - @]
  <2>1. Becomes(s, {<<"read", k>>})
    BY <1>8 DEF ReadState
  <2>2. Good(s)
    <3>1. [store.unread EXCEPT ![k] = 1 - @] \in [Keys -> {0, 1}]
      BY <1>now
    <3>2. s = [store EXCEPT !.unread = [store.unread EXCEPT ![k] = 1 - @]]
      BY <1>now
    <3>3. QED BY <1>now, <3>1, <3>2
  <2> HIDE DEF s, Good
  <2>3. QED BY <1>becomes, <1>read, <2>1, <2>2
<1>9. ASSUME NEW k \in Keys, Activate(k) PROVE SidebarInv'
  <2>1. shown' = List(store, folded, active') /\ UNCHANGED <<store, folded>>
    BY <1>9 DEF Activate
  <2>2. UpToDate'
    BY <2>1, UpToDateIsSame
  <2>3. QED BY <1>now, <2>1, <2>2 DEF SidebarInv
<1>10. ASSUME NEW title \in Titles, Fold(title) PROVE SidebarInv'
  <2>1. shown' = List(store, folded', active) /\ UNCHANGED <<store, active>>
    BY <1>10 DEF Fold
  <2>2. UpToDate'
    BY <2>1, UpToDateIsSame
  <2>3. QED BY <1>now, <2>1, <2>2 DEF SidebarInv
<1>11. QED
  BY <1>1, <1>2, <1>3, <1>4, <1>5, <1>6, <1>7, <1>8, <1>9, <1>10 DEF SidebarNext

(* Every conversation is in one section, but for a contact's.                 *)
LEMMA OneSection ==
  ASSUME SidebarInv, NEW k \in store.held
  PROVE  \/ Cardinality({t \in Titles : k \in Under(store, t)}) = 1
         \/ k = Peer /\ store.contact /\ (k \in store.pinned \/ store.seeded)
<1>inv. /\ store.held \subseteq Keys /\ store.pinned \subseteq {Channel, Peer}
        /\ store.favorites \subseteq {Channel, Peer} /\ (store.favorites # {} => store.seeded)
        /\ store.contact \in BOOLEAN /\ store.seeded \in BOOLEAN
  BY DEF SidebarInv
<1> DEFINE U == {t \in Titles : k \in Under(store, t)}
<1>1. SUFFICES ASSUME ~(k = Peer /\ store.contact /\ (k \in store.pinned \/ store.seeded))
               PROVE  \E t : U = {t}
  BY FS_Singleton
<1>2. /\ "FRIENDS" \in U <=> k = Peer /\ (IF store.seeded THEN k \in store.favorites ELSE store.contact)
      /\ "FAVORITES" \in U <=> k = Channel /\ store.seeded /\ k \in store.favorites
      /\ "PINNED" \in U <=> k \in store.pinned /\ k \notin store.favorites
      /\ "DIRECT MESSAGES" \in U <=> k = Peer /\ k \notin store.pinned /\ k \notin store.favorites /\ ~store.contact
      /\ "NETWORK" \in U <=> k # Peer /\ k \notin store.pinned /\ k \notin store.favorites
      /\ U \subseteq Titles
  BY DEF Under, Friends, Titles, Channel, Peer
<1> HIDE DEF U
<1>3. CASE k = Log
  <2>1. U = {"NETWORK"}
    BY <1>inv, <1>2, <1>3 DEF Titles, Log, Channel, Peer
  <2>2. QED BY <2>1
<1>4. CASE k = Channel
  <2>1. U = {"FAVORITES"} \/ U = {"PINNED"} \/ U = {"NETWORK"}
    BY <1>inv, <1>2, <1>4 DEF Titles, Log, Channel, Peer
  <2>2. QED BY <2>1
<1>5. CASE k = Peer
  <2>1. U = {"FRIENDS"} \/ U = {"PINNED"} \/ U = {"DIRECT MESSAGES"}
    BY <1>inv, <1>1, <1>2, <1>5 DEF Titles, Log, Channel, Peer
  <2>2. QED BY <2>1
<1>6. QED BY <1>inv, <1>3, <1>4, <1>5 DEF Keys

(* The list of conversations is the one that the store would give now, though   *)
(* it is made again for some signals only, and each conversation is in one      *)
(* section of it (window.rs:2163, :2187).                                       *)
THEOREM SidebarIsRight == Spec => []SidebarAgrees
<1>1. Init => SidebarInv
  <2>1. SUFFICES ASSUME Init PROVE SidebarInv
    OBVIOUS
  <2>2. /\ store \in [held : {{Log, Channel, Peer}}, pins : {{}}, pinned : {{}}, seeded : {FALSE},
                      favorites : {{}}, contact : BOOLEAN, up : {TRUE}, presence : {"unknown"},
                      joined : {TRUE}, described : {FALSE}, unread : {[k \in Keys |-> 0]}]
        /\ shown = List(store, folded, active)
    BY <2>1 DEF Init, SidebarInit
  <2>3. UpToDate
    BY <2>2, UpToDateIsSame
  <2>4. [k \in Keys |-> 0] \in [Keys -> {0, 1}] /\ {Log, Channel, Peer} = Keys
    BY DEF Keys
  <2>5. QED BY <2>2, <2>3, <2>4 DEF SidebarInv, Presences
<1>2. SidebarInv /\ [Next]_screenVars => SidebarInv'
  <2>1. [Next]_screenVars => SidebarNext \/ UNCHANGED sidebarVars
    BY DEF Next, screenVars
  <2>2. SidebarInv /\ UNCHANGED sidebarVars => SidebarInv'
    BY UpToDateIsSame DEF SidebarInv, sidebarVars
  <2>3. QED BY <2>1, <2>2, SidebarStep
<1>3. SidebarInv => SidebarAgrees
  <2>1. SidebarInv => UpToDate
    BY DEF SidebarInv
  <2>2. QED BY <2>1, OneSection DEF SidebarAgrees
<1>4. QED BY <1>1, <1>2, <1>3, PTL DEF Spec

--------------------------------------------------------------------------------
(* Completion *)

\* What words are made of
Spellings == {"", "p", "pasted", "an", "old", "line", "ping", "part", "pub", "pets", "pia", "paul"}
Words == [sigil : {"", "/", "#"}, name : Spellings, tail : {"", ":"}]

\* A cycle's candidates are those of the word that it began with, and until the
\* line is changed it is what the current one makes of the line then, with the
\* cursor behind it.
Begun ==
  /\ cycle = [anchor |-> cycle.anchor, values |-> cycle.values, index |-> cycle.index]
  /\ cycle.index \in DOMAIN cycle.values /\ cycle.values = Candidates(origin.line, origin.at)
  /\ origin.line \in Seq(Words) /\ origin.at \in DOMAIN origin.line
  /\ cycle.anchor = origin.at
Lapped ==
  /\ at = origin.at + 1
  /\ line = Laps \/ (origin.at = 1 /\ Kind(origin.line, 1) # "Nick")
LineTypes ==
  line \in Seq(Words) /\ at \in DOMAIN line /\ strayed \in BOOLEAN /\ chips \in Seq(Spellings)
CycleInv == LineTypes /\ (cycle = NoCycle \/ (Begun /\ (~strayed => Lapped)))

--------------------------------------------------------------------------------
\* A line with two words put into it
LEMMA Spliced ==
  ASSUME NEW S, NEW p \in Seq(S), NEW x \in S, NEW y \in S, NEW t \in Seq(S), NEW l,
         l = p \o <<x, y>> \o t
  PROVE  /\ l \in Seq(S) /\ Len(l) = Len(p) + 2 + Len(t) /\ l[Len(p) + 2] = y
         /\ SubSeq(l, 1, Len(p)) = p /\ SubSeq(l, Len(p) + 3, Len(l)) = t
<1>1. <<x, y>> \in Seq(S) /\ Len(<<x, y>>) = 2
  OBVIOUS
<1>2. p \o <<x, y>> \in Seq(S) /\ Len(p \o <<x, y>>) = Len(p) + 2
  BY <1>1
<1>3. l \in Seq(S) /\ Len(l) = Len(p) + 2 + Len(t)
  BY <1>2
<1>4. l[Len(p) + 2] = y
  BY <1>1, <1>2, <1>3
<1>5. SubSeq(l, 1, Len(p)) = p
  <2>1. SubSeq(l, 1, Len(p)) \in Seq(S) /\ Len(SubSeq(l, 1, Len(p))) = Len(p)
    BY <1>3
  <2>2. \A i \in 1..Len(p) : SubSeq(l, 1, Len(p))[i] = p[i]
    BY <1>1, <1>2, <1>3
  <2>3. QED BY <2>1, <2>2
<1>6. SubSeq(l, Len(p) + 3, Len(l)) = t
  <2>1. SubSeq(l, Len(p) + 3, Len(l)) \in Seq(S) /\ Len(SubSeq(l, Len(p) + 3, Len(l))) = Len(t)
    BY <1>3
  <2>2. \A i \in 1..Len(t) : SubSeq(l, Len(p) + 3, Len(l))[i] = t[i]
    BY <1>1, <1>2, <1>3
  <2>3. QED BY <2>1, <2>2
<1>7. QED BY <1>3, <1>4, <1>5, <1>6

\* What may be completed, and with what
LEMMA CandidatesAre ==
  ASSUME NEW l \in Seq(Words), NEW pos \in DOMAIN l
  PROVE  /\ Candidates(l, pos) \in Seq(Spellings)
         /\ Kind(l, pos) \in {"Command", "Channel", "Nick"}
         /\ Kind(l, pos) = "Command" => pos = 1
         /\ Kind(l, pos) = "Channel" =>
              \A i \in DOMAIN Candidates(l, pos) : Candidates(l, pos)[i] \in {"pub", "pets"}
<1>1. Kind(l, pos) \in {"Command", "Channel", "Nick"} /\ (Kind(l, pos) = "Command" => pos = 1)
  BY DEF Kind
<1>2. l[pos].name \in Spellings
  <2>1. l[pos] \in Words
    OBVIOUS
  <2>2. QED BY <2>1 DEF Words
<1>3. ASSUME NEW vs \in Seq(Spellings), \A i \in DOMAIN vs : vs[i] \notin {"", "p"}
      PROVE  /\ Beginning(l[pos], vs) \in Seq(Spellings)
             /\ \A i \in DOMAIN Beginning(l[pos], vs) :
                  \E j \in DOMAIN vs : Beginning(l[pos], vs)[i] = vs[j]
  <2>1. CASE Beginning(l[pos], vs) = vs
    BY <2>1
  <2>2. CASE /\ Beginning(l[pos], vs) = <<l[pos].name>> /\ \E i \in DOMAIN vs : vs[i] = l[pos].name
    BY <1>2, <2>2
  <2>3. CASE Beginning(l[pos], vs) = <<>>
    BY <2>3
  <2>4. Beginning(l[pos], vs) = vs \/ Beginning(l[pos], vs) = <<>>
        \/ (Beginning(l[pos], vs) = <<l[pos].name>> /\ \E i \in DOMAIN vs : vs[i] = l[pos].name)
    <3>1. CASE l[pos].tail = "" /\ l[pos].name \in {"", "p"}
      <4>1. Beginning(l[pos], vs) = vs
        <5>1. ~(l[pos].tail = "" /\ \E i \in DOMAIN vs : vs[i] = l[pos].name)
          BY <1>3, <3>1
        <5>2. QED BY <3>1, <5>1 DEF Beginning
      <4>2. QED BY <4>1
    <3>2. CASE /\ ~(l[pos].tail = "" /\ l[pos].name \in {"", "p"})
               /\ l[pos].tail = "" /\ \E i \in DOMAIN vs : vs[i] = l[pos].name
      BY <3>2 DEF Beginning
    <3>3. CASE /\ ~(l[pos].tail = "" /\ l[pos].name \in {"", "p"})
               /\ ~(l[pos].tail = "" /\ \E i \in DOMAIN vs : vs[i] = l[pos].name)
      BY <3>3 DEF Beginning
    <3>4. QED BY <3>1, <3>2, <3>3
  <2>5. QED BY <2>1, <2>2, <2>3, <2>4
<1>4. /\ Known \in Seq(Spellings) /\ Channels \in Seq(Spellings) /\ Names \in Seq(Spellings)
      /\ \A i \in DOMAIN Known : Known[i] \notin {"", "p"}
      /\ \A i \in DOMAIN Channels : Channels[i] \notin {"", "p"}
      /\ \A i \in DOMAIN Names : Names[i] \notin {"", "p"}
  <2>1. Known \in Seq(Spellings) /\ Channels \in Seq(Spellings) /\ Names \in Seq(Spellings)
    BY DEF Known, Channels, Names, Spellings
  <2>2. \A i \in DOMAIN Known : Known[i] \notin {"", "p"}
    <3>1. \A i \in DOMAIN Known : Known[i] \in {"ping", "part"}
      BY DEF Known
    <3>2. QED BY <3>1
  <2>3. \A i \in DOMAIN Channels : Channels[i] \notin {"", "p"}
    <3>1. \A i \in DOMAIN Channels : Channels[i] \in {"pub", "pets"}
      BY DEF Channels
    <3>2. QED BY <3>1
  <2>4. \A i \in DOMAIN Names : Names[i] \notin {"", "p"}
    <3>1. \A i \in DOMAIN Names : Names[i] \in {"pia", "paul"}
      BY DEF Names
    <3>2. QED BY <3>1
  <2>5. QED BY <2>1, <2>2, <2>3, <2>4
<1>5. \A i \in DOMAIN Channels : Channels[i] \in {"pub", "pets"}
  BY DEF Channels
<1>6. <<>> \in Seq(Spellings)
  OBVIOUS
<1>7. Candidates(l, pos) \in {<<>>, Beginning(l[pos], Known), Beginning(l[pos], Channels), Beginning(l[pos], Names)}
  BY Zenon DEF Candidates
<1>8. Candidates(l, pos) \in Seq(Spellings)
  <2>1. /\ Beginning(l[pos], Known) \in Seq(Spellings) /\ Beginning(l[pos], Channels) \in Seq(Spellings)
        /\ Beginning(l[pos], Names) \in Seq(Spellings)
    <3>1. Beginning(l[pos], Known) \in Seq(Spellings)
      BY <1>3, <1>4
    <3>2. Beginning(l[pos], Channels) \in Seq(Spellings)
      BY <1>3, <1>4
    <3>3. Beginning(l[pos], Names) \in Seq(Spellings)
      BY <1>3, <1>4
    <3>4. QED BY <3>1, <3>2, <3>3
  <2>2. QED BY Zenon, <1>6, <1>7, <2>1
<1>9. ASSUME Kind(l, pos) = "Channel"
      PROVE  \A i \in DOMAIN Candidates(l, pos) : Candidates(l, pos)[i] \in {"pub", "pets"}
  <2>1. Candidates(l, pos) \in {<<>>, Beginning(l[pos], Channels)}
    BY <1>9 DEF Candidates
  <2>2. CASE Candidates(l, pos) = <<>>
    BY <2>2
  <2>3. CASE Candidates(l, pos) = Beginning(l[pos], Channels)
    BY <1>3, <1>4, <1>5, <2>3
  <2>4. QED BY <2>1, <2>2, <2>3
<1>10. QED BY <1>1, <1>8, <1>9

\* A line that completion makes of another: what stands before the anchor, two
\* words of which the cursor's is blank, and what follows the cursor
Splices(c, l, pos, anchor) ==
  /\ Before(l, anchor) \in Seq(Words)
  /\ anchor \in DOMAIN l => Len(Before(l, anchor)) = anchor - 1
  /\ c \in Seq(Words) /\ Len(Before(l, anchor)) \in Nat /\ Len(Before(l, anchor)) + 2 \in DOMAIN c
  /\ c[Len(Before(l, anchor)) + 2] = Blank
  /\ SubSeq(c, 1, Len(Before(l, anchor))) = Before(l, anchor)
  /\ SubSeq(c, Len(Before(l, anchor)) + 3, Len(c)) = SubSeq(l, pos + 1, Len(l))

\* What completion puts into a line
LEMMA Completed ==
  ASSUME NEW l \in Seq(Words), NEW pos \in Nat, NEW anchor \in Nat \ {0}, NEW value \in Spellings,
         NEW kind
  PROVE  Splices(Complete(l, pos, anchor, value, kind), l, pos, anchor)
<1> DEFINE c == Complete(l, pos, anchor, value, kind)
<1>1. Blank \in Words
  BY DEF Blank, Word, Words, Spellings
<1>2. Inserted(value, kind, anchor) \in Words
  <2>1. Word("/", value, "") \in Words /\ Word("#", value, "") \in Words /\ Word("", value, "") \in Words
        /\ Word("#", value, ":") \in Words /\ Word("", value, ":") \in Words
    BY DEF Word, Words, Spellings
  <2>2. CASE kind = "Command" BY <2>1, <2>2 DEF Inserted
  <2>3. CASE kind = "Channel" BY <2>1, <2>3 DEF Inserted
  <2>4. CASE kind # "Command" /\ kind # "Channel"
    <3>1. Inserted(value, kind, anchor) = Word(IF value \in {"pub", "pets"} THEN "#" ELSE "", value,
                                               IF anchor = 1 THEN ":" ELSE "")
      BY <2>4 DEF Inserted
    <3>2. QED BY <2>1, <3>1
  <2>5. QED BY <2>2, <2>3, <2>4
<1>3. DEFINE m == IF anchor > Len(l) THEN Len(l) ELSE anchor - 1
<1>4. m \in 0..Len(l) /\ (anchor \in DOMAIN l => m = anchor - 1) /\ Before(l, anchor) = SubSeq(l, 1, m)
  BY DEF Before
<1> HIDE DEF m
<1>5. Before(l, anchor) \in Seq(Words) /\ Len(Before(l, anchor)) = m
  BY <1>4
<1>6. SubSeq(l, pos + 1, Len(l)) \in Seq(Words)
  OBVIOUS
<1>7. c = Before(l, anchor) \o <<Inserted(value, kind, anchor), Blank>> \o SubSeq(l, pos + 1, Len(l))
  BY Zenon DEF Complete
<1> HIDE DEF c
<1>8. /\ c \in Seq(Words) /\ Len(c) = Len(Before(l, anchor)) + 2 + Len(SubSeq(l, pos + 1, Len(l)))
      /\ c[Len(Before(l, anchor)) + 2] = Blank
      /\ SubSeq(c, 1, Len(Before(l, anchor))) = Before(l, anchor)
      /\ SubSeq(c, Len(Before(l, anchor)) + 3, Len(c)) = SubSeq(l, pos + 1, Len(l))
  <2> DEFINE p == Before(l, anchor)
             x == Inserted(value, kind, anchor)
             t == SubSeq(l, pos + 1, Len(l))
  <2>1. p \in Seq(Words) /\ t \in Seq(Words) /\ x \in Words /\ c = p \o <<x, Blank>> \o t
    BY <1>2, <1>5, <1>6, <1>7
  <2> HIDE DEF p, x, t
  <2>2. /\ c \in Seq(Words) /\ Len(c) = Len(p) + 2 + Len(t) /\ c[Len(p) + 2] = Blank
        /\ SubSeq(c, 1, Len(p)) = p /\ SubSeq(c, Len(p) + 3, Len(c)) = t
    BY <1>1, <2>1, Spliced
  <2>3. QED BY <2>2 DEF p, t
<1>9. Len(SubSeq(l, pos + 1, Len(l))) \in Nat
  BY <1>6
<1>10. Len(Before(l, anchor)) + 2 \in DOMAIN c /\ Len(Before(l, anchor)) \in Nat
  <2> DEFINE b == Len(Before(l, anchor))
             t == Len(SubSeq(l, pos + 1, Len(l)))
  <2>1. b \in Nat /\ t \in Nat /\ Len(c) = b + 2 + t /\ c \in Seq(Words)
    <3>1. b \in Nat BY <1>4, <1>5
    <3>2. t \in Nat BY <1>9
    <3>3. Len(c) = b + 2 + t /\ c \in Seq(Words) BY <1>8
    <3>4. QED BY <3>1, <3>2, <3>3
  <2> HIDE DEF b, t
  <2>2. b + 2 \in DOMAIN c
    BY <2>1
  <2>3. QED BY <2>1, <2>2 DEF b
<1>11. (anchor \in DOMAIN l => Len(Before(l, anchor)) = anchor - 1)
       /\ Before(l, anchor) = SubSeq(l, 1, Len(Before(l, anchor)))
  BY <1>4, <1>5
<1>12. Splices(c, l, pos, anchor)
  BY Zenon, <1>5, <1>8, <1>10, <1>11 DEF Splices
<1>13. QED BY <1>12 DEF c

--------------------------------------------------------------------------------
\* Turning stays among the candidates.
LEMMA TurnsWithin ==
  ASSUME NEW n \in Nat \ {0}, NEW i \in 1..n, NEW step \in {1, -1}
  PROVE  ((i + step - 1) % n) + 1 \in 1..n
<1>1. i + step - 1 \in Int
  OBVIOUS
<1>2. (i + step - 1) % n \in 0..n - 1
  BY <1>1
<1>3. QED BY <1>2

\* A line that completion made of another one, completed again from where it was
\* begun, is what completion makes of that one.
Again(l, a, w, kind, other, c) ==
  /\ Complete(c, a + 1, a, w, other) = Complete(l, a, a, w, kind)
  /\ a + 1 \in DOMAIN c /\ c[a + 1] = Blank /\ c \in Seq(Words)

LEMMA OnceMore ==
  ASSUME NEW l \in Seq(Words), NEW a \in DOMAIN l, NEW v \in Spellings, NEW w \in Spellings,
         NEW kind, NEW other, Inserted(w, other, a) = Inserted(w, kind, a)
  PROVE  Again(l, a, w, kind, other, Complete(l, a, a, v, kind))
<1> DEFINE c == Complete(l, a, a, v, kind)
<1>1. a \in Nat \ {0} /\ a \in Nat /\ a <= Len(l)
  OBVIOUS
<1> HIDE DEF c
<1>2. /\ Before(l, a) \in Seq(Words) /\ Len(Before(l, a)) = a - 1
      /\ c \in Seq(Words) /\ a + 1 \in DOMAIN c /\ c[a + 1] = Blank
      /\ SubSeq(c, 1, a - 1) = Before(l, a)
      /\ SubSeq(c, a + 2, Len(c)) = SubSeq(l, a + 1, Len(l))
  <2> DEFINE b == Len(Before(l, a))
  <2>1. /\ Before(l, a) \in Seq(Words) /\ b = a - 1
        /\ c \in Seq(Words) /\ b + 2 \in DOMAIN c /\ c[b + 2] = Blank
        /\ SubSeq(c, 1, b) = Before(l, a)
        /\ SubSeq(c, b + 3, Len(c)) = SubSeq(l, a + 1, Len(l))
    <3>1. /\ Before(l, a) \in Seq(Words)
          /\ a \in DOMAIN l => Len(Before(l, a)) = a - 1
          /\ c \in Seq(Words) /\ Len(Before(l, a)) + 2 \in DOMAIN c
          /\ c[Len(Before(l, a)) + 2] = Blank
          /\ SubSeq(c, 1, Len(Before(l, a))) = Before(l, a)
          /\ SubSeq(c, Len(Before(l, a)) + 3, Len(c)) = SubSeq(l, a + 1, Len(l))
      <4>1. Splices(c, l, a, a)
        BY Zenon, <1>1, Completed DEF c
      <4>2. QED BY Zenon, <4>1 DEF Splices
    <3>2. QED BY Zenon, <3>1
  <2> HIDE DEF b
  <2>2. b + 2 = a + 1 /\ b + 3 = a + 2
    <3>1. b = a - 1 /\ a \in Nat
      BY Zenon, <1>1, <2>1
    <3>2. QED BY <3>1
  <2>3. QED BY <2>1, <2>2 DEF b
<1>3. a <= Len(c)
  BY <1>1, <1>2
<1>4. Before(c, a) = SubSeq(c, 1, a - 1)
  <2>1. Len(c) \in Nat
    BY <1>2
  <2>2. ~(a > Len(c))
    BY <1>1, <1>3, <2>1
  <2>3. QED BY <2>2 DEF Before
<1>5. a + 1 + 1 = a + 2
  BY <1>1
<1>6. Complete(c, a + 1, a, w, other)
        = Before(l, a) \o <<Inserted(w, kind, a), Blank>> \o SubSeq(l, a + 1, Len(l))
  BY Zenon, <1>2, <1>4, <1>5 DEF Complete
<1>7. Again(l, a, w, kind, other, c)
  BY Zenon, <1>2, <1>6 DEF Again, Complete
<1>8. QED BY <1>7 DEF c

\* What leaves the line and the cycle alone keeps the cycle right.
LEMMA CycleRests ==
  ASSUME CycleInv, UNCHANGED <<line, at, cycle, chips, strayed, origin>> PROVE CycleInv'
<1>1. /\ line' = line /\ at' = at /\ cycle' = cycle /\ chips' = chips /\ strayed' = strayed
      /\ origin' = origin
  OBVIOUS
<1>2. LineTypes'
  BY Zenon, <1>1 DEF CycleInv, LineTypes
<1>3. CASE cycle = NoCycle
  BY Zenon, <1>1, <1>2, <1>3 DEF CycleInv, NoCycle
<1>4. CASE cycle # NoCycle
  <2>1. Begun /\ (~strayed => Lapped)
    BY Zenon, <1>4 DEF CycleInv
  <2>2. Begun' /\ (Lapped => Lapped')
    BY Zenon, <1>1, <2>1 DEF Begun, Lapped, Laps
  <2>3. cycle' # NoCycle
    BY Zenon, <1>1, <1>4 DEF NoCycle
  <2>4. ~strayed' => Lapped'
    <3>1. ~strayed' => ~strayed
      BY <1>1
    <3>2. QED BY <2>1, <2>2, <3>1
  <2>5. QED BY Zenon, <1>2, <2>2, <2>4 DEF CycleInv
<1>5. QED BY <1>3, <1>4

\* So does every step of the entry.
LEMMA CycleStep ==
  ASSUME CycleInv, TypingNext PROVE CycleInv'
<1>1. /\ line \in Seq(Words) /\ at \in DOMAIN line /\ at \in Nat \ {0} /\ at \in Nat
      /\ at <= Len(line) /\ strayed \in BOOLEAN /\ Len(line) \in Nat /\ chips \in Seq(Spellings)
  BY DEF CycleInv, LineTypes
<1>2. /\ Blank \in Words /\ Pasted \in Words
      /\ Recalled \in Seq(Words) /\ Len(Recalled) \in DOMAIN Recalled
      /\ \A sigil \in {"", "/", "#"} : Partial(sigil) \in Words
  <2>1. Blank \in Words
    BY DEF Blank, Word, Words, Spellings
  <2>2. Pasted \in Words
    BY DEF Pasted, Word, Words, Spellings
  <2>3. \A sigil \in {"", "/", "#"} : Partial(sigil) \in Words
    BY DEF Partial, Word, Words, Spellings
  <2>4. Word("", "an", "") \in Words /\ Word("", "old", "") \in Words /\ Word("", "line", "") \in Words
    BY DEF Word, Words, Spellings
  <2>5. Recalled \in Seq(Words)
    <3>1. ASSUME NEW x \in Words, NEW y \in Words, NEW z \in Words PROVE <<x, y, z>> \in Seq(Words)
      OBVIOUS
    <3>2. QED BY Zenon, <2>4, <3>1 DEF Recalled
  <2>6. Len(Recalled) \in DOMAIN Recalled
    BY DEF Recalled
  <2>7. QED BY <2>1, <2>2, <2>3, <2>5, <2>6
\* a cycle that ends, and one that is kept while the line changes
<1> DEFINE Right == line' \in Seq(Words) /\ at' \in DOMAIN line' /\ chips' \in Seq(Spellings)
<1>a. ASSUME line' \in Seq(Words), at' \in DOMAIN line', chips' = Candidates(line', at') PROVE Right
  BY <1>a, CandidatesAre
<1>b. \A i \in DOMAIN line, x \in Words :
        [line EXCEPT ![i] = x] \in Seq(Words) /\ DOMAIN [line EXCEPT ![i] = x] = DOMAIN line
  BY <1>1
<1>c. \A x \in Words : <<x>> \in Seq(Words) /\ 1 \in DOMAIN <<x>> /\ Len(<<x>>) = 1
  OBVIOUS
<1>3. ASSUME Drops, Right PROVE CycleInv'
  <2>1. strayed' = FALSE /\ cycle' = NoCycle
    BY <1>3 DEF Drops
  <2>2. strayed' \in BOOLEAN
    BY <2>1
  <2>3. LineTypes'
    BY Zenon, <1>3, <2>2 DEF LineTypes
  <2>4. QED BY Zenon, <2>1, <2>3 DEF CycleInv, NoCycle
<1>4. ASSUME Strays, cycle' = cycle, Right PROVE CycleInv'
  <2>1. strayed' \in BOOLEAN /\ origin' = origin /\ (strayed' <=> cycle # NoCycle)
    BY <1>4 DEF Strays
  <2>2. LineTypes'
    BY Zenon, <1>4, <2>1 DEF LineTypes
  <2>3. CASE cycle = NoCycle
    BY Zenon, <1>4, <2>2, <2>3 DEF CycleInv, NoCycle
  <2>4. CASE cycle # NoCycle
    <3>1. Begun /\ strayed'
      BY Zenon, <2>1, <2>4 DEF CycleInv
    <3>2. Begun'
      BY Zenon, <1>4, <2>1, <3>1 DEF Begun
    <3>3. QED BY Zenon, <2>2, <3>1, <3>2 DEF CycleInv
  <2>5. QED BY <2>3, <2>4
<1>5. ASSUME NEW sigil \in {"", "/", "#"}, Type(sigil) PROVE CycleInv'
  <2>1. /\ Drops /\ line' = [line EXCEPT ![at] = Partial(sigil)] /\ at' = at
        /\ chips' = Candidates(line', at')
    BY Zenon, <1>5 DEF Type, Changed
  <2>2. line' \in Seq(Words) /\ at' \in DOMAIN line'
    BY Zenon, <1>1, <1>2, <1>b, <2>1
  <2>3. QED BY Zenon, <1>3, <1>a, <2>1, <2>2
<1>6. ASSUME Space PROVE CycleInv'
  <2> DEFINE front == SubSeq(line, 1, at)
             rest == SubSeq(line, at + 1, Len(line))
  <2>1. /\ Drops /\ line' = front \o <<Blank>> \o rest /\ at' = at + 1
        /\ chips' = Candidates(line', at')
    BY Zenon, <1>6 DEF Space, Changed
  <2>2. front \in Seq(Words) /\ Len(front) = at /\ rest \in Seq(Words)
    BY <1>1
  <2> HIDE DEF front, rest
  <2>3. <<Blank>> \in Seq(Words) /\ Len(<<Blank>>) = 1
    BY Zenon, <1>2, <1>c
  <2> DEFINE blank == <<Blank>>
  <2> HIDE DEF blank
  <2>4. line' \in Seq(Words) /\ Len(line') = at + 1 + Len(rest) /\ Len(rest) \in Nat
    <3>1. blank \in Seq(Words) /\ Len(blank) = 1 /\ line' = front \o blank \o rest
      BY Zenon, <2>1, <2>3 DEF blank
    <3>2. front \o blank \in Seq(Words) /\ Len(front \o blank) = at + 1
      <4>1. front \o blank \in Seq(Words) /\ Len(front \o blank) = Len(front) + Len(blank)
        BY <2>2, <3>1, ConcatProperties
      <4>2. QED BY <2>2, <3>1, <4>1
    <3>3. QED BY <2>2, <3>1, <3>2, ConcatProperties
  <2>5. at' \in DOMAIN line'
    BY <1>1, <2>1, <2>4
  <2>6. QED BY Zenon, <1>3, <1>a, <2>1, <2>4, <2>5
<1>7. ASSUME Recall PROVE CycleInv'
  <2>1. Strays /\ cycle' = cycle /\ line' = Recalled /\ at' = Len(Recalled) /\ chips' = Candidates(line', at')
    BY Zenon, <1>7 DEF Recall, Changed
  <2>2. QED BY Zenon, <1>2, <1>4, <1>a, <2>1
<1>8. ASSUME Paste PROVE CycleInv'
  <2>1. /\ (Drops \/ (Strays /\ cycle' = cycle)) /\ line' = [line EXCEPT ![at] = Pasted] /\ at' = at
        /\ chips' = Candidates(line', at')
    BY Zenon, <1>8 DEF Paste, Changed
  <2>2. line' \in Seq(Words) /\ at' \in DOMAIN line'
    BY Zenon, <1>1, <1>2, <1>b, <2>1
  <2>3. QED BY Zenon, <1>3, <1>4, <1>a, <2>1, <2>2
<1>9. ASSUME Click PROVE CycleInv'
  <2>1. Strays /\ cycle' = cycle /\ line' = line /\ at' \in DOMAIN line /\ chips' = chips
    BY <1>9 DEF Click
  <2>2. QED BY Zenon, <1>1, <1>4, <2>1
<1>10. ASSUME Leave PROVE CycleInv'
  <2>1. Drops /\ line' = <<Blank>> /\ at' = 1 /\ chips' = Candidates(line', at')
    BY Zenon, <1>10 DEF Leave, Changed
  <2>2. QED BY Zenon, <1>2, <1>3, <1>a, <1>c, <2>1
<1>11. ASSUME NEW i \in DOMAIN chips, Chip(i) PROVE CycleInv'
  <2>1. /\ Strays /\ cycle' = cycle /\ line' = Complete(line, at, at, chips[i], Kind(line, at))
        /\ at' = at + 1 /\ chips' = Candidates(line', at')
    BY Zenon, <1>11 DEF Chip, Changed
  <2>2. chips[i] \in Spellings
    BY <1>1
  <2>3. line' \in Seq(Words) /\ at' \in DOMAIN line'
    <3>1. Again(line, at, chips[i], Kind(line, at), Kind(line, at), line')
      BY Zenon, <1>1, <2>1, <2>2, OnceMore
    <3>2. QED BY Zenon, <2>1, <3>1 DEF Again
  <2>4. QED BY Zenon, <1>4, <1>a, <2>1, <2>3
<1>12. ASSUME NEW step \in {1, -1}, Start(step) PROVE CycleInv'
  <2> DEFINE values == Candidates(line, at)
             first == IF step > 0 THEN 1 ELSE Len(values)
  <2>1. /\ values # <<>> /\ cycle' = [anchor |-> at, values |-> values, index |-> first]
        /\ line' = Complete(line, at, at, values[first], Kind(line, at)) /\ at' = at + 1
        /\ strayed' = FALSE /\ origin' = [line |-> line, at |-> at]
        /\ chips' = Candidates(line', at')
    BY <1>12 DEF Start, Changed
  <2>2. values \in Seq(Spellings)
    BY <1>1, CandidatesAre
  <2> HIDE DEF values
  <2>3. first \in DOMAIN values
    BY <2>1, <2>2
  <2> HIDE DEF first
  <2>4. values[first] \in Spellings
    BY <2>2, <2>3
  <2>5. line' \in Seq(Words) /\ at' \in DOMAIN line'
    <3>1. Again(line, at, values[first], Kind(line, at), Kind(line, at), line')
      BY Zenon, <1>1, <2>1, <2>4, OnceMore
    <3>2. QED BY Zenon, <2>1, <3>1 DEF Again
  <2>6. /\ cycle'.anchor = at /\ cycle'.values = values /\ cycle'.index = first
        /\ origin'.line = line /\ origin'.at = at
    BY <2>1
  <2>7. Begun'
    BY Zenon, <1>1, <2>1, <2>3, <2>6 DEF Begun, values
  <2>8. Lapped'
    BY Zenon, <2>1, <2>6 DEF Lapped, Laps
  <2>9. strayed' \in BOOLEAN
    BY <2>1
  <2>10. Right
    BY Zenon, <1>a, <2>1, <2>5
  <2>11. QED BY Zenon, <2>7, <2>8, <2>9, <2>10 DEF CycleInv, LineTypes
<1>13. ASSUME NEW step \in {1, -1}, Cycle(step) PROVE CycleInv'
  <2> DEFINE value == cycle.values[Turned(step)]
             kind == Kind(line, at)
             front == Len(Before(line, cycle.anchor))
  <2>1. /\ cycle # NoCycle /\ cycle' = [cycle EXCEPT !.index = Turned(step)]
        /\ line' = Complete(line, at, cycle.anchor, value, kind) /\ at' = front + 2
        /\ chips' = Candidates(line', at') /\ strayed' = strayed /\ origin' = origin
    BY Zenon, <1>13 DEF Cycle, Changed
  <2>2. Begun /\ (~strayed => Lapped)
    BY Zenon, <2>1 DEF CycleInv
  <2>3. /\ cycle.values \in Seq(Spellings) /\ cycle.values = Candidates(origin.line, origin.at)
        /\ cycle.anchor = origin.at /\ origin.at \in Nat \ {0} /\ origin.at \in Nat
        /\ Turned(step) \in DOMAIN cycle.values
    <3>1. /\ origin.line \in Seq(Words) /\ origin.at \in DOMAIN origin.line
          /\ cycle.values = Candidates(origin.line, origin.at) /\ cycle.anchor = origin.at
          /\ cycle.index \in DOMAIN cycle.values
      BY Zenon, <2>2 DEF Begun
    <3>2. cycle.values \in Seq(Spellings)
      BY Zenon, <3>1, CandidatesAre
    <3>3. origin.at \in Nat \ {0} /\ origin.at \in Nat
      BY <3>1
    <3>4. Len(cycle.values) \in Nat \ {0} /\ cycle.index \in 1..Len(cycle.values)
          /\ DOMAIN cycle.values = 1..Len(cycle.values)
      BY <3>1, <3>2
    <3>5. Turned(step) \in 1..Len(cycle.values)
      BY Zenon, <3>4, TurnsWithin DEF Turned
    <3>6. QED BY Zenon, <3>1, <3>2, <3>3, <3>4, <3>5
  <2>4. value \in Spellings
    BY <2>3
  <2> HIDE DEF value, kind
  <2>5. Splices(line', line, at, cycle.anchor)
    BY Zenon, <1>1, <2>1, <2>3, <2>4, Completed
  <2>6. line' \in Seq(Words) /\ at' \in DOMAIN line'
    BY Zenon, <2>1, <2>5 DEF Splices
  <2>7. cycle' = [anchor |-> cycle.anchor, values |-> cycle.values, index |-> Turned(step)]
    <3>1. cycle = [anchor |-> cycle.anchor, values |-> cycle.values, index |-> cycle.index]
      BY Zenon, <2>2 DEF Begun
    <3>2. QED BY <2>1, <3>1
  <2>8. cycle'.anchor = cycle.anchor /\ cycle'.values = cycle.values /\ cycle'.index = Turned(step)
    BY <2>7
  <2>9. Begun'
    BY Zenon, <2>1, <2>2, <2>3, <2>7, <2>8 DEF Begun
  <2>10. ASSUME ~strayed PROVE Lapped'
    <3>1. Lapped /\ origin.line \in Seq(Words) /\ origin.at \in DOMAIN origin.line
      BY Zenon, <2>2, <2>10 DEF Begun
    <3>2. cycle.anchor \in DOMAIN line /\ front = cycle.anchor - 1
      <4>1. at = cycle.anchor + 1
        BY Zenon, <2>3, <3>1 DEF Lapped
      <4>2. cycle.anchor \in DOMAIN line
        BY <1>1, <2>3, <4>1
      <4>3. QED BY Zenon, <2>5, <4>2 DEF Splices
    <3>3. at' = origin'.at + 1
      <4>1. at' = cycle.anchor - 1 + 2
        BY Zenon, <2>1, <3>2
      <4>2. QED BY <2>1, <2>3, <4>1
    <3>4. CASE origin.at = 1 /\ Kind(origin.line, 1) # "Nick"
      BY Zenon, <2>1, <3>3, <3>4 DEF Lapped
    <3>5. CASE line = Laps /\ ~(origin.at = 1 /\ Kind(origin.line, 1) # "Nick")
      <4> DEFINE l == origin.line
                 a == origin.at
                 k == Kind(l, a)
                 v == cycle.values[cycle.index]
      <4>1. line = Complete(l, a, a, v, k)
        BY Zenon, <2>3, <3>5 DEF Laps
      <4>2. v \in Spellings
        <5>1. cycle.index \in DOMAIN cycle.values
          BY Zenon, <2>2 DEF Begun
        <5>2. QED BY <2>3, <5>1
      <4>3. k \in {"Channel", "Nick"} /\ (k = "Channel" => a # 1 /\ value \in {"pub", "pets"})
        <5>1. k \in {"Command", "Channel", "Nick"} /\ (k = "Command" => a = 1)
          BY Zenon, <3>1, CandidatesAre
        <5>2. k = "Channel" => value \in {"pub", "pets"}
          BY Zenon, <2>3, <3>1, CandidatesAre DEF value
        <5>3. k # "Nick" => a # 1
          BY Zenon, <3>5
        <5>4. QED BY <5>1, <5>2, <5>3
      <4>4. kind = "Nick"
        <5>1. line[a + 1] = Blank /\ at = a + 1
          <6> HIDE DEF k, v
          <6>1. at = a + 1
            BY Zenon, <3>1 DEF Lapped
          <6>2. line[a + 1] = Blank
            <7>1. Again(l, a, v, k, k, line)
              BY Zenon, <3>1, <4>1, <4>2, OnceMore
            <7>2. QED BY Zenon, <7>1 DEF Again
          <6>3. QED BY <6>1, <6>2
        <5>2. line[at].sigil = ""
          <6>1. Blank.sigil = ""
            BY DEF Blank, Word
          <6>2. QED BY Zenon, <5>1, <6>1
        <5>3. QED BY <5>2 DEF Kind, kind
      <4>5. Inserted(value, kind, a) = Inserted(value, k, a)
        <5>1. CASE k = "Nick"
          BY <4>4, <5>1
        <5>2. CASE k = "Channel"
          <6>1. Inserted(value, "Nick", a) = Word("#", value, "")
            BY <4>3, <5>2 DEF Inserted
          <6>2. Inserted(value, "Channel", a) = Word("#", value, "")
            BY DEF Inserted
          <6>3. QED BY <4>4, <5>2, <6>1, <6>2
        <5>3. QED BY <4>3, <5>1, <5>2
      <4>6. line' = Complete(l, a, a, value, k)
        <5> HIDE DEF k, v
        <5>1. at = a + 1 /\ cycle.anchor = a
          BY Zenon, <2>3, <3>1 DEF Lapped
        <5>2. Complete(line, a + 1, a, value, kind) = Complete(l, a, a, value, k)
          <6>1. Again(l, a, value, k, kind, line)
            BY Zenon, <2>4, <3>1, <4>1, <4>2, <4>5, OnceMore
          <6>2. QED BY Zenon, <6>1 DEF Again
        <5>3. QED BY Zenon, <2>1, <5>1, <5>2
      <4>7. Laps' = Complete(l, a, a, value, k)
        BY Zenon, <2>1, <2>3, <2>8 DEF Laps, value
      <4>8. QED BY Zenon, <3>3, <4>6, <4>7 DEF Lapped
    <3>6. QED BY Zenon, <3>1, <3>4, <3>5 DEF Lapped
  <2>11. Right
    BY Zenon, <1>a, <2>1, <2>6
  <2>12. LineTypes'
    BY Zenon, <1>1, <2>1, <2>11 DEF LineTypes
  <2>13. QED BY Zenon, <2>1, <2>9, <2>10, <2>12 DEF CycleInv
<1>14. ASSUME PressShift PROVE CycleInv'
  <2>1. Drops /\ line' = line /\ at' = at /\ chips' = chips
    BY <1>14 DEF PressShift
  <2>2. QED BY Zenon, <1>1, <1>3, <2>1
<1>15. ASSUME ReleaseShift \/ Fruitless PROVE CycleInv'
  <2>1. UNCHANGED <<line, at, cycle, chips, strayed, origin>>
    BY <1>15 DEF ReleaseShift, Fruitless
  <2>2. QED BY <2>1, CycleRests
<1>16. Direction \in {1, -1}
  BY DEF Direction
<1>17. ASSUME Tab PROVE CycleInv'
  BY <1>12, <1>13, <1>15, <1>16, <1>17, Zenon DEF Tab
<1>18. QED BY <1>5, <1>6, <1>7, <1>8, <1>9, <1>10, <1>11, <1>14, <1>15, <1>17, Zenon DEF TypingNext

\* However often Tab goes on with a cycle, the line is what the first Tab would
\* have made of it with the current candidate, unless it was changed while the
\* cycle was kept (input.rs complete, window.rs complete_nick), but for a command
\* and a channel in the first column.  A press of Shift ends the cycle.
THEOREM TabsGoAround == Spec => []TabAgrees
<1>1. Init => CycleInv
  <2>1. TypingInit => CycleInv
    <3>1. ASSUME TypingInit PROVE CycleInv
      <4>1. line = <<Blank>> /\ at = 1 /\ cycle = NoCycle /\ chips = <<>> /\ strayed = FALSE
        BY <3>1 DEF TypingInit
      <4>2. Blank \in Words
        BY DEF Blank, Word, Words, Spellings
      <4>3. \A x \in Words : <<x>> \in Seq(Words) /\ 1 \in DOMAIN <<x>>
        OBVIOUS
      <4>4. <<>> \in Seq(Spellings)
        OBVIOUS
      <4>5. strayed \in BOOLEAN
        BY <4>1
      <4>6. QED BY Zenon, <4>1, <4>2, <4>3, <4>4, <4>5 DEF CycleInv, LineTypes
    <3>2. QED BY <3>1
  <2>2. QED BY Zenon, <2>1 DEF Init
<1>2. CycleInv /\ [Next]_screenVars => CycleInv'
  <2>1. [Next]_screenVars => TypingNext \/ UNCHANGED typingVars
    BY Zenon DEF Next, screenVars
  <2>2. CycleInv /\ UNCHANGED typingVars => CycleInv'
    BY CycleRests DEF typingVars
  <2>3. QED BY <2>1, <2>2, CycleStep
<1>3. CycleInv => TabAgrees
  <2>1. SUFFICES ASSUME CycleInv PROVE TabAgrees
    OBVIOUS
  <2>2. at \in DOMAIN line
    BY Zenon, <2>1 DEF CycleInv, LineTypes
  <2>3. CASE cycle = NoCycle
    <3>1. cycle.index = 0
      BY <2>3 DEF NoCycle
    <3>2. QED BY <2>2, <2>3, <3>1 DEF TabAgrees
  <2>4. CASE cycle # NoCycle
    <3>1. cycle.index \in DOMAIN cycle.values /\ (~strayed => Lapped)
      BY Zenon, <2>1, <2>4 DEF CycleInv, Begun
    <3>2. QED BY <2>2, <3>1 DEF TabAgrees, Lapped
  <2>5. QED BY <2>3, <2>4
<1>4. QED BY <1>1, <1>2, <1>3, PTL DEF Spec

--------------------------------------------------------------------------------
(* Channel modes *)

Registrations == {i \in DOMAIN journal : journal[i].kind = "isupport"}
\* The newest of these lines says v.
NewestSays(ids, v) == \A i \in ids : (\A j \in ids : j <= i) => v = journal[i].of

Entered == [kind : {"isupport", "entry", "end"}, of : {"owner", "quiet", "b", "e"}, mask : Masks \cup {NoMask}]
IrcLines == [verb : {"MODE", "KICK", "LIST"} \cup Commands, letter : {"", "o", "q", "b", "e"}]
SentLines == [line : IrcLines, from : Commands \cup {"dialog"}, sure : BOOLEAN,
              crossed : BOOLEAN, ask : Nat]
Honest == {m \in SentLines : /\ m.sure /\ ~m.crossed => Effects(m.line) \subseteq Named(m.from)
                             /\ m.ask > 0 => m.line.letter \in Letters}

LogTypes ==
  /\ journal \in Seq(Entered) /\ lists \in [Letters -> SUBSET Masks] /\ q \in {"owner", "quiet"}
  /\ told \subseteq got /\ got \subseteq DOMAIN journal
  /\ asked \in Nat

\* What q is on the server is what its last 005 line says, and what the client
\* takes it to be is what the last one says that came live.
QIsSaid == Registrations # {} /\ NewestSays(Registrations, q)
QIsHeard == NewestSays(told \cap Registrations, known)
ModesInv == LogTypes /\ QIsSaid /\ QIsHeard /\ out \in Seq(Honest)

--------------------------------------------------------------------------------
\* The greatest of numbers up to a bound is one of them.
LEMMA Greatest ==
  ASSUME NEW n \in Nat, NEW S \in SUBSET (1..n), S # {}
  PROVE  Max(S) \in S /\ \A x \in S : x <= Max(S)
<1> DEFINE T == {n - x : x \in S}
<1>1. \A x \in S : x \in Nat /\ x <= n /\ n - x \in Nat /\ n - x \in T
  OBVIOUS
<1>2. T \subseteq Nat /\ T # {}
  <2>1. ASSUME NEW y \in T PROVE y \in Nat
    BY <1>1
  <2>2. PICK x \in S : TRUE
    OBVIOUS
  <2>3. n - x \in T
    BY <1>1
  <2>4. QED BY <2>1, <2>3
<1>3. PICK d \in T : \A y \in T : ~(<<y, d>> \in OpToRel(<, Nat))
  BY <1>2, WFMin, NatLessThanWellFounded
<1>4. \A y \in T : ~(y < d)
  BY <1>2, <1>3 DEF OpToRel
<1>5. PICK m \in S : d = n - m
  BY <1>3
<1>6. ASSUME NEW x \in S PROVE m >= x
  <2>1. ~(n - x < n - m) /\ x \in Nat /\ m \in Nat
    BY <1>1, <1>4, <1>5
  <2>2. QED BY <2>1
<1>7. \E w \in S : \A x \in S : w >= x
  BY <1>6
<1>8. Max(S) \in S /\ \A x \in S : Max(S) >= x
  BY Zenon, <1>7 DEF Max
<1>9. ASSUME NEW x \in S PROVE x <= Max(S)
  <2>1. Max(S) >= x /\ x \in Nat /\ Max(S) \in Nat
    BY <1>1, <1>8
  <2>2. QED BY <2>1
<1>10. QED BY <1>8, <1>9

\* The newest row of some of the log
LEMMA NewestIs ==
  ASSUME NEW n \in Nat, NEW S \in SUBSET (1..n)
  PROVE  /\ Newest(S) \in 0..n
         /\ S # {} => Newest(S) \in S
         /\ \A x \in S : x <= Newest(S)
<1>1. CASE S = {}
  BY <1>1 DEF Newest
<1>2. CASE S # {}
  <2>1. Newest(S) = Max(S)
    BY <1>2 DEF Newest
  <2>2. Max(S) \in S /\ \A x \in S : x <= Max(S)
    BY Zenon, <1>2, Greatest
  <2>3. Max(S) \in 1..n
    BY <2>2
  <2>4. QED BY <2>1, <2>2, <2>3
<1>3. QED BY <1>1, <1>2

\* Each command's lines are lines, and what they do to the user is what the
\* command is called, where q is what it is taken to be.
LEMMA RawIsFair ==
  ASSUME NEW c \in Commands, NEW k \in BOOLEAN, q \in {"owner", "quiet"}
  PROVE  /\ ToRaw(c, k) \in Seq(IrcLines)
         /\ (k <=> q = "owner") => \A i \in DOMAIN ToRaw(c, k) : Effects(ToRaw(c, k)[i]) \subseteq Named(c)
<1>1. DOMAIN Given = {"op", "owner", "ban", "quiet"} /\ Given["op"] = "o" /\ Given["ban"] = "b"
      /\ Given["owner"] = "q" /\ Given["quiet"] = "q"
  BY DEF Given
<1>2. Commands = {"op", "owner", "ban", "quiet", "kickban", "a command without its user"}
  BY <1>1 DEF Commands
<1>3. \A v \in {"MODE", "KICK"} \cup Commands, l \in {"", "o", "q", "b"} : IrcLine(v, l) \in IrcLines
  BY DEF IrcLine, IrcLines
<1>4. Effects(IrcLine("MODE", "q")) = {q}
  BY DEF IrcLine, Effects
<1>5. Effects(IrcLine("MODE", "b")) = {"ban"}
  <2>1. (CHOOSE n \in DOMAIN Given : Given[n] = "b") = "ban"
    BY <1>1
  <2>2. QED BY <2>1 DEF IrcLine, Effects
<1>6. Effects(IrcLine("MODE", "o")) = {"op"}
  <2>1. (CHOOSE n \in DOMAIN Given : Given[n] = "o") = "op"
    BY <1>1
  <2>2. QED BY <2>1 DEF IrcLine, Effects
<1>7. Effects(IrcLine("KICK", "")) = {"kick"}
  BY DEF IrcLine, Effects
<1>8. Effects(IrcLine(c, "")) = {}
  BY <1>2 DEF IrcLine, Effects
<1> DEFINE Good(x) == x \in IrcLines /\ ((k <=> q = "owner") => Effects(x) \subseteq Named(c))
<1>9. ASSUME NEW x, Good(x), ToRaw(c, k) = <<x>> PROVE
        /\ ToRaw(c, k) \in Seq(IrcLines)
        /\ (k <=> q = "owner") => \A i \in DOMAIN ToRaw(c, k) : Effects(ToRaw(c, k)[i]) \subseteq Named(c)
  <2>1. <<x>> \in Seq(IrcLines) /\ DOMAIN <<x>> = {1} /\ <<x>>[1] = x
    BY <1>9
  <2>2. QED BY <1>9, <2>1
<1>10. CASE c = "kickban"
  <2> DEFINE x == IrcLine("MODE", "b")
             y == IrcLine("KICK", "")
  <2>1. ToRaw(c, k) = <<x, y>> /\ Named(c) = {"ban", "kick"}
    BY <1>10 DEF ToRaw, Named
  <2>2. x \in IrcLines /\ y \in IrcLines /\ Effects(x) = {"ban"} /\ Effects(y) = {"kick"}
    BY <1>3, <1>5, <1>7
  <2> HIDE DEF x, y
  <2>3. <<x, y>> \in Seq(IrcLines) /\ DOMAIN <<x, y>> = {1, 2} /\ <<x, y>>[1] = x /\ <<x, y>>[2] = y
    BY <2>2
  <2>4. QED BY <2>1, <2>2, <2>3
<1>11. CASE c = "owner" /\ k
  <2>1. ToRaw(c, k) = <<IrcLine("MODE", "q")>> /\ Named(c) = {"owner"}
    BY <1>11 DEF ToRaw, Named
  <2>2. Good(IrcLine("MODE", "q"))
    BY <1>3, <1>4, <1>11, <2>1
  <2>3. QED BY <1>9, <2>1, <2>2
<1>12. CASE c = "quiet" /\ ~k
  <2>1. ToRaw(c, k) = <<IrcLine("MODE", "q")>> /\ Named(c) = {"quiet"}
    BY <1>12 DEF ToRaw, Named
  <2>2. Good(IrcLine("MODE", "q"))
    BY <1>3, <1>4, <1>12, <2>1
  <2>3. QED BY <1>9, <2>1, <2>2
<1>13. CASE c = "op"
  <2>1. ToRaw(c, k) = <<IrcLine("MODE", "o")>> /\ Named(c) = {"op"}
    BY <1>1, <1>13 DEF ToRaw, Named
  <2>2. Good(IrcLine("MODE", "o"))
    BY <1>3, <1>6, <2>1
  <2>3. QED BY <1>9, <2>1, <2>2
<1>14. CASE c = "ban"
  <2>1. ToRaw(c, k) = <<IrcLine("MODE", "b")>> /\ Named(c) = {"ban"}
    BY <1>1, <1>14 DEF ToRaw, Named
  <2>2. Good(IrcLine("MODE", "b"))
    BY <1>3, <1>5, <2>1
  <2>3. QED BY <1>9, <2>1, <2>2
<1>15. CASE c = "a command without its user" \/ (c = "owner" /\ ~k) \/ (c = "quiet" /\ k)
  <2>1. ToRaw(c, k) = <<IrcLine(c, "")>>
    BY <1>15 DEF ToRaw, Fallback
  <2>2. Good(IrcLine(c, ""))
    BY <1>3, <1>8
  <2>3. QED BY <1>9, <2>1, <2>2
<1>16. QED BY <1>2, <1>10, <1>11, <1>12, <1>13, <1>14, <1>15

--------------------------------------------------------------------------------
\* Rows that come are newer than what had come.
LEMMA HeardStep ==
  ASSUME LogTypes, QIsHeard, NEW ids \in SUBSET DOMAIN journal, \A i \in ids : i > Newest(got), Come(ids)
  PROVE  got' \subseteq DOMAIN journal /\ told' \subseteq got' /\ NewestSays(told' \cap Registrations, known')
<1>1. /\ got' = got \cup ids /\ told' = told \cup ids /\ known' = Merged(ids)
      /\ told \subseteq got /\ got \subseteq DOMAIN journal /\ DOMAIN journal = 1..Len(journal)
      /\ Len(journal) \in Nat
  BY DEF Come, LogTypes
<1>2. got' \subseteq DOMAIN journal /\ told' \subseteq got'
  BY <1>1
<1> DEFINE tokens == {i \in ids : journal[i].kind = "isupport"}
<1>3. told' \cap Registrations = (told \cap Registrations) \cup tokens
  BY <1>1 DEF Registrations
<1>4. known' = IF tokens = {} THEN known ELSE journal[Newest(tokens)].of
  BY <1>1 DEF Merged
<1>5. \A i \in tokens : i > Newest(got) /\ i \in 1..Len(journal)
  BY <1>1
<1> HIDE DEF tokens
<1>6. CASE tokens = {}
  <2>1. told' \cap Registrations = told \cap Registrations /\ known' = known
    BY <1>3, <1>4, <1>6
  <2>2. QED BY Zenon, <1>2, <2>1 DEF QIsHeard
<1>7. CASE tokens # {}
  <2>1. tokens \in SUBSET (1..Len(journal)) /\ got \in SUBSET (1..Len(journal))
    BY <1>1, <1>5
  <2>2. Newest(tokens) \in tokens /\ \A x \in tokens : x <= Newest(tokens)
    BY <1>1, <1>7, <2>1, NewestIs
  <2>3. \A x \in got : x <= Newest(got) /\ Newest(got) \in 0..Len(journal)
    BY <1>1, <2>1, NewestIs
  <2>4. ASSUME NEW i \in told' \cap Registrations, \A j \in told' \cap Registrations : j <= i
        PROVE  known' = journal[i].of
    <3>1. Newest(tokens) <= i /\ Newest(tokens) > Newest(got) /\ Newest(tokens) \in Nat
      BY <1>3, <1>5, <2>2, <2>4
    <3>2. i \notin got
      <4>1. ASSUME i \in got PROVE FALSE
        <5>1. i <= Newest(got) /\ i \in Nat /\ Newest(got) \in Nat
          BY <1>1, <2>1, <2>3, <4>1
        <5>2. QED BY <3>1, <5>1
      <4>2. QED BY <4>1
    <3>3. i \in tokens /\ i <= Newest(tokens) /\ i \in Nat
      BY <1>1, <1>3, <1>5, <2>2, <2>4, <3>2
    <3>4. i = Newest(tokens)
      BY <3>1, <3>3
    <3>5. QED BY <1>4, <1>7, <3>4
  <2>5. NewestSays(told' \cap Registrations, known')
    BY Zenon, <2>4 DEF NewestSays
  <2>6. QED BY <1>2, <2>5
<1>8. QED BY <1>2, <1>6, <1>7

\* Rows of a list that are written change nothing of what was said or heard.
LEMMA WrittenStep ==
  ASSUME LogTypes, QIsSaid, QIsHeard, NEW rows \in Seq(Entered), \A i \in DOMAIN rows : rows[i].kind # "isupport",
         journal' = journal \o rows, UNCHANGED <<q, told, known, got>>
  PROVE  /\ journal' \in Seq(Entered) /\ got' \subseteq DOMAIN journal'
         /\ QIsSaid' /\ QIsHeard'
<1>1. /\ journal \in Seq(Entered) /\ DOMAIN journal = 1..Len(journal) /\ Len(journal) \in Nat
      /\ got \subseteq DOMAIN journal /\ told \subseteq got
  BY DEF LogTypes
<1>2. /\ journal' \in Seq(Entered) /\ DOMAIN journal' = 1..Len(journal) + Len(rows)
      /\ \A i \in DOMAIN journal : journal'[i] = journal[i]
      /\ \A i \in DOMAIN journal' \ DOMAIN journal : journal'[i].kind # "isupport"
  <2>1. /\ journal' \in Seq(Entered) /\ Len(journal') = Len(journal) + Len(rows)
        /\ \A i \in 1..Len(journal) + Len(rows) :
             journal'[i] = IF i <= Len(journal) THEN journal[i] ELSE rows[i - Len(journal)]
    BY <1>1, ConcatProperties
  <2>2. Len(rows) \in Nat /\ DOMAIN rows = 1..Len(rows)
    OBVIOUS
  <2>3. ASSUME NEW i \in 1..Len(journal) + Len(rows), i \notin 1..Len(journal)
        PROVE  journal'[i].kind # "isupport"
    <3>1. i - Len(journal) \in DOMAIN rows /\ ~(i <= Len(journal))
      BY <1>1, <2>2, <2>3
    <3>2. journal'[i] = rows[i - Len(journal)]
      BY <2>1, <3>1
    <3>3. QED BY <3>1, <3>2
  <2>4. DOMAIN journal' = 1..Len(journal) + Len(rows)
    BY <2>1
  <2>5. \A i \in DOMAIN journal : journal'[i] = journal[i]
    BY <1>1, <2>1, <2>2
  <2>6. QED BY <1>1, <2>1, <2>3, <2>4, <2>5
<1>3. DOMAIN journal \subseteq DOMAIN journal'
  BY <1>1, <1>2
<1>4. Registrations' = Registrations
  BY <1>2, <1>3 DEF Registrations
<1>5. QIsSaid'
  <2>1. Registrations \subseteq DOMAIN journal /\ q' = q
    BY DEF Registrations
  <2>2. \A i \in Registrations : journal'[i] = journal[i]
    BY <1>2, <2>1
  <2>3. QED BY <1>4, <2>1, <2>2 DEF QIsSaid, NewestSays
<1>6. QIsHeard'
  <2>1. \A i \in told \cap Registrations : journal'[i] = journal[i]
    BY <1>1, <1>2
  <2>2. QED BY <1>4, <2>1 DEF QIsHeard, NewestSays
<1>7. QED BY <1>1, <1>2, <1>3, <1>5, <1>6

\* A list's rows end with a row that says so.
LEMMA ReplyIs ==
  ASSUME LogTypes, NEW letter \in Letters
  PROVE  /\ Reply(letter) \in Seq(Entered) /\ \A i \in DOMAIN Reply(letter) : Reply(letter)[i].kind # "isupport"
         /\ Len(Reply(letter)) \in Nat \ {0}
         /\ \A i \in 1..Len(Reply(letter)) :
              Reply(letter)[i].kind = IF i = Len(Reply(letter)) THEN "end" ELSE "entry"
<1> DEFINE n == Cardinality(lists[letter])
           masks == SetToSeq(lists[letter])
           entries == [i \in 1..n |-> Row("entry", letter, masks[i])]
           end == <<Row("end", letter, NoMask)>>
<1>1. IsFiniteSet(lists[letter]) /\ lists[letter] \subseteq Masks
  <2>1. lists[letter] \subseteq Masks
    BY DEF LogTypes
  <2>2. QED BY <2>1, ChannelModesAssumption, FS_Subset
<1>2. n \in Nat
  BY <1>1, FS_CardinalityType
<1>3. \A i \in 1..n : masks[i] \in lists[letter]
  <2>1. PICK f \in Bijection(1..n, lists[letter]) : TRUE
    BY <1>1, FS_CardinalityType DEF ExistsBijection
  <2>2. f \in [1..n -> lists[letter]] /\ IsInjective(f)
    BY <2>1 DEF Bijection, Injection, IsInjective
  <2>3. masks \in [1..n -> lists[letter]]
    BY Zenon, <2>2 DEF SetToSeq
  <2>4. QED BY <2>3
<1>4. Reply(letter) = entries \o end
  BY Zenon DEF Reply
<1> HIDE DEF n, masks
<1>5. \A i \in 1..n : Row("entry", letter, masks[i]) \in Entered /\ Row("entry", letter, masks[i]).kind = "entry"
  BY <1>1, <1>3 DEF Row, Entered, Letters
<1>6. Row("end", letter, NoMask) \in Entered /\ Row("end", letter, NoMask).kind = "end"
  BY DEF Row, Entered, Letters
<1>7. entries \in Seq(Entered) /\ Len(entries) = n /\ \A i \in 1..n : entries[i].kind = "entry"
  BY <1>2, <1>5
<1>8. end \in Seq(Entered) /\ Len(end) = 1 /\ end[1].kind = "end"
  BY <1>6
<1> HIDE DEF entries, end
<1>9. /\ Reply(letter) \in Seq(Entered) /\ Len(Reply(letter)) = n + 1
      /\ \A i \in 1..n + 1 : Reply(letter)[i] = IF i <= n THEN entries[i] ELSE end[i - n]
  <2>1. /\ entries \o end \in Seq(Entered) /\ Len(entries \o end) = Len(entries) + Len(end)
        /\ \A i \in 1..Len(entries) + Len(end) :
             (entries \o end)[i] = IF i <= Len(entries) THEN entries[i] ELSE end[i - Len(entries)]
    BY <1>7, <1>8, ConcatProperties
  <2>2. Len(entries) = n /\ Len(end) = 1
    BY <1>7, <1>8
  <2>3. QED BY Zenon, <1>4, <2>1, <2>2
<1>10. ASSUME NEW i \in 1..n + 1 PROVE Reply(letter)[i].kind = IF i = n + 1 THEN "end" ELSE "entry"
  <2>1. CASE i <= n
    <3>1. i \in 1..n /\ i # n + 1
      BY <1>2, <2>1
    <3>2. QED BY <1>7, <1>9, <2>1, <3>1
  <2>2. CASE ~(i <= n)
    <3>1. i - n = 1 /\ i = n + 1
      BY <1>2, <2>2
    <3>2. QED BY <1>8, <1>9, <2>2, <3>1
  <2>3. QED BY <2>1, <2>2
<1>11. QED BY <1>2, <1>9, <1>10

--------------------------------------------------------------------------------
\* Every step keeps what is known of q right, and the lines on their way.
LEMMA ModesStep ==
  ASSUME ModesInv, Talks \/ Lists PROVE ModesInv'
<1>1. /\ LogTypes /\ QIsSaid /\ QIsHeard
      /\ journal \in Seq(Entered) /\ lists \in [Letters -> SUBSET Masks] /\ q \in {"owner", "quiet"}
      /\ told \subseteq got /\ got \subseteq DOMAIN journal /\ asked \in Nat
      /\ out \in Seq(Honest)
  BY Zenon DEF ModesInv, LogTypes
<1>2. ASSUME q' = q PROVE Honest' = Honest
  BY <1>2 DEF Honest, Effects
<1>3. <<>> \in Seq(Honest')
  OBVIOUS
\* the log is as it was
<1>4. ASSUME journal' = journal, q' = q, lists' = lists PROVE Registrations' = Registrations /\ QIsSaid'
  <2>1. Registrations' = Registrations
    BY <1>4 DEF Registrations
  <2>2. QED BY Zenon, <1>1, <1>4, <2>1 DEF QIsSaid, NewestSays
<1>5. ASSUME journal' = journal, q' = q, told' = told, known' = known, got' = got,
             lists' \in [Letters -> SUBSET Masks], asked' \in Nat, out' \in Seq(Honest)
      PROVE  ModesInv'
  <2>1. Registrations' = Registrations
    BY <1>5 DEF Registrations
  <2>2. QIsSaid' /\ QIsHeard'
    BY Zenon, <1>1, <1>5, <2>1 DEF QIsSaid, QIsHeard, NewestSays
  <2>3. LogTypes'
    BY Zenon, <1>1, <1>5 DEF LogTypes
  <2>4. out' \in Seq(Honest')
    BY Zenon, <1>2, <1>5
  <2>5. QED BY Zenon, <2>2, <2>3, <2>4 DEF ModesInv
\* rows come
<1>6. ASSUME NEW ids \in SUBSET DOMAIN journal, \A i \in ids : i > Newest(got), Come(ids),
             UNCHANGED <<serverVars, asked>>
      PROVE  ModesInv'
  <2>1. journal' = journal /\ q' = q /\ lists' = lists /\ out' = out /\ asked' = asked
    BY <1>6 DEF serverVars
  <2>2. got' \subseteq DOMAIN journal /\ told' \subseteq got' /\ NewestSays(told' \cap Registrations, known')
    BY Zenon, <1>1, <1>6, HeardStep
  <2>3. Registrations' = Registrations /\ QIsSaid'
    BY Zenon, <1>4, <2>1
  <2>4. QIsHeard'
    BY Zenon, <2>1, <2>2, <2>3 DEF QIsHeard, NewestSays
  <2>5. LogTypes'
    BY Zenon, <1>1, <2>1, <2>2 DEF LogTypes
  <2>6. out' \in Seq(Honest')
    BY Zenon, <1>1, <1>2, <2>1
  <2>7. QED BY Zenon, <2>3, <2>4, <2>5, <2>6 DEF ModesInv
\* rows of a list are written
<1>7. ASSUME NEW rows \in Seq(Entered), \A i \in DOMAIN rows : rows[i].kind # "isupport",
             journal' = journal \o rows, UNCHANGED <<q, lists, told, known, got, asked>>, out' \in Seq(Honest)
      PROVE  ModesInv'
  <2>1. q' = q /\ lists' = lists /\ told' = told /\ known' = known /\ got' = got /\ asked' = asked
    BY <1>7
  <2>2. journal' \in Seq(Entered) /\ got' \subseteq DOMAIN journal' /\ QIsSaid' /\ QIsHeard'
    BY Zenon, <1>1, <1>7, <2>1, WrittenStep
  <2>3. LogTypes'
    BY Zenon, <1>1, <2>1, <2>2 DEF LogTypes
  <2>4. out' \in Seq(Honest')
    BY Zenon, <1>2, <1>7, <2>1
  <2>5. QED BY Zenon, <2>2, <2>3, <2>4 DEF ModesInv
<1>8. got \in SUBSET (1..Len(journal)) /\ Len(journal) \in Nat /\ Newest(got) \in Nat
  <2>1. got \in SUBSET (1..Len(journal)) /\ Len(journal) \in Nat
    BY <1>1
  <2>2. Newest(got) \in 0..Len(journal)
    BY Zenon, <2>1, NewestIs
  <2>3. QED BY <2>1, <2>2
<1>9. ASSUME Deliver PROVE ModesInv'
  <2>1. Newest(got) < Len(journal) /\ Come({Newest(got) + 1}) /\ UNCHANGED <<serverVars, asked>>
    BY <1>9 DEF Deliver
  <2>2. {Newest(got) + 1} \in SUBSET DOMAIN journal /\ \A i \in {Newest(got) + 1} : i > Newest(got)
    BY <1>1, <1>8, <2>1
  <2>3. QED BY <1>6, <2>1, <2>2
<1>10. ASSUME Resume PROVE ModesInv'
  <2> DEFINE ids == LastOf(DOMAIN journal \ 1..Newest(got), Slice)
  <2>1. Come(ids) /\ UNCHANGED <<serverVars, asked>>
    BY <1>10 DEF Resume
  <2>2. ids \in SUBSET (DOMAIN journal \ 1..Newest(got))
    BY DEF LastOf
  <2> HIDE DEF ids
  <2>3. ids \in SUBSET DOMAIN journal /\ \A i \in ids : i > Newest(got)
    BY <1>1, <1>8, <2>2
  <2>4. QED BY <1>6, <2>1, <2>3
<1>11. ASSUME ColdStart PROVE ModesInv'
  <2>1. /\ got' = DOMAIN journal /\ told' = told /\ known' = known /\ journal' = journal /\ q' = q
        /\ lists' = lists /\ out' = out /\ asked' = asked
    BY <1>11 DEF ColdStart, serverVars
  <2>2. Registrations' = Registrations /\ QIsSaid'
    BY Zenon, <1>4, <2>1
  <2>3. QIsHeard'
    BY Zenon, <1>1, <2>1, <2>2 DEF QIsHeard, NewestSays
  <2>4. told' \subseteq got' /\ got' \subseteq DOMAIN journal'
    BY <1>1, <2>1
  <2>5. LogTypes'
    BY Zenon, <1>1, <2>1, <2>4 DEF LogTypes
  <2>6. QED BY Zenon, <1>1, <1>2, <2>1, <2>2, <2>3, <2>5 DEF ModesInv
<1>12. ASSUME Drop PROVE ModesInv'
  <2>1. PICK come \in 0..Len(out) : \E took \in come..Len(out) :
               out' = SubSeq(out, 1, come) \o SubSeq(out, took + 1, Len(out))
    BY <1>12, Zenon DEF Drop
  <2>2. PICK took \in come..Len(out) : out' = SubSeq(out, 1, come) \o SubSeq(out, took + 1, Len(out))
    BY <2>1
  <2>3. UNCHANGED <<q, lists, journal, got, told, known, asked>>
    BY <1>12 DEF Drop
  <2>4. Len(out) \in Nat /\ come \in Nat /\ took \in Nat /\ come <= Len(out)
    BY <1>1, <2>1, <2>2
  <2>5. SubSeq(out, 1, come) \in Seq(Honest) /\ SubSeq(out, took + 1, Len(out)) \in Seq(Honest)
    BY <1>1, <2>4
  <2>6. out' \in Seq(Honest)
    BY <2>2, <2>5
  <2>7. QED BY <1>1, <1>5, <2>3, <2>6
<1>13. ASSUME NEW c \in Commands, Command(c) PROVE ModesInv'
  <2> DEFINE k == known = "owner"
             raw == ToRaw(c, k)
             Made(i) == [line |-> raw[i], from |-> c, sure |-> Certain,
                         crossed |-> FALSE, ask |-> 0]
             made == [i \in DOMAIN raw |-> Made(i)]
  <2>1. out' = out \o made /\ asked' = asked + Len(made)
        /\ UNCHANGED <<q, lists, journal, got, told, known>>
    BY <1>13 DEF Command, Send
  <2>2. raw \in Seq(IrcLines)
        /\ ((k <=> q = "owner") => \A i \in DOMAIN raw : Effects(raw[i]) \subseteq Named(c))
    <3>1. k \in BOOLEAN
      OBVIOUS
    <3> HIDE DEF k
    <3>2. QED BY Zenon, <1>1, <3>1, RawIsFair
  <2>3. Certain => known = q
    <3>1. SUFFICES ASSUME Certain PROVE known = q
      OBVIOUS
    <3>2. Registrations \in SUBSET (1..Len(journal)) /\ Registrations # {}
      BY <1>1 DEF Registrations, QIsSaid
    <3>3. /\ Newest(Registrations) \in Registrations
          /\ \A x \in Registrations : x <= Newest(Registrations)
      BY Zenon, <1>8, <3>2, NewestIs
    <3>4. Newest(Registrations) \in told
      BY Zenon, <3>1 DEF Certain, Registrations
    <3>5. q = journal[Newest(Registrations)].of
      BY Zenon, <1>1, <3>3 DEF QIsSaid, NewestSays
    <3>6. Newest(Registrations) \in told \cap Registrations
          /\ \A x \in told \cap Registrations : x <= Newest(Registrations)
      BY Zenon, <3>3, <3>4
    <3>7. known = journal[Newest(Registrations)].of
      BY Zenon, <1>1, <3>6 DEF QIsHeard, NewestSays
    <3>8. QED BY <3>5, <3>7
  <2>4. Certain \in BOOLEAN
    BY DEF Certain
  <2>5. \A i \in DOMAIN raw : Made(i) \in Honest
    <3>1. SUFFICES ASSUME NEW i \in DOMAIN raw PROVE Made(i) \in Honest
      OBVIOUS
    <3>2. raw[i] \in IrcLines
      <4> HIDE DEF raw
      <4>1. QED BY <2>2
    <3>3. Certain => Effects(raw[i]) \subseteq Named(c)
      BY Zenon, <2>2, <2>3
    <3> DEFINE r == raw[i]
    <3> HIDE DEF r, raw
    <3>4. [line |-> raw[i], from |-> c, sure |-> Certain, crossed |-> FALSE, ask |-> 0] \in SentLines
      BY <2>4, <3>2 DEF SentLines
    <3>5. QED BY <3>3, <3>4 DEF Honest
  <2>6. made \in Seq(Honest)
    <3> HIDE DEF raw
    <3>1. DOMAIN raw = 1..Len(raw) /\ Len(raw) \in Nat
      BY <2>2
    <3> HIDE DEF Made
    <3>2. QED BY <2>5, <3>1
  <2> HIDE DEF made
  <2>7. out' \in Seq(Honest) /\ asked' \in Nat
    BY <1>1, <2>1, <2>6
  <2>8. QED BY <1>1, <1>5, <2>1, <2>7
<1>14. ASSUME OpenDialog \/ CloseDialog PROVE ModesInv'
  <2>1. UNCHANGED <<q, lists, journal, out, got, told, known, asked>>
    BY <1>14 DEF OpenDialog, CloseDialog, serverVars
  <2>2. QED BY <1>1, <1>5, <2>1
<1>15. ASSUME NEW letter \in Letters, AskList(letter) PROVE ModesInv'
  <2> DEFINE m == [line |-> IrcLine("LIST", letter), from |-> "dialog", sure |-> FALSE,
                    crossed |-> FALSE, ask |-> asked + 1]
  <2>1. out' = out \o <<m>> /\ asked' = asked + Len(<<m>>) /\ UNCHANGED <<q, lists, journal, got, told, known>>
    BY <1>15 DEF AskList, Send
  <2>2. m \in Honest
    <3>1. IrcLine("LIST", letter) \in IrcLines
      BY DEF IrcLine, IrcLines, Letters
    <3>2. IrcLine("LIST", letter).letter = letter
      BY DEF IrcLine
    <3>3. QED BY <1>1, <3>1, <3>2 DEF Honest, SentLines
  <2> HIDE DEF m
  <2>3. <<m>> \in Seq(Honest) /\ Len(<<m>>) = 1
    BY <2>2
  <2>4. out' \in Seq(Honest) /\ asked' \in Nat
    BY <1>1, <2>1, <2>3
  <2>5. QED BY <1>1, <1>5, <2>1, <2>4
<1>16. ASSUME Serve PROVE ModesInv'
  <2>1. /\ out # <<>> /\ out' = Tail(out) /\ UNCHANGED <<q, got, told, known, asked>>
        /\ \/ lists' \in {lists, [lists EXCEPT !["b"] = Masks]} /\ journal' = journal
           \/ Head(out).ask > 0 /\ journal' = journal \o Reply(Head(out).line.letter) /\ lists' = lists
    BY <1>16 DEF Serve, Write
  <2>2. out' \in Seq(Honest) /\ Head(out) \in Honest
    BY <1>1, <2>1
  <2>3. CASE lists' \in {lists, [lists EXCEPT !["b"] = Masks]} /\ journal' = journal
    <3>1. lists' \in [Letters -> SUBSET Masks]
      BY <1>1, <2>3
    <3>2. QED BY <1>1, <1>5, <2>1, <2>2, <2>3, <3>1
  <2>4. CASE Head(out).ask > 0 /\ journal' = journal \o Reply(Head(out).line.letter) /\ lists' = lists
    <3> DEFINE letter == Head(out).line.letter
    <3>1. letter \in Letters
      BY <2>2, <2>4 DEF Honest
    <3>2. Reply(letter) \in Seq(Entered) /\ \A i \in DOMAIN Reply(letter) : Reply(letter)[i].kind # "isupport"
      BY Zenon, <1>1, <3>1, ReplyIs
    <3>3. journal' = journal \o Reply(letter) /\ UNCHANGED <<q, lists, told, known, got, asked>>
      BY <2>1, <2>4
    <3>4. QED BY Zenon, <1>7, <2>2, <3>2, <3>3
  <2>5. QED BY <2>1, <2>3, <2>4
<1>17. ASSUME NEW letter \in Letters, OthersAsk(letter) PROVE ModesInv'
  <2>1. journal' = journal \o Reply(letter) /\ UNCHANGED <<q, lists, out, got, told, known, asked>>
    BY <1>17 DEF OthersAsk, Write
  <2>2. Reply(letter) \in Seq(Entered) /\ \A i \in DOMAIN Reply(letter) : Reply(letter)[i].kind # "isupport"
    BY Zenon, <1>1, ReplyIs
  <2>3. out' \in Seq(Honest)
    BY <1>1, <2>1
  <2>4. UNCHANGED <<q, lists, told, known, got, asked>>
    BY <2>1
  <2>5. QED BY Zenon, <1>7, <2>1, <2>2, <2>3, <2>4
<1>18. ASSUME NEW v \in {"owner", "quiet"}, Register(v) PROVE ModesInv'
  <2> DEFINE row == Row("isupport", v, NoMask)
             n == Len(journal)
  <2>1. /\ q' = v /\ journal' = journal \o <<row>>
        /\ lists' = lists /\ got' = got /\ told' = told /\ known' = known /\ asked' = asked
    BY <1>18 DEF Register, Write
  <2>2. row \in Entered /\ row.kind = "isupport" /\ row.of = v
    BY DEF Row, Entered
  <2> HIDE DEF row
  <2>3. /\ journal' \in Seq(Entered) /\ DOMAIN journal' = 1..n + 1 /\ journal'[n + 1] = row
        /\ \A i \in DOMAIN journal : i \in DOMAIN journal' /\ journal'[i] = journal[i]
    BY <1>1, <2>1, <2>2
  <2>4. n \in Nat /\ DOMAIN journal = 1..n
    BY <1>1
  <2> HIDE DEF n
  <2>5. n + 1 \in Registrations'
    BY <2>2, <2>3, <2>4 DEF Registrations
  <2>6. QIsSaid'
    <3>1. ASSUME NEW i \in Registrations', \A j \in Registrations' : j <= i PROVE q' = journal'[i].of
      <4>1. i \in 1..n + 1 /\ n + 1 <= i
        BY <2>3, <2>5, <3>1 DEF Registrations
      <4>2. i = n + 1
        BY <2>4, <4>1
      <4>3. QED BY <2>1, <2>2, <2>3, <4>2
    <3>2. QED BY Zenon, <2>5, <3>1 DEF QIsSaid, NewestSays
  <2>7. QIsHeard'
    <3>1. told \subseteq DOMAIN journal
      BY <1>1
    <3>2. (told \cap Registrations)' = told \cap Registrations
      BY <2>1, <2>3, <3>1 DEF Registrations
    <3>3. \A i \in told \cap Registrations : journal'[i] = journal[i]
      BY <2>3, <3>1
    <3>4. QED BY Zenon, <1>1, <2>1, <3>2, <3>3 DEF QIsHeard, NewestSays
  <2>8. got' \subseteq DOMAIN journal'
    BY <1>1, <2>1, <2>3
  <2>9. q' \in {"owner", "quiet"}
    BY <2>1
  <2>10. LogTypes'
    BY Zenon, <1>1, <2>1, <2>3, <2>8, <2>9 DEF LogTypes
  <2>11. out' \in Seq(Honest')
    <3>1. PICK gone \in 0..Len(out) :
            out' = [i \in 1..Len(out) - gone |-> [out[gone + i] EXCEPT !.crossed = @ \/ v # q]]
      BY <1>18 DEF Register
    <3>2. Len(out) \in Nat /\ gone \in Nat /\ Len(out) - gone \in Nat
      BY <1>1, <3>1
    <3>3. ASSUME NEW m \in Honest, NEW x \in BOOLEAN, ~x => v = q
          PROVE  [m EXCEPT !.crossed = @ \/ x] \in Honest'
      <4> DEFINE z == [m EXCEPT !.crossed = @ \/ x]
      <4>1. /\ m \in SentLines /\ (m.sure /\ ~m.crossed => Effects(m.line) \subseteq Named(m.from))
            /\ (m.ask > 0 => m.line.letter \in Letters)
        BY <3>3 DEF Honest
      <4>2. /\ z \in SentLines /\ z.sure = m.sure /\ z.line = m.line /\ z.from = m.from /\ z.ask = m.ask
            /\ z.crossed = (m.crossed \/ x)
        BY <4>1 DEF SentLines
      <4> HIDE DEF z
      <4>3. z.sure /\ ~z.crossed => Effects(z.line) \subseteq Named(z.from) /\ v = q
        BY <3>3, <4>1, <4>2
      <4>4. v = q => Effects(z.line)' = Effects(z.line)
        BY <2>1 DEF Effects
      <4>5. z.sure /\ ~z.crossed => Effects(z.line)' \subseteq Named(z.from)
        BY <4>3, <4>4
      <4>6. z \in Honest'
        BY <4>1, <4>2, <4>5 DEF Honest
      <4>7. QED BY <4>6 DEF z
    <3>4. ASSUME NEW i \in 1..Len(out) - gone
          PROVE  [out[gone + i] EXCEPT !.crossed = @ \/ v # q] \in Honest'
      <4>1. gone + i \in 1..Len(out)
        BY <3>2
      <4>2. out[gone + i] \in Honest
        BY <1>1, <4>1
      <4>3. (v # q) \in BOOLEAN /\ (~(v # q) => v = q)
        OBVIOUS
      <4>4. QED BY <3>3, <4>2, <4>3
    <3> DEFINE Crossing(i) == [out[gone + i] EXCEPT !.crossed = @ \/ v # q]
    <3>5. \A i \in 1..Len(out) - gone : Crossing(i) \in Honest'
      BY <3>4
    <3>6. out' = [i \in 1..Len(out) - gone |-> Crossing(i)]
      BY <3>1
    <3> HIDE DEF Crossing
    <3>7. QED BY <3>2, <3>5, <3>6
  <2>12. QED BY Zenon, <2>6, <2>7, <2>10, <2>11 DEF ModesInv
<1>19. "ban" \in Commands
  BY DEF Commands, Given
<1>20. Talks \/ Lists
  OBVIOUS
<1>21. QED BY Zenon, <1>20, <1>9, <1>10, <1>11, <1>12, <1>13, <1>14, <1>15, <1>16, <1>17, <1>18, <1>19 DEF Talks, Lists, Logs

\* What is known of q is right from the start.
LEMMA ModesBegin == ASSUME ModesInit PROVE ModesInv
<1>1. /\ q \in {"owner", "quiet"} /\ lists = [b |-> {CHOOSE m \in Masks : TRUE}, e |-> {}]
      /\ journal = <<Row("isupport", q, NoMask)>> /\ out = <<>>
      /\ got = {} /\ told = {} /\ asked = 0
  BY DEF ModesInit
<1>2. Row("isupport", q, NoMask) \in Entered /\ Row("isupport", q, NoMask).kind = "isupport"
      /\ Row("isupport", q, NoMask).of = q
  BY <1>1 DEF Row, Entered
<1> DEFINE row == Row("isupport", q, NoMask)
<1> HIDE DEF row
<1>3. journal \in Seq(Entered) /\ DOMAIN journal = {1} /\ journal[1] = row
  BY <1>1, <1>2 DEF row
<1>4. lists \in [Letters -> SUBSET Masks]
  <2>1. (CHOOSE m \in Masks : TRUE) \in Masks
    BY ChannelModesAssumption
  <2>2. QED BY <1>1, <2>1 DEF Letters
<1>5. LogTypes
  <2>1. told \subseteq got /\ got \subseteq DOMAIN journal /\ asked \in Nat
    BY <1>1
  <2>2. QED BY Zenon, <1>1, <1>3, <1>4, <2>1 DEF LogTypes
<1>6. Registrations = {1} /\ journal[1].of = q
  BY <1>2, <1>3 DEF Registrations, row
<1>7. QIsSaid
  BY <1>6 DEF QIsSaid, NewestSays
<1>8. QIsHeard
  BY <1>1 DEF QIsHeard, NewestSays
<1>9. <<>> \in Seq(Honest)
  OBVIOUS
<1>10. QED BY Zenon, <1>1, <1>5, <1>7, <1>8, <1>9 DEF ModesInv

\* What other parts of the screen do leaves it alone.
LEMMA ModesRest == ASSUME ModesInv, UNCHANGED modesVars PROVE ModesInv'
<1>1. /\ q' = q /\ lists' = lists /\ journal' = journal /\ out' = out /\ got' = got /\ told' = told
      /\ known' = known /\ asked' = asked
  BY DEF modesVars, serverVars
<1>2. Registrations' = Registrations /\ Honest' = Honest
  BY <1>1 DEF Registrations, Honest, Effects
<1>3. QED BY Zenon, <1>1, <1>2 DEF ModesInv, LogTypes, QIsSaid, QIsHeard, NewestSays

\* A mode command does to its user what it is called, or nothing, once a 005 line
\* of this registration came live or with a burst (commands.rs to_raw, store.rs
\* cache_isupport), through lost connections and registrations with other servers,
\* but for one that was queued when the network came to a server of the other kind.
THEOREM CommandsDoWhatTheySay == Spec => []DoesWhatItSays
<1>1. Init => ModesInv
  <2>1. ASSUME ModesInit PROVE ModesInv
    BY Zenon, <2>1, ModesBegin
  <2>2. QED BY Zenon, <2>1 DEF Init
<1>2. ModesInv /\ [Next]_screenVars => ModesInv'
  <2>1. [Next]_screenVars => Talks \/ Lists \/ UNCHANGED modesVars
    BY Zenon DEF Next, screenVars
  <2>2. ASSUME ModesInv, UNCHANGED modesVars PROVE ModesInv'
    BY Zenon, <2>2, ModesRest
  <2>3. QED BY <2>1, <2>2, ModesStep
<1>3. ModesInv => DoesWhatItSays
  <2>1. SUFFICES ASSUME ModesInv, NEW i \in DOMAIN out
                 PROVE  out[i].sure /\ ~out[i].crossed => Effects(out[i].line) \subseteq Named(out[i].from)
    BY Zenon DEF DoesWhatItSays
  <2>2. out \in Seq(Honest)
    BY Zenon, <2>1 DEF ModesInv
  <2>3. out[i] \in Honest
    BY <2>2
  <2>4. QED BY <2>3 DEF Honest
<1>4. QED BY <1>1, <1>2, <1>3, PTL DEF Spec

--------------------------------------------------------------------------------
(* The lists of the channel dialog *)

DialogTypes ==
  /\ DOMAIN dialog = {"open", "collecting", "after", "shown", "ask", "since", "till", "reply"}
  /\ {dialog.open, dialog.collecting} \subseteq BOOLEAN
  /\ {dialog.after, dialog.ask, dialog.since, dialog.till} \subseteq Nat
\* The rows that the dialog has looked through
Looked == {i \in got : dialog.since < i /\ i <= dialog.till}
\* Rows a to b answer what was asked.
AnswerIs(a, b) ==
  /\ dialog.reply = a..b /\ dialog.since < a /\ a <= b
  /\ \A i \in a..b : journal[i].kind = IF i = b THEN "end" ELSE "entry"
\* The masks of n rows from a on
MasksOf(a, n) == [k \in 1..n |-> journal[a + k - 1].mask]
\* How many of their entries come up to row n, and the dialog shows those it has come to.
EntriesTo(n, a, b) == IF n < a THEN 0 ELSE IF n < b THEN n - a + 1 ELSE b - a
Shows(a, b) ==
  Alone /\ (\A i \in a..b : i <= dialog.till => i \in got) =>
    dialog.shown = MasksOf(a, EntriesTo(dialog.till, a, b))

\* While it collects, it has looked at all that came, and no list has ended.
LooksOn ==
  dialog.collecting =>
    /\ dialog.open /\ got # {} /\ dialog.after = Newest(got)
    /\ dialog.till = Newest(got) \/ (dialog.till = 0 /\ dialog.since = Newest(got))
    /\ \A i \in Looked : journal[i].kind # "end"
\* It stops when one has.
Stopped == dialog.ask > 0 /\ ~dialog.collecting => \E i \in Looked : journal[i].kind = "end"
ShowsEntries ==
  /\ (\A i \in Looked : journal[i].kind # "entry") => dialog.shown = <<>>
  /\ dialog.reply # {} => dialog.ask > 0 /\ \E a, b \in DOMAIN journal : AnswerIs(a, b) /\ Shows(a, b)
DialogInv ==
  /\ DialogTypes /\ dialog.till <= Newest(got) /\ dialog.since <= Newest(got)
  /\ online => got # {}
  /\ LooksOn /\ Stopped /\ ShowsEntries

\* Some of n rows, and newer ones, no more than m
Follows(S, T, n, m) ==
  /\ n \in Nat /\ m \in Nat \ {0} /\ S \in SUBSET (1..n) /\ T \in SUBSET (1..n) /\ S \cup T # {}
  /\ \A i \in T : i > Newest(S) /\ Cardinality({j \in T : j > i}) < m
Past(rows, n) == {i \in rows : i > n}
EntriesPast(g, h, a, b) == {i \in a..b : i # b /\ g < i /\ i <= h}
InTurn(g, h, a, b) == {g, h, a, b} \subseteq Nat /\ 1 <= a /\ a <= b /\ g <= h

\* Consecutive rows are listed as they come.
LEMMA InOrderIs ==
  ASSUME NEW x \in Nat, NEW y \in Nat, x <= y + 1
  PROVE  InOrder(x..y) = MasksOf(x, y + 1 - x)
<1>1. Cardinality(x..y) = y + 1 - x
  BY FS_Interval
<1>2. ASSUME NEW k \in 1..(y + 1 - x)
      PROVE  (CHOOSE i \in x..y : Cardinality({j \in x..y : j < i}) = k - 1) = x + k - 1
  <2>1. ASSUME NEW i \in x..y PROVE Cardinality({j \in x..y : j < i}) = i - x
    <3>1. {j \in x..y : j < i} = x..(i - 1) /\ x \in Int /\ i - 1 \in Int
      BY <2>1
    <3>2. Cardinality(x..(i - 1)) = IF x > i - 1 THEN 0 ELSE i - 1 - x + 1
      BY <3>1, FS_Interval
    <3>3. (IF x > i - 1 THEN 0 ELSE i - 1 - x + 1) = i - x
      BY <2>1
    <3>4. QED BY Zenon, <3>1, <3>2, <3>3
  <2>2. x + k - 1 \in x..y /\ Cardinality({j \in x..y : j < x + k - 1}) = k - 1
    <3>1. x + k - 1 \in x..y /\ (x + k - 1) - x = k - 1
      OBVIOUS
    <3>2. QED BY <2>1, <3>1
  <2>3. ASSUME NEW i \in x..y, Cardinality({j \in x..y : j < i}) = k - 1 PROVE i = x + k - 1
    <3>1. i - x = k - 1
      BY <2>1, <2>3
    <3>2. QED BY <3>1
  <2>4. QED BY <2>2, <2>3
<1>3. InOrder(x..y) = [k \in 1..(y + 1 - x) |->
                         journal[CHOOSE i \in x..y : Cardinality({j \in x..y : j < i}) = k - 1].mask]
  BY Zenon, <1>1 DEF InOrder
<1>4. QED BY Zenon, <1>2, <1>3 DEF MasksOf

\* The newest rows that come are all among the last ones held.
LEMMA LastOfIs ==
  ASSUME NEW n, NEW S, NEW T, NEW m, Follows(S, T, n, m)
  PROVE  /\ Past(LastOf(S \cup T, m), Newest(S)) = T
         /\ Newest(LastOf(S \cup T, m)) = Newest(S \cup T)
<1>1. /\ Newest(S) \in 0..n /\ \A i \in S : i <= Newest(S)
      /\ (\A i \in T : i > Newest(S) /\ Cardinality({j \in T : j > i}) < m)
      /\ S \cup T \in SUBSET (1..n) /\ Newest(S \cup T) \in S \cup T /\ \A i \in S \cup T : i <= Newest(S \cup T)
  <2>1. S \cup T \in SUBSET (1..n)
    BY DEF Follows
  <2>2. \A i \in T : i > Newest(S) /\ Cardinality({j \in T : j > i}) < m
    BY Zenon DEF Follows
  <2>3. QED BY <2>1, <2>2, NewestIs DEF Follows
<1> USE DEF Follows
<1>2. ASSUME NEW i \in T PROVE i \in LastOf(S \cup T, m)
  <2>1. {j \in S \cup T : j > i} = {j \in T : j > i}
    <3>0. i > Newest(S)
      BY Zenon, <1>1
    <3>1. i > Newest(S) /\ i \in Nat
      BY <3>0
    <3>2. ASSUME NEW j \in S PROVE ~(j > i)
      BY <1>1, <3>1
    <3>3. QED BY <3>2
  <2>2. QED BY <1>1, <2>1 DEF LastOf
<1>3. \A i \in S : ~(i > Newest(S))
  BY <1>1
<1>4. LastOf(S \cup T, m) \subseteq S \cup T
  BY DEF LastOf
<1>5. Newest(S \cup T) \in LastOf(S \cup T, m)
  <2>1. ASSUME NEW j \in S \cup T PROVE ~(j > Newest(S \cup T))
    <3>1. j <= Newest(S \cup T) /\ j \in 1..n /\ Newest(S \cup T) \in 1..n
      BY <1>1
    <3>2. QED BY <3>1
  <2>2. {j \in S \cup T : j > Newest(S \cup T)} = {}
    BY <2>1
  <2>3. QED BY <1>1, <2>2, FS_EmptySet DEF LastOf
<1>6. Newest(LastOf(S \cup T, m)) = Newest(S \cup T)
  <2>1. LastOf(S \cup T, m) \in SUBSET (1..n)
    BY <1>4
  <2>2. /\ Newest(LastOf(S \cup T, m)) \in LastOf(S \cup T, m)
        /\ \A i \in LastOf(S \cup T, m) : i <= Newest(LastOf(S \cup T, m))
    BY <1>5, <2>1, NewestIs
  <2>3. /\ Newest(S \cup T) <= Newest(LastOf(S \cup T, m)) /\ Newest(LastOf(S \cup T, m)) <= Newest(S \cup T)
        /\ Newest(S \cup T) \in 1..n /\ Newest(LastOf(S \cup T, m)) \in 1..n
    BY <1>1, <1>4, <1>5, <2>2
  <2>4. QED BY <2>3
<1>7. QED BY <1>1, <1>2, <1>3, <1>4, <1>6 DEF Past

\* Numbers of the dialog are those of rows.
LEMMA DialogIs ==
  ASSUME LogTypes, DialogInv
  PROVE  /\ Len(journal) \in Nat /\ DOMAIN journal = 1..Len(journal) /\ got \in SUBSET (1..Len(journal))
         /\ Newest(got) \in 0..Len(journal) /\ (got # {} => Newest(got) \in got) /\ \A i \in got : i <= Newest(got)
         /\ dialog.till \in Nat /\ dialog.since \in Nat /\ dialog.till <= Newest(got) /\ dialog.since <= Newest(got)
         /\ dialog.ask \in Nat /\ dialog.after \in Nat
         /\ dialog.open \in BOOLEAN /\ dialog.collecting \in BOOLEAN
<1>1. journal \in Seq(Entered) /\ got \subseteq DOMAIN journal
  BY DEF LogTypes
<1>2. Len(journal) \in Nat /\ DOMAIN journal = 1..Len(journal) /\ got \in SUBSET (1..Len(journal))
  BY <1>1
<1>3. Newest(got) \in 0..Len(journal) /\ (got # {} => Newest(got) \in got) /\ \A i \in got : i <= Newest(got)
  BY <1>2, NewestIs
<1>4. DialogTypes /\ dialog.till <= Newest(got) /\ dialog.since <= Newest(got)
  BY Zenon DEF DialogInv
<1>5. QED BY <1>2, <1>3, <1>4 DEF DialogTypes

\* The log grows, and whatever it says the dialog has not looked at it yet.
LEMMA DialogStays ==
  ASSUME LogTypes, DialogInv, dialog' = dialog, got' = got, online' => got # {},
         \A i \in DOMAIN journal : i \in DOMAIN journal' /\ journal'[i] = journal[i]
  PROVE  DialogInv'
<1>1. /\ Len(journal) \in Nat /\ DOMAIN journal = 1..Len(journal) /\ got \in SUBSET (1..Len(journal))
      /\ Newest(got) \in 0..Len(journal)
      /\ dialog.till \in Nat /\ dialog.since \in Nat /\ dialog.till <= Newest(got) /\ dialog.since <= Newest(got)
  BY DialogIs
<1>2. Looked' = Looked /\ \A i \in Looked : journal'[i] = journal[i]
  BY <1>1 DEF Looked
<1>3. LooksOn' /\ Stopped'
  BY Zenon, <1>2 DEF DialogInv, LooksOn, Stopped
<1>4. Alone' <=> Alone
  <2>1. \A i \in dialog.since + 1..dialog.till : journal'[i] = journal[i]
    BY <1>1
  <2>2. QED BY Zenon, <2>1 DEF Alone
<1>5. ASSUME NEW a \in DOMAIN journal, NEW b \in DOMAIN journal, AnswerIs(a, b), Shows(a, b)
      PROVE  AnswerIs(a, b)' /\ Shows(a, b)'
  <2>1. \A i \in a..b : journal'[i] = journal[i]
    BY <1>1
  <2>2. AnswerIs(a, b)'
    BY Zenon, <1>5, <2>1 DEF AnswerIs
  <2>3. \A k \in 1..EntriesTo(dialog.till, a, b) : journal'[a + k - 1] = journal[a + k - 1]
    <3>1. EntriesTo(dialog.till, a, b) \in Int /\ (EntriesTo(dialog.till, a, b) <= b + 1 - a \/ EntriesTo(dialog.till, a, b) = 0)
      BY <1>1 DEF EntriesTo
    <3>2. PICK n : n = EntriesTo(dialog.till, a, b)
      OBVIOUS
    <3>3. ASSUME NEW k \in 1..n PROVE a + k - 1 \in a..b
      BY <1>1, <3>1, <3>2
    <3>4. QED BY <2>1, <3>2, <3>3
  <2>4. MasksOf(a, EntriesTo(dialog.till, a, b))' = MasksOf(a, EntriesTo(dialog.till, a, b))
    BY Zenon, <2>3 DEF MasksOf, EntriesTo
  <2>5. Shows(a, b)'
    BY Zenon, <1>4, <1>5, <2>4 DEF Shows, EntriesTo
  <2>6. QED BY <2>2, <2>5
<1>6. ShowsEntries'
  <2>1. (\A i \in Looked' : journal'[i].kind # "entry") => dialog'.shown = <<>>
    BY Zenon, <1>2 DEF DialogInv, ShowsEntries
  <2>2. ASSUME dialog'.reply # {}
        PROVE  dialog'.ask > 0 /\ \E a, b \in DOMAIN journal' : AnswerIs(a, b)' /\ Shows(a, b)'
    <3>1. dialog.ask > 0
      BY Zenon, <2>2 DEF DialogInv, ShowsEntries
    <3>2. PICK a \in DOMAIN journal, b \in DOMAIN journal : AnswerIs(a, b) /\ Shows(a, b)
      BY Zenon, <2>2 DEF DialogInv, ShowsEntries
    <3>3. AnswerIs(a, b)' /\ Shows(a, b)'
      BY Zenon, <1>5, <3>2
    <3>4. a \in DOMAIN journal' /\ b \in DOMAIN journal' /\ dialog'.ask = dialog.ask
      OBVIOUS
    <3>5. QED BY Zenon, <3>1, <3>3, <3>4
  <2>3. QED BY Zenon, <2>1, <2>2 DEF ShowsEntries
<1>7. DialogTypes' /\ dialog'.till <= Newest(got)' /\ dialog'.since <= Newest(got)' /\ (online' => got' # {})
  BY Zenon DEF DialogInv, DialogTypes
<1>8. QED BY Zenon, <1>3, <1>6, <1>7 DEF DialogInv

\* One stretch of rows after another is the whole of them.
LEMMA StretchesJoin ==
  ASSUME NEW n \in Nat, NEW l \in Nat, NEW a \in Nat
  PROVE  MasksOf(a, n) \o MasksOf(a + n, l) = MasksOf(a, n + l)
<1> DEFINE W == {journal[a + k - 1].mask : k \in 1..n + l}
           s == MasksOf(a, n)
           r == MasksOf(a + n, l)
           u == MasksOf(a, n + l)
<1>1. \A k \in 1..l : n + k \in 1..n + l /\ a + n + k - 1 = a + (n + k) - 1 /\ ~(n + k <= n) /\ (n + k) - n = k
  OBVIOUS
<1>2. \A k \in 1..n : k \in 1..n + l /\ k <= n
  OBVIOUS
<1>3. \A k \in 1..n + l : journal[a + k - 1].mask \in W
  OBVIOUS
<1> HIDE DEF W
<1>4. s \in Seq(W) /\ Len(s) = n /\ \A k \in 1..n : s[k] = journal[a + k - 1].mask
  <2>1. \A k \in 1..n : journal[a + k - 1].mask \in W
    BY <1>2, <1>3
  <2>2. QED BY <2>1 DEF MasksOf
<1>5. \A k \in 1..l : journal[a + n + k - 1].mask \in W
  BY <1>1, <1>3
<1>6. r \in Seq(W) /\ Len(r) = l /\ \A k \in 1..l : r[k] = journal[a + n + k - 1].mask
  BY <1>5 DEF MasksOf
<1>7. u \in Seq(W) /\ Len(u) = n + l /\ \A k \in 1..n + l : u[k] = journal[a + k - 1].mask
  BY <1>3 DEF MasksOf
<1> HIDE DEF s, r, u
<1>8. /\ s \o r \in Seq(W) /\ Len(s \o r) = n + l
      /\ \A k \in 1..n + l : (s \o r)[k] = IF k <= n THEN s[k] ELSE r[k - n]
  <2>1. s \in Seq(W) /\ r \in Seq(W)
    BY <1>4, <1>6
  <2>2. /\ s \o r \in Seq(W) /\ Len(s \o r) = Len(s) + Len(r)
        /\ \A k \in 1..Len(s) + Len(r) : (s \o r)[k] = IF k <= Len(s) THEN s[k] ELSE r[k - Len(s)]
    BY Zenon, <2>1, ConcatProperties
  <2>3. Len(s) = n /\ Len(r) = l
    BY <1>4, <1>6
  <2>4. QED BY Zenon, <2>2, <2>3
<1>9. ASSUME NEW k \in 1..n + l PROVE (s \o r)[k] = u[k]
  <2>1. CASE k <= n
    <3>1. k \in 1..n
      BY <2>1
    <3>2. QED BY <1>4, <1>7, <1>8, <2>1, <3>1
  <2>2. CASE ~(k <= n)
    <3>1. k - n \in 1..l /\ a + n + (k - n) - 1 = a + k - 1
      BY <2>2
    <3>2. QED BY <1>6, <1>7, <1>8, <2>2, <3>1
  <2>3. QED BY <2>1, <2>2
<1>10. PICK v : v = s \o r
  OBVIOUS
<1>11. v \in Seq(W) /\ Len(v) = Len(u) /\ \A k \in 1..Len(v) : v[k] = u[k]
  BY <1>7, <1>8, <1>9, <1>10
<1>12. v = u
  BY <1>7, <1>11, SeqEqual
<1>13. QED BY Zenon, <1>10, <1>12 DEF s, r, u

\* The entries between two rows follow those up to the first one.
LEMMA ReadsOn ==
  ASSUME NEW a, NEW b, NEW g, NEW h, InTurn(g, h, a, b), NEW S, S = EntriesPast(g, h, a, b)
  PROVE  MasksOf(a, EntriesTo(g, a, b)) \o InOrder(S) = MasksOf(a, EntriesTo(h, a, b))
<1>0. a \in Nat /\ b \in Nat /\ g \in Nat /\ h \in Nat /\ 1 <= a /\ a <= b /\ g <= h
  BY DEF InTurn
<1>1. PICK n \in Nat, m \in Nat : n = EntriesTo(g, a, b) /\ m = EntriesTo(h, a, b)
  <2>1. ASSUME NEW x \in Nat PROVE EntriesTo(x, a, b) \in Nat
    BY <1>0 DEF EntriesTo
  <2>2. QED BY <1>0, <2>1
<1>2. n <= m /\ m - n \in Nat /\ m = n + (m - n)
  BY <1>0, <1>1 DEF EntriesTo
<1>3. S = (a + n)..(a + m - 1)
  <2>1. ASSUME NEW i \in S PROVE i \in (a + n)..(a + m - 1)
    BY <1>0, <1>1 DEF EntriesTo, EntriesPast
  <2>2. ASSUME NEW i \in (a + n)..(a + m - 1) PROVE i \in a..b /\ i # b /\ g < i /\ i <= h
    BY <1>0, <1>1 DEF EntriesTo
  <2>3. QED BY <2>1, <2>2 DEF EntriesPast
<1>4. a + n \in Nat /\ a + m - 1 \in Nat /\ a + n <= (a + m - 1) + 1 /\ (a + m - 1) + 1 - (a + n) = m - n
  BY <1>0, <1>1, <1>2
<1>5. InOrder(S) = MasksOf(a + n, m - n)
  <2>1. PICK x \in Nat, y \in Nat : x = a + n /\ y = a + m - 1 /\ x <= y + 1 /\ y + 1 - x = m - n
    BY <1>4
  <2>2. InOrder(x..y) = MasksOf(x, y + 1 - x)
    BY Zenon, <2>1, InOrderIs
  <2>3. QED BY Zenon, <1>3, <2>1, <2>2
<1>6. PICK l \in Nat : l = m - n /\ m = n + l
  BY <1>2
<1>7. MasksOf(a, n) \o MasksOf(a + n, l) = MasksOf(a, n + l)
  <2>1. a \in Nat
    BY Zenon, <1>0
  <2>2. QED BY <1>6, <2>1, StretchesJoin
<1>8. QED BY Zenon, <1>1, <1>5, <1>6, <1>7

\* Rows come, which the dialog looks through if it collects.
LEMMA ComeKeepsList ==
  ASSUME LogTypes, DialogInv, NEW ids \in SUBSET DOMAIN journal, ids = Past(ids, Newest(got)), ids = LastOf(ids, Slice),
         Come(ids), journal' = journal, got' # {}
  PROVE  DialogInv'
<1>1. /\ Len(journal) \in Nat /\ DOMAIN journal = 1..Len(journal) /\ got \in SUBSET (1..Len(journal))
      /\ Newest(got) \in 0..Len(journal) /\ (got # {} => Newest(got) \in got) /\ \A i \in got : i <= Newest(got)
      /\ dialog.till \in Nat /\ dialog.since \in Nat /\ dialog.till <= Newest(got) /\ dialog.since <= Newest(got)
      /\ dialog.ask \in Nat /\ dialog.open \in BOOLEAN /\ dialog.collecting \in BOOLEAN
  BY DialogIs
<1>2. got' = got \cup ids /\ dialog' = Scan(dialog, LastOf(got \cup ids, Slice)) /\ got' # {}
  BY DEF Come
<1>3. PICK g, h : /\ g \in Nat /\ h \in Nat /\ g = Newest(got) /\ h = Newest(got') /\ h = Newest(got \cup ids) /\ g <= h
                  /\ h \in got' /\ \A i \in got' : i <= h
  <2>1. got \cup ids \in SUBSET (1..Len(journal)) /\ got \cup ids # {}
    BY <1>1, <1>2
  <2>2. /\ Newest(got \cup ids) \in 0..Len(journal) /\ Newest(got \cup ids) \in got \cup ids
        /\ \A i \in got \cup ids : i <= Newest(got \cup ids)
    BY <1>1, <2>1, NewestIs
  <2>3. Newest(got) <= Newest(got \cup ids)
    <3>1. CASE got = {}
      BY <1>1, <2>2, <3>1 DEF Newest
    <3>2. CASE got # {}
      BY <1>1, <2>2, <3>2
    <3>3. QED BY <3>1, <3>2
  <2>4. Newest(got') = Newest(got \cup ids)
    BY Zenon, <1>2
  <2>5. Newest(got) \in Nat /\ Newest(got \cup ids) \in Nat
    BY <1>1, <2>2
  <2>6. QED BY Zenon, <1>2, <2>2, <2>3, <2>4, <2>5
<1>4. \A i \in ids : i \in Nat /\ i > g
  BY <1>1, <1>3 DEF Past
<1>5. CASE ~dialog.collecting
  <2>1. dialog' = dialog
    BY Zenon, <1>2, <1>5 DEF Scan
  <2>2. \A i : i <= dialog.till => (i \in got' <=> i \in got)
    BY <1>1, <1>2, <1>3, <1>4
  <2>3. Looked' = Looked
    BY <2>1, <2>2 DEF Looked
  <2>4. Alone' <=> Alone
    BY Zenon, <2>1 DEF Alone
  <2>5. \A a, b : (AnswerIs(a, b) => AnswerIs(a, b)') /\ (Shows(a, b) => Shows(a, b)')
    <3>1. ASSUME NEW a, NEW b PROVE AnswerIs(a, b) => AnswerIs(a, b)'
      BY Zenon, <2>1 DEF AnswerIs
    <3>2. ASSUME NEW a, NEW b, Shows(a, b), Alone', \A i \in a..b : i <= dialog'.till => i \in got'
          PROVE  dialog'.shown = MasksOf(a, EntriesTo(dialog.till, a, b))'
      <4>1. dialog.shown = MasksOf(a, EntriesTo(dialog.till, a, b))
        BY Zenon, <2>1, <2>2, <2>4, <3>2 DEF Shows
      <4>2. QED BY Zenon, <2>1, <4>1 DEF MasksOf, EntriesTo
    <3>3. ASSUME NEW a, NEW b PROVE Shows(a, b) => Shows(a, b)'
      BY Zenon, <3>2 DEF Shows
    <3>4. QED BY Zenon, <3>1, <3>3
  <2>6. ShowsEntries'
    BY Zenon, <2>1, <2>3, <2>5 DEF DialogInv, ShowsEntries
  <2>7. LooksOn' /\ Stopped'
    BY Zenon, <1>5, <2>1, <2>3 DEF DialogInv, LooksOn, Stopped
  <2>8. DialogTypes' /\ dialog'.till <= Newest(got)' /\ dialog'.since <= Newest(got)'
    <3>1. dialog'.till <= h /\ dialog'.since <= h
      BY <1>1, <1>3, <2>1
    <3>2. Newest(got)' = h
      BY Zenon, <1>3
    <3>3. QED BY Zenon, <2>1, <3>1, <3>2 DEF DialogInv, DialogTypes
  <2>9. QED BY Zenon, <1>2, <2>6, <2>7, <2>8 DEF DialogInv
<1>6. CASE dialog.collecting
  <2> DEFINE entries == {i \in ids : journal[i].kind = "entry"}
  <2>1. /\ dialog.open /\ got # {} /\ dialog.after = g /\ g \in got
        /\ dialog.till = g \/ (dialog.till = 0 /\ dialog.since = g)
        /\ \A i \in Looked : journal[i].kind # "end"
    BY <1>1, <1>3, <1>6 DEF DialogInv, LooksOn
  <2>2. {i \in LastOf(got \cup ids, Slice) : i > g} = ids /\ Newest(LastOf(got \cup ids, Slice)) = h
    <3>1. ids \in SUBSET (1..Len(journal)) /\ got \cup ids # {} /\ Slice \in Nat \ {0}
      BY <1>1, <1>2, ChannelModesAssumption
    <3>2. /\ Past(LastOf(got \cup ids, Slice), Newest(got)) = ids
          /\ Newest(LastOf(got \cup ids, Slice)) = Newest(got \cup ids)
      <4>1. PICK n, G, T, m : n = Len(journal) /\ G = got /\ T = ids /\ m = Slice
        BY Zenon
      <4>2. Follows(G, T, n, m)
        BY <1>1, <3>1, <4>1 DEF Follows, Past, LastOf
      <4>3. Past(LastOf(G \cup T, m), Newest(G)) = T /\ Newest(LastOf(G \cup T, m)) = Newest(G \cup T)
        BY <4>2, LastOfIs
      <4>4. QED BY Zenon, <4>1, <4>3
    <3>3. QED BY Zenon, <1>3, <3>2 DEF Past
  <2>3. Newest(ids \cup {g}) = h
    <3>1. ids \cup {g} \in SUBSET (1..Len(journal))
      BY <1>1, <2>1
    <3>2. Newest(ids \cup {g}) \in ids \cup {g} /\ \A i \in ids \cup {g} : i <= Newest(ids \cup {g})
      BY <1>1, <3>1, NewestIs
    <3>3. PICK n \in Nat : n = Newest(ids \cup {g})
      BY <3>1, <3>2
    <3>4. n <= h
      BY <1>2, <1>3, <2>1, <3>2, <3>3
    <3>5. h <= n
      <4>1. h \in ids => h <= n
        BY Zenon, <3>2, <3>3
      <4>2. g <= n
        BY Zenon, <3>2, <3>3
      <4>3. h \in got => h <= g
        BY Zenon, <1>1, <1>3
      <4>4. QED BY <1>2, <1>3, <3>3, <4>1, <4>2, <4>3
    <3>6. QED BY <1>3, <3>3, <3>4, <3>5
  <2>4. dialog' = [dialog EXCEPT !.shown = dialog.shown \o InOrder(entries),
                     !.collecting = \A i \in ids : journal[i].kind # "end", !.after = h, !.till = h]
    <3>1. dialog' = [dialog EXCEPT !.shown = dialog.shown \o InOrder({i \in {j \in LastOf(got \cup ids, Slice) : j > dialog.after} : journal[i].kind = "entry"}),
                     !.collecting = \A i \in {j \in LastOf(got \cup ids, Slice) : j > dialog.after} : journal[i].kind # "end",
                     !.after = Newest({i \in LastOf(got \cup ids, Slice) : i > dialog.after} \cup {dialog.after}),
                     !.till = Newest(LastOf(got \cup ids, Slice))]
      BY <1>2, <1>6, <2>1 DEF Scan
    <3>2. {i \in LastOf(got \cup ids, Slice) : i > dialog.after} = ids
      BY Zenon, <2>1, <2>2
    <3>3. QED BY Zenon, <2>1, <2>2, <2>3, <3>1, <3>2
  <2> HIDE DEF entries
  <2>5. /\ DOMAIN dialog = {"open", "collecting", "after", "shown", "ask", "since", "till", "reply"}
        /\ dialog.reply = dialog'.reply /\ dialog'.since = dialog.since /\ dialog'.ask = dialog.ask /\ dialog'.open = dialog.open
        /\ dialog'.shown = dialog.shown \o InOrder(entries) /\ dialog'.after = h /\ dialog'.till = h
        /\ dialog'.collecting = \A i \in ids : journal[i].kind # "end"
        /\ DOMAIN dialog' = DOMAIN dialog
    <3>1. DOMAIN dialog = {"open", "collecting", "after", "shown", "ask", "since", "till", "reply"}
      BY Zenon DEF DialogInv, DialogTypes
    <3>2. QED BY <2>4, <3>1
  <2>6. Looked' = Looked \cup ids
    <3>1. ASSUME NEW i \in got' PROVE (dialog.since < i /\ i <= h) <=> i \in Looked \cup ids
      <4>1. CASE i \in ids
        <5>1. g < i /\ i \in Nat /\ i <= h
          BY <1>3, <1>4, <4>1
        <5>2. dialog.since < i
          BY <1>1, <1>3, <5>1
        <5>3. QED BY <4>1, <5>1, <5>2
      <4>2. CASE i \notin ids
        <5>1. i \in got /\ i \in Nat /\ i <= g /\ i <= h
          BY <1>1, <1>2, <1>3, <4>2
        <5>2. dialog.since < i => i <= dialog.till
          BY <1>1, <1>3, <2>1, <5>1
        <5>3. i \in Looked <=> dialog.since < i
          BY Zenon, <5>1, <5>2 DEF Looked
        <5>4. QED BY Zenon, <4>2, <5>1, <5>3
      <4>3. QED BY <4>1, <4>2
    <3>2. Looked' = {i \in got' : dialog.since < i /\ i <= h}
      BY Zenon, <2>5 DEF Looked
    <3>3. Looked \cup ids \subseteq got'
      BY <1>2 DEF Looked
    <3>4. QED BY <3>1, <3>2, <3>3
  <2>7. LooksOn' /\ Stopped'
    <3>1. dialog'.collecting => \A i \in Looked' : journal'[i].kind # "end"
      BY Zenon, <2>1, <2>5, <2>6
    <3>2. ~dialog'.collecting => \E i \in Looked' : journal'[i].kind = "end"
      BY Zenon, <2>5, <2>6
    <3>3. QED BY Zenon, <1>2, <1>3, <2>1, <2>5, <3>1, <3>2 DEF LooksOn, Stopped
  <2>8. DialogTypes' /\ dialog'.till <= Newest(got)' /\ dialog'.since <= Newest(got)'
    <3>1. h <= h /\ dialog.since <= h
      BY <1>1, <1>3
    <3>2. dialog'.collecting \in BOOLEAN
      BY <2>5
    <3>3. Newest(got)' = h
      BY Zenon, <1>3
    <3>4. DialogTypes'
      BY <1>1, <1>3, <2>5, <3>2 DEF DialogTypes
    <3>5. QED BY Zenon, <2>5, <3>1, <3>3, <3>4
  <2>9. (\A i \in Looked' : journal'[i].kind # "entry") => dialog'.shown = <<>>
    <3>1. SUFFICES ASSUME \A i \in Looked' : journal[i].kind # "entry" PROVE dialog'.shown = <<>>
      BY Zenon
    <3>2. dialog.shown = <<>>
      BY Zenon, <2>6, <3>1 DEF DialogInv, ShowsEntries
    <3>3. entries = {}
      BY <2>6, <3>1 DEF entries
    <3>4. PICK x \in Nat, y \in Nat : x = 1 /\ y = 0 /\ x <= y + 1 /\ x..y = {} /\ 1..(y + 1 - x) = {}
      OBVIOUS
    <3>5. InOrder(x..y) = MasksOf(x, y + 1 - x)
      BY Zenon, <3>4, InOrderIs
    <3>6. InOrder({}) = [k \in {} |-> journal[x + k - 1].mask]
      BY Zenon, <3>4, <3>5 DEF MasksOf
    <3>7. InOrder(entries) = <<>>
      BY <3>3, <3>6
    <3>8. QED BY <2>5, <3>2, <3>7
  <2>10. ASSUME NEW a \in DOMAIN journal, NEW b \in DOMAIN journal, AnswerIs(a, b), Shows(a, b)
         PROVE  AnswerIs(a, b)' /\ Shows(a, b)'
    <3>1. AnswerIs(a, b)'
      BY Zenon, <2>5, <2>10 DEF AnswerIs
    <3>2. SUFFICES ASSUME Alone', \A i \in a..b : i <= h => i \in got'
                   PROVE  dialog'.shown = MasksOf(a, EntriesTo(h, a, b))
      BY Zenon, <2>5, <3>1 DEF Shows, EntriesTo, MasksOf
    <3>3. /\ dialog.reply = a..b /\ dialog.since < a /\ a <= b
          /\ \A i \in a..b : journal[i].kind = IF i = b THEN "end" ELSE "entry"
      BY Zenon, <2>10 DEF AnswerIs
    <3>4. \A i \in dialog.since + 1..h : journal[i].kind \in {"entry", "end"} => i \in a..b
      BY Zenon, <2>5, <3>2, <3>3 DEF Alone
    <3>5. Alone
      <4>1. \A i \in dialog.since + 1..dialog.till : i \in dialog.since + 1..h
        BY <1>1, <1>3
      <4>2. QED BY Zenon, <3>3, <3>4, <4>1 DEF Alone
    <3>6. \A i \in a..b : i <= dialog.till => i \in got
      <4>1. ASSUME NEW i \in a..b, i <= dialog.till PROVE i \in got
        <5>1. i <= g /\ i <= h
          BY <1>1, <1>3, <4>1
        <5>2. i \notin ids
          <6>1. SUFFICES ASSUME i \in ids PROVE FALSE
            OBVIOUS
          <6>2. QED BY <1>3, <1>4, <5>1, <6>1
        <5>3. QED BY <1>2, <3>2, <5>1, <5>2
      <4>2. QED BY <4>1
    <3>7. dialog.shown = MasksOf(a, EntriesTo(dialog.till, a, b))
      BY Zenon, <2>10, <3>5, <3>6 DEF Shows
    <3>8. EntriesTo(dialog.till, a, b) = EntriesTo(g, a, b)
      BY <1>1, <2>1, <3>3 DEF EntriesTo
    <3>9. entries = EntriesPast(g, h, a, b)
      <4>1. ASSUME NEW i \in entries PROVE i \in a..b /\ i # b /\ g < i /\ i <= h
        <5>1. i \in ids /\ journal[i].kind = "entry"
          BY DEF entries
        <5>2. g < i /\ i <= h /\ i \in Nat
          BY <1>2, <1>3, <1>4, <5>1
        <5>3. i \in dialog.since + 1..h
          BY <1>1, <1>3, <5>2
        <5>4. i \in a..b
          BY <3>4, <5>1, <5>3
        <5>5. QED BY <3>3, <5>1, <5>2, <5>4
      <4>2. ASSUME NEW i \in a..b, i # b, g < i, i <= h PROVE i \in entries
        <5>1. i \in got' /\ i \notin got
          <6>1. i \in got'
            BY Zenon, <3>2, <4>2
          <6>2. i \in got => i <= g /\ i \in Nat
            BY <1>1, <1>3
          <6>3. QED BY <1>3, <4>2, <6>1, <6>2
        <5>2. QED BY <1>2, <3>3, <4>2, <5>1 DEF entries
      <4>3. QED BY <4>1, <4>2 DEF EntriesPast
    <3>10. dialog.shown = MasksOf(a, EntriesTo(g, a, b))
      BY Zenon, <3>7, <3>8
    <3>11. a \in Nat /\ b \in Nat /\ 1 <= a
      BY <1>1
    <3>12. dialog.shown \o InOrder(entries) = MasksOf(a, EntriesTo(h, a, b))
      <4>1. InTurn(g, h, a, b)
        BY <1>3, <3>3, <3>11 DEF InTurn
      <4>2. PICK S : S = entries
        BY Zenon
      <4>3. S = EntriesPast(g, h, a, b)
        BY Zenon, <3>9, <4>2
      <4>4. MasksOf(a, EntriesTo(g, a, b)) \o InOrder(S) = MasksOf(a, EntriesTo(h, a, b))
        BY <4>1, <4>3, ReadsOn
      <4>5. QED BY Zenon, <3>10, <4>2, <4>4
    <3>13. QED BY Zenon, <2>5, <3>12
  <2>11. ShowsEntries'
    <3>1. ASSUME dialog'.reply # {}
          PROVE  dialog'.ask > 0 /\ \E a, b \in DOMAIN journal' : AnswerIs(a, b)' /\ Shows(a, b)'
      <4>1. dialog'.ask > 0
        BY Zenon, <2>5, <3>1 DEF DialogInv, ShowsEntries
      <4>2. PICK a \in DOMAIN journal, b \in DOMAIN journal : AnswerIs(a, b) /\ Shows(a, b)
        BY Zenon, <2>5, <3>1 DEF DialogInv, ShowsEntries
      <4>3. AnswerIs(a, b)' /\ Shows(a, b)'
        BY Zenon, <2>10, <4>2
      <4>4. QED BY Zenon, <4>1, <4>3
    <3>2. QED BY Zenon, <2>9, <3>1 DEF ShowsEntries
  <2>12. QED BY Zenon, <1>2, <2>7, <2>8, <2>11 DEF DialogInv
<1>7. QED BY <1>1, <1>5, <1>6

\* Those of the last ones that are the last ones
LEMMA LastOfLast ==
  ASSUME NEW n \in Nat, NEW S \in SUBSET (1..n), NEW m \in Nat \ {0}
  PROVE  LastOf(LastOf(S, m), m) = LastOf(S, m) /\ (S # {} => LastOf(S, m) # {})
<1>1. ASSUME NEW i \in LastOf(S, m) PROVE i \in LastOf(LastOf(S, m), m)
  <2> DEFINE P == {j \in S : j > i}
             Q == {j \in LastOf(S, m) : j > i}
  <2>1. Cardinality(P) < m /\ Q \subseteq P /\ P \subseteq 1..n
    BY <1>1 DEF LastOf
  <2>2. IsFiniteSet(1..n)
    BY FS_Interval
  <2> HIDE DEF P, Q
  <2>3. IsFiniteSet(P)
    BY Zenon, <2>1, <2>2, FS_Subset
  <2>4. IsFiniteSet(Q) /\ Cardinality(Q) <= Cardinality(P)
    BY Zenon, <2>1, <2>3, FS_Subset
  <2>5. Cardinality(Q) \in Nat /\ Cardinality(P) \in Nat
    BY Zenon, <2>3, <2>4, FS_CardinalityType
  <2>6. Cardinality(Q) < m
    BY <2>1, <2>4, <2>5
  <2>7. QED BY Zenon, <1>1, <2>6 DEF Q, LastOf
<1>2. LastOf(LastOf(S, m), m) \subseteq LastOf(S, m)
  BY Zenon DEF LastOf
<1>3. ASSUME S # {} PROVE Newest(S) \in LastOf(S, m)
  <2>1. Newest(S) \in S /\ \A j \in S : j <= Newest(S)
    BY Zenon, <1>3, NewestIs
  <2>2. ASSUME NEW j \in S PROVE ~(j > Newest(S))
    <3>1. \A i, k \in 1..n : i <= k => ~(i > k)
      OBVIOUS
    <3>2. j \in 1..n /\ Newest(S) \in 1..n
      BY Zenon, <2>1
    <3>3. QED BY Zenon, <2>1, <3>1, <3>2
  <2>3. {j \in S : j > Newest(S)} = {}
    BY Zenon, <2>2
  <2>4. Cardinality({}) < m
    BY FS_EmptySet
  <2>5. QED BY Zenon, <2>1, <2>3, <2>4 DEF LastOf
<1>4. QED BY <1>1, <1>2, <1>3

\* Rows that are written come after the ones there are.
LEMMA WrittenAre ==
  ASSUME LogTypes, NEW rows \in Seq(Entered), journal' = journal \o rows
  PROVE  /\ Len(journal') = Len(journal) + Len(rows) /\ DOMAIN journal' = 1..Len(journal')
         /\ \A i \in DOMAIN journal : i \in DOMAIN journal' /\ journal'[i] = journal[i]
         /\ \A i \in 1..Len(rows) : journal'[Len(journal) + i] = rows[i]
<1>1. journal \in Seq(Entered) /\ DOMAIN journal = 1..Len(journal) /\ Len(journal) \in Nat /\ Len(rows) \in Nat
  BY DEF LogTypes
<1>2. /\ journal \o rows \in Seq(Entered) /\ Len(journal \o rows) = Len(journal) + Len(rows)
      /\ \A i \in 1..Len(journal) + Len(rows) :
           (journal \o rows)[i] = IF i <= Len(journal) THEN journal[i] ELSE rows[i - Len(journal)]
  BY Zenon, <1>1, ConcatProperties
<1>3. /\ journal' \in Seq(Entered) /\ Len(journal') = Len(journal) + Len(rows)
      /\ \A i \in 1..Len(journal) + Len(rows) :
           journal'[i] = IF i <= Len(journal) THEN journal[i] ELSE rows[i - Len(journal)]
  BY Zenon, <1>2
<1>4. DOMAIN journal' = 1..Len(journal')
  BY <1>3
<1>5. ASSUME NEW i \in DOMAIN journal PROVE i \in DOMAIN journal' /\ journal'[i] = journal[i]
  <2>1. i \in 1..Len(journal) + Len(rows) /\ i <= Len(journal)
    BY <1>1
  <2>2. QED BY Zenon, <1>3, <1>4, <2>1
<1>6. ASSUME NEW i \in 1..Len(rows) PROVE journal'[Len(journal) + i] = rows[i]
  <2>1. /\ Len(journal) + i \in 1..Len(journal) + Len(rows) /\ ~(Len(journal) + i <= Len(journal))
        /\ (Len(journal) + i) - Len(journal) = i
    BY <1>1
  <2>2. QED BY <1>3, <2>1
<1>7. QED BY Zenon, <1>3, <1>4, <1>5, <1>6

\* A dialog that has just been opened, closed or used to ask
LEMMA NewDialogIs ==
  ASSUME LogTypes, got' = got, online' => got # {}, NEW n \in Nat,
         \/ dialog' \in {NoDialog, [NoDialog EXCEPT !.open = TRUE]}
         \/ /\ got # {}
            /\ dialog' = [NoDialog EXCEPT !.open = TRUE, !.collecting = TRUE, !.ask = n + 1,
                            !.after = Newest(got), !.since = Newest(got)]
  PROVE  DialogInv'
<1>1. got \in SUBSET (1..Len(journal)) /\ Len(journal) \in Nat /\ Newest(got) \in Nat
  <2>1. got \in SUBSET (1..Len(journal)) /\ Len(journal) \in Nat
    BY DEF LogTypes
  <2>2. Newest(got) \in 0..Len(journal)
    BY Zenon, <2>1, NewestIs
  <2>3. QED BY <2>1, <2>2
<1>2. /\ DOMAIN dialog' = {"open", "collecting", "after", "shown", "ask", "since", "till", "reply"}
      /\ dialog'.open \in BOOLEAN /\ dialog'.collecting \in BOOLEAN
      /\ dialog'.after \in Nat /\ dialog'.ask \in Nat /\ dialog'.till = 0 /\ dialog'.since \in {0, Newest(got)}
      /\ dialog'.reply = {} /\ dialog'.shown = <<>>
      /\ dialog'.ask > 0 => dialog'.collecting
      /\ dialog'.collecting => dialog'.open /\ got # {} /\ dialog'.after = Newest(got) /\ dialog'.since = Newest(got)
  <2>1. PICK m \in Nat : m = Newest(got)
    BY <1>1
  <2>2. CASE dialog' = NoDialog
    BY <2>1, <2>2 DEF NoDialog
  <2>5. CASE dialog' = [NoDialog EXCEPT !.open = TRUE]
    BY <2>1, <2>5 DEF NoDialog
  <2>3. CASE /\ got # {}
             /\ dialog' = [NoDialog EXCEPT !.open = TRUE, !.collecting = TRUE, !.ask = n + 1, !.after = m, !.since = m]
    BY <2>1, <2>3 DEF NoDialog
  <2>4. QED BY Zenon, <2>1, <2>2, <2>3, <2>5
<1>3. dialog'.since \in Nat /\ dialog'.till \in Nat /\ dialog'.till <= Newest(got) /\ dialog'.since <= Newest(got)
  BY <1>1, <1>2
<1>4. DialogTypes'
  BY <1>2, <1>3 DEF DialogTypes
<1>5. Looked' = {}
  <2>1. ASSUME NEW i \in got PROVE ~(dialog'.since < i /\ i <= dialog'.till)
    BY <1>1, <1>2, <1>3
  <2>2. QED BY Zenon, <2>1 DEF Looked
<1>6. LooksOn' /\ Stopped' /\ ShowsEntries'
  BY Zenon, <1>2, <1>5 DEF LooksOn, Stopped, ShowsEntries
<1>7. Newest(got)' = Newest(got)
  BY Zenon
<1>8. QED BY Zenon, <1>3, <1>4, <1>6, <1>7 DEF DialogInv

\* A first connection is told of all there is, but a dialog has not been used before it.
LEMMA ColdKeepsList ==
  ASSUME LogTypes, DialogInv, ColdStart, DOMAIN journal # {}
  PROVE  DialogInv'
<1>1. got = {} /\ got' = DOMAIN journal /\ journal' = journal /\ dialog' = dialog
  BY DEF ColdStart, serverVars
<1>2. Newest(got) = 0 /\ dialog.till = 0 /\ dialog.since = 0 /\ dialog.ask \in Nat /\ Looked = {}
  <2>1. Newest(got) = 0
    BY <1>1 DEF Newest
  <2>2. QED BY <1>1, <2>1, DialogIs DEF Looked
<1>3. ~dialog.collecting /\ ~(dialog.ask > 0) /\ dialog.reply = {} /\ dialog.shown = <<>>
  <2>1. ~dialog.collecting
    BY Zenon, <1>1 DEF DialogInv, LooksOn
  <2>2. ~(dialog.ask > 0)
    BY Zenon, <1>2, <2>1 DEF DialogInv, Stopped
  <2>3. QED BY Zenon, <1>2, <2>1, <2>2 DEF DialogInv, ShowsEntries
<1>4. Looked' = {}
  <2>1. ASSUME NEW i \in DOMAIN journal PROVE ~(dialog.since < i /\ i <= dialog.till)
    BY <1>2, DialogIs
  <2>2. QED BY Zenon, <1>1, <2>1 DEF Looked
<1>5. LooksOn' /\ Stopped' /\ ShowsEntries'
  BY Zenon, <1>1, <1>3, <1>4 DEF LooksOn, Stopped, ShowsEntries
<1>6. 0 <= Newest(got') /\ Newest(got)' = Newest(got')
  <2>1. Len(journal) \in Nat /\ got' \in SUBSET (1..Len(journal))
    BY <1>1, DialogIs
  <2>2. PICK G : G = got'
    BY Zenon
  <2>3. Newest(G) \in 0..Len(journal)
    BY Zenon, <2>1, <2>2, NewestIs
  <2>4. 0 <= Newest(G)
    BY <2>1, <2>3
  <2>5. QED BY Zenon, <2>2, <2>4
<1>7. DialogTypes' /\ dialog'.till <= Newest(got)' /\ dialog'.since <= Newest(got)' /\ got' # {}
  BY Zenon, <1>1, <1>2, <1>6 DEF DialogInv, DialogTypes
<1>8. QED BY Zenon, <1>5, <1>7 DEF DialogInv

\* The answer is written after all the rows that the dialog has looked through.
LEMMA AnswerKeepsList ==
  ASSUME LogTypes, DialogInv, NEW letter \in Letters, journal' = journal \o Reply(letter), dialog.ask > 0,
         dialog' = [dialog EXCEPT !.reply = Len(journal) + 1..Len(journal')], got' = got, online' = online
  PROVE  DialogInv'
<1>1. /\ Len(journal) \in Nat /\ DOMAIN journal = 1..Len(journal) /\ got \in SUBSET (1..Len(journal))
      /\ Newest(got) \in 0..Len(journal)
      /\ dialog.till \in Nat /\ dialog.since \in Nat /\ dialog.till <= Newest(got) /\ dialog.since <= Newest(got)
  BY DialogIs
<1>2. PICK rows : rows = Reply(letter)
  BY Zenon
<1>3. /\ rows \in Seq(Entered) /\ Len(rows) \in Nat \ {0}
      /\ \A i \in 1..Len(rows) : rows[i].kind = IF i = Len(rows) THEN "end" ELSE "entry"
  BY Zenon, <1>2, ReplyIs
<1>4. /\ Len(journal') = Len(journal) + Len(rows) /\ DOMAIN journal' = 1..Len(journal')
      /\ \A i \in DOMAIN journal : i \in DOMAIN journal' /\ journal'[i] = journal[i]
      /\ \A i \in 1..Len(rows) : journal'[Len(journal) + i] = rows[i]
  BY Zenon, <1>2, <1>3, WrittenAre
<1>5. PICK a, b : /\ a = Len(journal) + 1 /\ b = Len(journal')
  BY Zenon
<1>6. a \in Nat /\ b \in Nat /\ a <= b /\ a \in DOMAIN journal' /\ b \in DOMAIN journal'
  BY <1>1, <1>3, <1>4, <1>5
<1>7. /\ DOMAIN dialog = {"open", "collecting", "after", "shown", "ask", "since", "till", "reply"}
      /\ DOMAIN dialog' = DOMAIN dialog /\ dialog'.open = dialog.open /\ dialog'.collecting = dialog.collecting
      /\ dialog'.after = dialog.after /\ dialog'.shown = dialog.shown /\ dialog'.ask = dialog.ask
      /\ dialog'.since = dialog.since /\ dialog'.till = dialog.till /\ dialog'.reply = a..b
  <2>1. DOMAIN dialog = {"open", "collecting", "after", "shown", "ask", "since", "till", "reply"}
    BY Zenon DEF DialogInv, DialogTypes
  <2>2. dialog' = [dialog EXCEPT !.reply = a..b]
    BY Zenon, <1>5
  <2>3. QED BY <2>1, <2>2
<1>8. Looked' = Looked /\ \A i \in Looked : journal'[i] = journal[i]
  BY Zenon, <1>1, <1>4, <1>7 DEF Looked
<1>9. LooksOn' /\ Stopped'
  BY Zenon, <1>7, <1>8 DEF DialogInv, LooksOn, Stopped
<1>10. AnswerIs(a, b)'
  <2>1. dialog.since < a
    BY <1>1, <1>5
  <2>2. ASSUME NEW i \in a..b PROVE journal'[i].kind = IF i = b THEN "end" ELSE "entry"
    <3>1. PICK j \in 1..Len(rows) : i = Len(journal) + j /\ (i = b <=> j = Len(rows))
      <4>1. i - Len(journal) \in 1..Len(rows) /\ i = Len(journal) + (i - Len(journal))
            /\ (i = b <=> i - Len(journal) = Len(rows))
        BY <1>1, <1>3, <1>4, <1>5, <1>6
      <4>2. QED BY <4>1
    <3>2. journal'[i] = rows[j]
      BY Zenon, <1>4, <3>1
    <3>3. QED BY Zenon, <1>3, <3>1, <3>2
  <2>3. QED BY Zenon, <1>6, <1>7, <2>1, <2>2 DEF AnswerIs
<1>11. ASSUME Alone' PROVE dialog'.shown = MasksOf(a, EntriesTo(dialog.till, a, b))'
  <2>1. ASSUME NEW i \in Looked PROVE journal[i].kind # "entry"
    <3>1. i \in dialog.since + 1..dialog.till /\ i \notin a..b
      BY <1>1, <1>5 DEF Looked
    <3>2. journal'[i].kind \in {"entry", "end"} => i \in dialog'.reply
      BY Zenon, <1>7, <1>11, <3>1 DEF Alone
    <3>3. QED BY Zenon, <1>7, <1>8, <3>1, <3>2
  <2>2. dialog.shown = <<>>
    BY Zenon, <2>1 DEF DialogInv, ShowsEntries
  <2>3. dialog'.till < a
    BY <1>1, <1>5, <1>7
  <2>4. MasksOf(a, EntriesTo(dialog.till, a, b))' = [k \in 1..0 |-> journal'[a + k - 1].mask]
    BY Zenon, <2>3 DEF MasksOf, EntriesTo
  <2>5. dialog'.shown = <<>> /\ [k \in 1..0 |-> journal'[a + k - 1].mask] = <<>>
    BY <1>7, <2>2
  <2>6. QED BY Zenon, <2>4, <2>5
<1>12. Shows(a, b)'
  BY Zenon, <1>11 DEF Shows, EntriesTo, MasksOf
<1>13. ShowsEntries'
  <2>1. (\A i \in Looked' : journal'[i].kind # "entry") => dialog'.shown = <<>>
    BY Zenon, <1>7, <1>8 DEF DialogInv, ShowsEntries
  <2>2. QED BY Zenon, <1>6, <1>7, <1>10, <1>12, <2>1 DEF ShowsEntries
<1>14. DialogTypes' /\ dialog'.till <= Newest(got)' /\ dialog'.since <= Newest(got)' /\ (online' => got' # {})
  BY Zenon, <1>7 DEF DialogInv, DialogTypes
<1>15. QED BY Zenon, <1>9, <1>13, <1>14 DEF DialogInv

\* Every step keeps what the dialog has looked through in step with the log.
LEMMA ListStep ==
  ASSUME ModesInv, DialogInv, Talks \/ Lists PROVE DialogInv'
<1>1. /\ LogTypes /\ QIsSaid /\ asked \in Nat /\ out \in Seq(Honest)
      /\ Len(journal) \in Nat /\ DOMAIN journal = 1..Len(journal) /\ got \in SUBSET (1..Len(journal))
      /\ Newest(got) \in 0..Len(journal) /\ (online => got # {})
  <2>1. LogTypes /\ QIsSaid /\ out \in Seq(Honest) /\ asked \in Nat
    BY Zenon DEF ModesInv, LogTypes
  <2>2. online => got # {}
    BY Zenon DEF DialogInv
  <2>3. QED BY Zenon, <2>1, <2>2, DialogIs
<1>2. DOMAIN journal # {}
  BY <1>1 DEF QIsSaid, Registrations
\* the log grows, or not
<1>3. ASSUME dialog' = dialog, got' = got, online' => got # {},
             NEW rows \in Seq(Entered), journal' = journal \o rows
      PROVE  DialogInv'
  <2>1. \A i \in DOMAIN journal : i \in DOMAIN journal' /\ journal'[i] = journal[i]
    BY Zenon, <1>1, <1>3, WrittenAre
  <2>2. QED BY Zenon, <1>1, <1>3, <2>1, DialogStays
<1>4. ASSUME dialog' = dialog, got' = got, online' => got # {}, journal' = journal PROVE DialogInv'
  <2>1. \A i \in DOMAIN journal : i \in DOMAIN journal' /\ journal'[i] = journal[i]
    BY Zenon, <1>4
  <2>2. QED BY Zenon, <1>1, <1>4, <2>1, DialogStays
<1>5. ASSUME Deliver PROVE DialogInv'
  <2>1. PICK x : x = Newest(got) + 1
    BY Zenon
  <2>2. Newest(got) < Len(journal) /\ Come({x}) /\ journal' = journal /\ got' = got \cup {x}
    BY <1>5, <2>1 DEF Deliver, Come, serverVars
  <2>3. {x} \in SUBSET DOMAIN journal /\ x > Newest(got) /\ x \in Nat
    BY <1>1, <2>1, <2>2
  <2>4. {x} = Past({x}, Newest(got))
    BY <2>3 DEF Past
  <2>5. {x} = LastOf({x}, Slice)
    <3>1. {j \in {x} : j > x} = {} /\ Slice > 0
      BY <2>3, ChannelModesAssumption
    <3>2. Cardinality({}) = 0 /\ 0 < Slice
      BY <3>1, FS_EmptySet
    <3>3. Cardinality({j \in {x} : j > x}) < Slice
      BY Zenon, <3>1, <3>2
    <3>4. QED BY Zenon, <3>3 DEF LastOf
  <2>6. got' # {}
    BY <2>2
  <2>7. PICK ids : ids = {x}
    BY Zenon
  <2>8. ids \in SUBSET DOMAIN journal /\ ids = Past(ids, Newest(got)) /\ ids = LastOf(ids, Slice) /\ Come(ids)
    BY Zenon, <2>2, <2>3, <2>4, <2>5, <2>7
  <2>9. QED BY Zenon, <1>1, <2>2, <2>6, <2>8, ComeKeepsList
<1>6. ASSUME Resume PROVE DialogInv'
  <2>1. PICK rest : rest = DOMAIN journal \ 1..Newest(got)
    BY Zenon
  <2>2. PICK ids : ids = LastOf(rest, Slice)
    BY Zenon
  <2>3. Come(ids) /\ journal' = journal /\ got' = got \cup ids
    BY Zenon, <1>6, <2>1, <2>2 DEF Resume, Come, serverVars
  <2>4. rest \in SUBSET (1..Len(journal)) /\ (\A i \in rest : i > Newest(got)) /\ Slice \in Nat \ {0}
    BY <1>1, <2>1, ChannelModesAssumption
  <2>5. LastOf(ids, Slice) = ids /\ (rest # {} => ids # {})
    BY Zenon, <1>1, <2>2, <2>4, LastOfLast
  <2>6. ids \subseteq rest
    BY Zenon, <2>2 DEF LastOf
  <2>7. ids \in SUBSET DOMAIN journal /\ ids = Past(ids, Newest(got))
    BY <1>1, <2>4, <2>6 DEF Past
  <2>8. got' # {}
    <3>1. CASE got = {}
      <4>1. Newest(got) = 0
        BY <3>1 DEF Newest
      <4>2. rest # {}
        BY <1>2, <2>1, <4>1
      <4>3. QED BY Zenon, <2>3, <2>5, <4>2
    <3>2. CASE got # {}
      BY Zenon, <2>3, <3>2
    <3>3. QED BY <3>1, <3>2
  <2>9. QED BY Zenon, <1>1, <2>3, <2>5, <2>7, <2>8, ComeKeepsList
<1>7. ASSUME ColdStart PROVE DialogInv'
  BY Zenon, <1>1, <1>2, <1>7, ColdKeepsList
<1>8. ASSUME Drop PROVE DialogInv'
  <2>1. dialog' = dialog /\ got' = got /\ journal' = journal /\ online' = FALSE
    BY <1>8 DEF Drop
  <2>2. QED BY Zenon, <1>4, <2>1
<1>9. ASSUME NEW c, Command(c) PROVE DialogInv'
  <2>1. dialog' = dialog /\ got' = got /\ journal' = journal /\ online' = online
    BY <1>9 DEF Command
  <2>2. QED BY Zenon, <1>1, <1>4, <2>1
<1>10. ASSUME OpenDialog \/ CloseDialog PROVE DialogInv'
  <2>1. dialog' \in {NoDialog, [NoDialog EXCEPT !.open = TRUE]} /\ got' = got /\ online' = online
    BY <1>10 DEF OpenDialog, CloseDialog
  <2>2. QED BY Zenon, <1>1, <2>1, NewDialogIs
<1>11. ASSUME NEW letter, AskList(letter) PROVE DialogInv'
  <2>1. /\ got' = got /\ online' = online /\ got # {}
        /\ dialog' = [NoDialog EXCEPT !.open = TRUE, !.collecting = TRUE, !.ask = asked + 1,
                        !.after = Newest(got), !.since = Newest(got)]
    BY <1>11 DEF AskList, Send
  <2>2. LogTypes /\ (online' => got # {}) /\ asked \in Nat
    BY <1>1, <2>1 DEF LogTypes
  <2>3. QED BY Zenon, <2>1, <2>2, NewDialogIs
<1>12. ASSUME Serve PROVE DialogInv'
  <2>1. /\ out # <<>> /\ got' = got /\ online' = online
        /\ \/ dialog' = dialog /\ journal' = journal
           \/ /\ Head(out).ask > 0 /\ journal' = journal \o Reply(Head(out).line.letter)
              /\ \/ dialog' = dialog
                 \/ /\ Head(out).ask = dialog.ask
                    /\ dialog' = [dialog EXCEPT !.reply = Len(journal) + 1..Len(journal')]
    BY <1>12 DEF Serve, Write
  <2>2. PICK m : m = Head(out)
    BY Zenon
  <2>3. m \in Honest
    BY <1>1, <2>1, <2>2
  <2>4. CASE dialog' = dialog /\ journal' = journal
    BY Zenon, <1>1, <1>4, <2>1, <2>4
  <2>5. CASE m.ask > 0 /\ journal' = journal \o Reply(m.line.letter)
    <3>1. PICK letter : letter = m.line.letter
      BY Zenon
    <3>2. letter \in Letters
      BY <2>3, <2>5, <3>1 DEF Honest
    <3>3. Reply(letter) \in Seq(Entered) /\ journal' = journal \o Reply(letter)
      BY Zenon, <1>1, <2>5, <3>1, <3>2, ReplyIs
    <3>4. CASE dialog' = dialog
      BY Zenon, <1>1, <1>3, <2>1, <3>3, <3>4
    <3>5. CASE m.ask = dialog.ask /\ dialog' = [dialog EXCEPT !.reply = Len(journal) + 1..Len(journal')]
      <4>1. dialog.ask > 0
        BY Zenon, <2>5, <3>5
      <4>2. QED BY Zenon, <1>1, <2>1, <3>2, <3>3, <3>5, <4>1, AnswerKeepsList
    <3>6. QED BY Zenon, <1>1, <1>4, <2>1, <2>2, <3>4, <3>5
  <2>6. QED BY Zenon, <2>1, <2>2, <2>4, <2>5
<1>13. ASSUME NEW letter \in Letters, OthersAsk(letter) PROVE DialogInv'
  <2>1. journal' = journal \o Reply(letter) /\ dialog' = dialog /\ got' = got /\ online' = online
    BY <1>13 DEF OthersAsk, Write
  <2>2. Reply(letter) \in Seq(Entered)
    BY Zenon, <1>1, ReplyIs
  <2>3. QED BY Zenon, <1>1, <1>3, <2>1, <2>2
<1>14. ASSUME NEW v \in {"owner", "quiet"}, Register(v) PROVE DialogInv'
  <2> DEFINE row == Row("isupport", v, NoMask)
  <2>1. journal' = journal \o <<row>> /\ dialog' = dialog /\ got' = got /\ online' = online
    BY <1>14 DEF Register, Write
  <2>2. row \in Entered
    BY DEF Row, Entered
  <2> HIDE DEF row
  <2>3. <<row>> \in Seq(Entered)
    BY <2>2
  <2>4. QED BY Zenon, <1>1, <1>3, <2>1, <2>3
<1>15. Talks \/ Lists
  OBVIOUS
<1>16. QED BY Zenon, <1>15, <1>5, <1>6, <1>7, <1>8, <1>9, <1>10, <1>11, <1>12, <1>13, <1>14 DEF Talks, Lists, Logs

\* Once its end has come the dialog shows the list that it asked for, each entry
\* once (channeldialog.rs refresh), however the log came and whatever else was
\* asked, registered or lost meanwhile.
THEOREM ListIsShown == Spec => []ListAgrees
<1>1. Init => ModesInv /\ DialogInv
  <2>1. ASSUME ModesInit PROVE ModesInv
    BY Zenon, <2>1, ModesBegin
  <2>2. ASSUME ModesInit PROVE DialogInv
    <3>1. got = {} /\ online = FALSE /\ dialog = NoDialog /\ Newest(got) = 0
      BY <2>2 DEF ModesInit, Newest
    <3>2. /\ DOMAIN dialog = {"open", "collecting", "after", "shown", "ask", "since", "till", "reply"}
          /\ dialog.open \in BOOLEAN /\ dialog.collecting \in BOOLEAN /\ ~dialog.collecting
          /\ dialog.after = 0 /\ dialog.ask = 0
          /\ dialog.since = 0 /\ dialog.till = 0 /\ dialog.reply = {} /\ dialog.shown = <<>>
      BY <3>1 DEF NoDialog
    <3>3. DialogTypes /\ dialog.till <= Newest(got) /\ dialog.since <= Newest(got)
      <4>1. DialogTypes
        BY <3>2 DEF DialogTypes
      <4>2. PICK m : m = Newest(got) /\ m = 0
        BY Zenon, <3>1
      <4>3. dialog.till <= m /\ dialog.since <= m
        BY <3>2, <4>2
      <4>4. QED BY Zenon, <4>1, <4>2, <4>3
    <3>4. Looked = {} /\ ~(dialog.ask > 0)
      BY <3>1, <3>2 DEF Looked
    <3>5. LooksOn /\ Stopped /\ ShowsEntries
      BY Zenon, <3>2, <3>4 DEF LooksOn, Stopped, ShowsEntries
    <3>6. QED BY Zenon, <3>1, <3>3, <3>5 DEF DialogInv
  <2>3. QED BY Zenon, <2>1, <2>2 DEF Init
<1>2. ModesInv /\ DialogInv /\ [Next]_screenVars => (ModesInv /\ DialogInv)'
  <2>1. [Next]_screenVars => Talks \/ Lists \/ UNCHANGED modesVars
    BY Zenon DEF Next, screenVars
  <2>2. ASSUME ModesInv, UNCHANGED modesVars PROVE ModesInv'
    BY Zenon, <2>2, ModesRest
  <2>3. ASSUME DialogInv, UNCHANGED modesVars PROVE DialogInv'
    <3>1. journal' = journal /\ got' = got /\ online' = online /\ dialog' = dialog
      BY <2>3 DEF modesVars, serverVars
    <3>2. Looked' = Looked /\ (Alone' <=> Alone)
      BY Zenon, <3>1 DEF Looked, Alone
    <3>3. LooksOn' /\ Stopped'
      BY Zenon, <2>3, <3>1, <3>2 DEF DialogInv, LooksOn, Stopped
    <3>4. \A a, b : (AnswerIs(a, b) => AnswerIs(a, b)') /\ (Shows(a, b) => Shows(a, b)')
      <4>1. ASSUME NEW a, NEW b PROVE AnswerIs(a, b) => AnswerIs(a, b)'
        BY Zenon, <3>1 DEF AnswerIs
      <4>2. ASSUME NEW a, NEW b, Shows(a, b), Alone', \A i \in a..b : i <= dialog'.till => i \in got'
            PROVE  dialog'.shown = MasksOf(a, EntriesTo(dialog.till, a, b))'
        <5>1. dialog.shown = MasksOf(a, EntriesTo(dialog.till, a, b))
          BY Zenon, <3>1, <3>2, <4>2 DEF Shows
        <5>2. QED BY Zenon, <3>1, <5>1 DEF MasksOf, EntriesTo
      <4>3. ASSUME NEW a, NEW b PROVE Shows(a, b) => Shows(a, b)'
        BY Zenon, <4>2 DEF Shows
      <4>4. QED BY Zenon, <4>1, <4>3
    <3>5. ShowsEntries'
      BY Zenon, <2>3, <3>1, <3>2, <3>4 DEF DialogInv, ShowsEntries
    <3>6. QED BY Zenon, <2>3, <3>1, <3>3, <3>5 DEF DialogInv, DialogTypes
  <2>4. QED BY Zenon, <2>1, <2>2, <2>3, ModesStep, ListStep
<1>3. ModesInv /\ DialogInv => ListAgrees
  <2>1. SUFFICES ASSUME ModesInv, DialogInv, dialog.open, ~dialog.collecting, dialog.reply # {},
                        dialog.reply \subseteq got, Alone
                 PROVE  dialog.shown =
                          [i \in 1..Cardinality(dialog.reply) - 1 |-> journal[Min(dialog.reply) + i - 1].mask]
    BY Zenon DEF ListAgrees
  <2>2. LogTypes
    BY Zenon, <2>1 DEF ModesInv
  <2>3. PICK a \in DOMAIN journal, b \in DOMAIN journal : dialog.ask > 0 /\ AnswerIs(a, b) /\ Shows(a, b)
    BY Zenon, <2>1 DEF DialogInv, ShowsEntries
  <2>4. /\ dialog.reply = a..b /\ dialog.since < a /\ a <= b /\ a..b \subseteq got
        /\ \A i \in a..b : journal[i].kind = IF i = b THEN "end" ELSE "entry"
    BY Zenon, <2>1, <2>3 DEF AnswerIs
  <2>5. a \in Nat /\ b \in Nat /\ 1 <= a /\ dialog.till \in Nat /\ dialog.since \in Nat /\ got \in SUBSET Nat
    BY <2>1, <2>2, DialogIs
  <2>6. b <= dialog.till
    <3>1. PICK i \in Looked : journal[i].kind = "end"
      BY Zenon, <2>1, <2>3 DEF DialogInv, Stopped
    <3>2. i \in dialog.since + 1..dialog.till
      BY <2>5, <3>1 DEF Looked
    <3>3. i \in a..b
      BY Zenon, <2>1, <2>4, <3>1, <3>2 DEF Alone
    <3>4. i = b
      BY <2>4, <3>1, <3>3
    <3>5. QED BY <2>5, <3>2, <3>4
  <2>7. dialog.shown = MasksOf(a, b - a)
    <3>1. \A i \in a..b : i <= dialog.till => i \in got
      BY <2>4
    <3>2. dialog.shown = MasksOf(a, EntriesTo(dialog.till, a, b))
      BY Zenon, <2>1, <2>3, <3>1 DEF Shows
    <3>3. EntriesTo(dialog.till, a, b) = b - a
      BY <2>4, <2>5, <2>6 DEF EntriesTo
    <3>4. QED BY Zenon, <3>2, <3>3
  <2>8. Cardinality(a..b) = b - a + 1
    BY <2>4, <2>5, FS_Interval
  <2>9. Min(a..b) = a
    <3>1. a \in a..b /\ \A i \in a..b : a <= i
      BY <2>4, <2>5
    <3>2. Min(a..b) \in a..b /\ \A i \in a..b : Min(a..b) <= i
      BY Zenon, <3>1 DEF Min
    <3>3. Min(a..b) <= a /\ Min(a..b) >= a /\ Min(a..b) \in Int
      BY <3>1, <3>2
    <3>4. QED BY <2>5, <3>3
  <2>10. Cardinality(dialog.reply) - 1 = b - a /\ Min(dialog.reply) = a
    BY <2>4, <2>5, <2>8, <2>9
  <2>11. QED BY Zenon, <2>7, <2>10 DEF MasksOf
<1>4. QED BY <1>1, <1>2, <1>3, PTL DEF Spec

================================================================================
