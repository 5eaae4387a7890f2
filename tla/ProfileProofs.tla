------------------------------- MODULE ProfileProofs -------------------------------
(***************************************************************************)
(* Theorems about Profile, for any number of tokens, launches, networks and     *)
(* calls: what becomes of tokens from launch to launch, what the page unit is    *)
(* made of, and that settings and networks settle on what the server has.       *)
(***************************************************************************)
EXTENDS Profile, TLAPS

(* A launch loads what the first place that answers has, and 0 if none has any. *)
LEMMA LoadOrder ==
  ASSUME NEW k \in [Places -> Nat], NEW r \in BOOLEAN
  PROVE  Load(k, r) = IF r /\ k["ring"] # 0 THEN k["ring"]
                      ELSE IF r /\ k["oldRing"] # 0 THEN k["oldRing"]
                      ELSE IF k["file"] # 0 THEN k["file"] ELSE k["oldFile"]
<1> DEFINE order == <<"ring", "oldRing", "file", "oldFile">>
           found == {i \in 1..4 : k[order[i]] # 0 /\ (order[i] \in {"ring", "oldRing"} => r)}
           first == CHOOSE i \in found : \A j \in found : i <= j
<1>1. Load(k, r) = IF found = {} THEN 0 ELSE k[order[first]]
  BY DEF Load
<1>2. /\ 1 \in found <=> k["ring"] # 0 /\ r
      /\ 2 \in found <=> k["oldRing"] # 0 /\ r
      /\ 3 \in found <=> k["file"] # 0
      /\ 4 \in found <=> k["oldFile"] # 0
      /\ found \subseteq {1, 2, 3, 4}
  OBVIOUS
<1>3. order[1] = "ring" /\ order[2] = "oldRing" /\ order[3] = "file" /\ order[4] = "oldFile"
  OBVIOUS
<1> HIDE DEF order, found
<1>4. ASSUME NEW i \in found, \A j \in found : i <= j
      PROVE  first = i
  <2>1. first \in found /\ \A j \in found : first <= j
    BY <1>4, Zenon
  <2> HIDE DEF first
  <2>2. first <= i /\ i <= first
    BY <1>4, <2>1
  <2>3. QED BY <1>2, <2>1, <2>2
<1> HIDE DEF first
<1>5. CASE 1 \in found
  <2>1. first = 1
    BY <1>2, <1>4, <1>5
  <2>2. QED BY <1>1, <1>2, <1>3, <1>5, <2>1
<1>6. CASE 1 \notin found /\ 2 \in found
  <2>1. first = 2
    BY <1>2, <1>4, <1>6
  <2>2. QED BY <1>1, <1>2, <1>3, <1>6, <2>1
<1>7. CASE 1 \notin found /\ 2 \notin found /\ 3 \in found
  <2>1. first = 3
    BY <1>2, <1>4, <1>7
  <2>2. QED BY <1>1, <1>2, <1>3, <1>7, <2>1
<1>8. CASE 1 \notin found /\ 2 \notin found /\ 3 \notin found /\ 4 \in found
  <2>1. first = 4
    BY <1>2, <1>4, <1>8
  <2>2. QED BY <1>1, <1>2, <1>3, <1>8, <2>1
<1>9. CASE found = {}
  BY <1>1, <1>2, <1>9
<1>10. QED BY <1>2, <1>5, <1>6, <1>7, <1>8, <1>9

--------------------------------------------------------------------------------
(* The tokens that the server may have refused without their being forgotten. *)
Excused == {1, 2} \cup left

(* What holds from launch to launch besides the types: tokens are numbered as *)
(* they are issued, the old places are never written, and the login window is *)
(* open only when nothing can be loaded from a file.                         *)
Numbered ==
  /\ issued >= 2 /\ token <= issued /\ told \subseteq 1..issued
  /\ \A p \in Places : kept[p] <= issued
  /\ kept["oldRing"] \in {0, 1} /\ kept["oldFile"] \in {0, 2}
  /\ ~known => \A p \in Places : kept[p] = 0

Turns ==
  /\ ~running => token = 0 /\ task = "none" /\ call = "none" /\ login = "closed" /\ chats = 0
  /\ call = "roster" => token # 0 /\ task = "none"
  /\ login # "closed" \/ call = "mint" =>
       token = 0 /\ chats <= MaxChats /\ kept["file"] = 0 /\ kept["oldFile"] = 0

(* Whatever place still has a refused token is excused ...                  *)
Forgotten == \A p \in Places : kept[p] \in told => kept[p] \in Excused

(* ... and the newest token is where it was stored, with nothing that is     *)
(* loaded before it but what is excused, unless it or one of these was       *)
(* refused.                                                                *)
Newest ==
  issued > 2 /\ told \cap (Excused \cup {issued}) = {} =>
    /\ token \in Excused \cup {0, issued}
    /\ \/ kept["ring"] = issued /\ kept["file"] = 0
       \/ kept["ring"] \in {0} \cup left /\ kept["file"] = issued

SessionInv == SessionTypeOK /\ Numbered /\ Turns /\ Forgotten /\ Newest

(* What the session keeps from one step to the next depends on nothing else. *)
LEMMA SessionStays == SessionInv /\ UNCHANGED sessionVars => SessionInv'
BY DEF SessionInv, SessionTypeOK, Numbered, Turns, Forgotten, Newest, Excused, sessionVars, disk,
       tokenServer, openWindows, link, history

(* The first launch finds what was kept under the old name, if anything. *)
LEMMA SessionBegins == SessionInit => SessionInv
<1> SUFFICES ASSUME SessionInit PROVE SessionInv
  OBVIOUS
<1>1. /\ kept \in [Places -> {0, 1, 2}] /\ kept["ring"] = 0 /\ kept["file"] = 0
      /\ kept["oldRing"] \in {0, 1} /\ kept["oldFile"] \in {0, 2}
      /\ ~known => kept["oldRing"] = 0 /\ kept["oldFile"] = 0
      /\ known \in BOOLEAN
  <2>1. PICK a \in {0, 1}, b \in {0, 2} :
          kept = [p \in Places |-> IF p = "oldRing" THEN a ELSE IF p = "oldFile" THEN b ELSE 0]
    BY DEF SessionInit
  <2>2. known = (kept["oldRing"] + kept["oldFile"] # 0)
    BY DEF SessionInit
  <2>3. kept["oldRing"] = a /\ kept["oldFile"] = b /\ kept["ring"] = 0 /\ kept["file"] = 0
    BY <2>1 DEF Places
  <2>4. ~known => kept["oldRing"] = 0 /\ kept["oldFile"] = 0
    <3>1. ~known => ~(kept["oldRing"] + kept["oldFile"] # 0)
      BY <2>2, Zenon
    <3>2. QED BY <2>3, <3>1
  <2>5. known \in BOOLEAN
    BY <2>2, Zenon
  <2>6. QED BY <2>1, <2>3, <2>4, <2>5
<1>2. SessionTypeOK
  <2>1. {0, 1, 2} \subseteq {0} \cup Tokens /\ {1, 2} \subseteq Tokens
    BY SessionAssumption DEF Tokens
  <2>2. kept \in [Places -> {0} \cup Tokens] /\ alive \subseteq Tokens /\ issued \in {0} \cup Tokens
    BY <1>1, <2>1 DEF SessionInit
  <2>3. chats \in 0..(MaxChats + 1) /\ chances \in 0..MaxChances
    BY SessionAssumption DEF SessionInit
  <2>4. /\ keyring \in BOOLEAN /\ running = FALSE /\ login = "closed" /\ token = 0 /\ socket = FALSE
        /\ task = "none" /\ conn = "disconnected" /\ call = "none" /\ told = {} /\ left = {}
    BY DEF SessionInit
  <2>5. QED BY <1>1, <2>2, <2>3, <2>4 DEF SessionTypeOK
<1>3. Numbered /\ Turns /\ Forgotten /\ Newest
  BY <1>1 DEF SessionInit, Numbered, Turns, Forgotten, Newest, Places
<1>4. QED BY <1>2, <1>3 DEF SessionInv

(* No step of the session, the server or the keyring breaks it. *)
LEMMA SessionStep == SessionInv /\ SessionNext => SessionInv'
<1> SUFFICES ASSUME SessionInv, SessionNext PROVE SessionInv'
  OBVIOUS
<1> USE SessionAssumption DEF disk, tokenServer, openWindows, link, history
<1>type. /\ SessionTypeOK /\ Numbered /\ Turns /\ Forgotten /\ Newest
         /\ kept \in [Places -> Nat] /\ keyring \in BOOLEAN /\ issued \in Nat
         /\ MaxTokens \in Nat /\ MaxChats \in Nat \ {0} /\ MaxChances \in Nat
         /\ Tokens = 1..MaxTokens
  BY DEF SessionInv, SessionTypeOK, Tokens
<1>chance. Chance => chances' \in 0..MaxChances
  BY <1>type DEF Chance, SessionTypeOK
<1>load. /\ Load(kept, keyring) = IF keyring /\ kept["ring"] # 0 THEN kept["ring"]
                      ELSE IF keyring /\ kept["oldRing"] # 0 THEN kept["oldRing"]
                      ELSE IF kept["file"] # 0 THEN kept["file"] ELSE kept["oldFile"]
         /\ Load(kept, keyring) \in {0} \cup Tokens /\ Load(kept, keyring) <= issued
  BY <1>type, LoadOrder DEF SessionTypeOK, Numbered, Places
<1>kept. /\ LeftBehind \subseteq Tokens /\ left \subseteq LeftBehind
         /\ kept["ring"] # 0 /\ ~keyring => kept["ring"] \in LeftBehind
  BY <1>type DEF LeftBehind, SessionTypeOK, Places
<1>1. CASE Launch
  <2>1. /\ ~running /\ running' = TRUE /\ chances' \in 0..MaxChances
        /\ UNCHANGED <<kept, known, keyring, issued, alive, told, left>>
        /\ token = 0 /\ task = "none" /\ call = "none" /\ login = "closed" /\ chats = 0
    BY <1>1, <1>type, <1>chance DEF Launch, Turns
  <2>2. CASE known /\ Load(kept, keyring) # 0
    <3>1. /\ token' = Load(kept, keyring) /\ conn' = "connecting" /\ chats' = chats + 1 /\ call' = "roster"
          /\ UNCHANGED <<socket, task, login>>
      BY <1>1, <2>2 DEF Launch, StartSession
    <3>2. SessionTypeOK'
      BY <1>type, <1>load, <2>1, <2>2, <3>1 DEF SessionTypeOK
    <3>3. Numbered' /\ Turns' /\ Forgotten'
      BY <1>type, <1>load, <2>1, <2>2, <3>1 DEF Numbered, Turns, Forgotten, Excused
    <3>4. Newest'
      BY <1>type, <1>load, <2>1, <2>2, <3>1 DEF Newest, Numbered, Excused
    <3>5. QED BY <3>2, <3>3, <3>4 DEF SessionInv
  <2>3. CASE ~(known /\ Load(kept, keyring) # 0)
    <3>1. login' = "open" /\ UNCHANGED <<token, socket, task, conn, call, chats>>
      BY <1>1, <2>3 DEF Launch
    <3>2. SessionTypeOK'
      BY <1>type, <2>1, <3>1 DEF SessionTypeOK
    <3>3. kept["file"] = 0 /\ kept["oldFile"] = 0
      BY <1>load, <1>type, <2>3 DEF Numbered, Places
    <3>4. Numbered' /\ Turns' /\ Forgotten' /\ Newest'
      BY <1>type, <2>1, <3>1, <3>3 DEF Numbered, Turns, Forgotten, Excused, Newest
    <3>5. QED BY <3>2, <3>4 DEF SessionInv
  <2>4. QED BY <2>2, <2>3
<1>2. CASE LaunchAgain
  <2>1. SessionTypeOK'
    BY <1>2, <1>type, <1>chance DEF LaunchAgain, SessionTypeOK
  <2>2. Numbered' /\ Turns' /\ Forgotten' /\ Newest'
    BY <1>2, <1>type DEF LaunchAgain, SessionTypeOK, Numbered, Turns, Forgotten, Excused, Newest
  <2>3. QED BY <2>1, <2>2 DEF SessionInv
<1>3. CASE Attempt \/ MintFails \/ CloseLogin
  <2>1. SessionTypeOK'
    BY ZenonT(40), <1>3, <1>type DEF Attempt, MintFails, CloseLogin, SessionTypeOK
  <2>2. Numbered' /\ Forgotten' /\ Newest'
    BY <1>3, <1>type DEF Attempt, MintFails, CloseLogin, Numbered, Forgotten, Excused, Newest
  <2>3. Turns'
    BY <1>3, <1>type DEF Attempt, MintFails, CloseLogin, Turns
  <2>4. QED BY <2>1, <2>2, <2>3 DEF SessionInv
<1>4. CASE Minted
  <2> DEFINE t == issued + 1
  <2>1. /\ call = "mint" /\ t \in Tokens /\ issued' = t /\ alive' = alive \cup {t} /\ known' = TRUE
        /\ left' = LeftBehind /\ token' = t /\ conn' = "connecting" /\ chats' = chats + 1
        /\ call' = "roster" /\ login' = "closed"
        /\ UNCHANGED <<keyring, running, told, chances, socket, task>>
        /\ kept' = Stored(kept, keyring, t)
    BY <1>4 DEF Minted, StartSession
  <2>2. /\ kept' \in [Places -> {0} \cup Tokens]
        /\ kept'["oldRing"] = kept["oldRing"] /\ kept'["oldFile"] = kept["oldFile"]
        /\ kept'["ring"] = IF keyring THEN t ELSE kept["ring"]
        /\ kept'["file"] = IF keyring THEN kept["file"] ELSE t
    BY <1>type, <2>1 DEF Stored, SessionTypeOK, Places
  <2>3. token = 0 /\ task = "none" /\ chats <= MaxChats /\ kept["file"] = 0 /\ running
    BY <1>type, <2>1 DEF Turns, SessionTypeOK
  <2>4. SessionTypeOK'
    BY <1>type, <1>kept, <2>1, <2>2, <2>3 DEF SessionTypeOK
  <2>5. Numbered'
    BY <1>type, <2>1, <2>2 DEF Numbered, Places, Tokens
  <2>6. Turns'
    BY <1>type, <2>1, <2>3 DEF Turns, Numbered
  <2>7. Forgotten'
    <3>1. t \notin told
      BY <1>type DEF Numbered
    <3>2. QED BY <1>type, <1>kept, <2>1, <2>2, <3>1 DEF Forgotten, Excused, Places
  <2>8. Newest'
    BY <1>type, <1>kept, <2>1, <2>2, <2>3 DEF Newest, Excused
  <2>9. QED BY <2>4, <2>5, <2>6, <2>7, <2>8 DEF SessionInv
<1>5. CASE Exit
  <2>1. SessionTypeOK'
    <3>1. chats' \in 0..(MaxChats + 1)
      BY <1>5, <1>type DEF Exit
    <3>2. QED BY <1>5, <1>type, <3>1 DEF Exit, SessionTypeOK
  <2>2. Numbered' /\ Turns' /\ Forgotten' /\ Newest'
    BY <1>5, <1>type DEF Exit, Numbered, Turns, Forgotten, Excused, Newest
  <2>3. QED BY <2>1, <2>2 DEF SessionInv
<1>6. CASE RosterHere \/ RosterFails \/ TaskConnects \/ TaskLost
  <2>1. SessionTypeOK'
    BY <1>6, <1>type, <1>chance
    DEF RosterHere, RosterFails, TaskConnects, TaskLost, SessionTypeOK, Turns
  <2>2. Numbered' /\ Forgotten' /\ Newest'
    BY <1>6, <1>type
    DEF RosterHere, RosterFails, TaskConnects, TaskLost, Numbered, Forgotten, Excused, Newest
  <2>3. Turns'
    BY <1>6, <1>type DEF RosterHere, RosterFails, TaskConnects, TaskLost, Turns, SessionTypeOK
  <2>4. QED BY <2>1, <2>2, <2>3 DEF SessionInv
<1>7. CASE RosterRefused \/ TaskRefused
  <2>1. /\ kept' = Cleared(kept, keyring) /\ socket' = FALSE /\ told' = told \cup {token}
        /\ left' = LeftBehind /\ conn' = "failed"
        /\ UNCHANGED <<known, keyring, issued, alive, running, login, chats, token, chances>>
    BY <1>7 DEF RosterRefused, TaskRefused, Forget
  <2>2. /\ token # 0 /\ task' = "none" /\ call' \in {call, "none"}
    BY <1>7, <1>type DEF RosterRefused, TaskRefused, Turns, SessionTypeOK
  <2>3. /\ kept' \in [Places -> {0} \cup Tokens]
        /\ kept'["oldRing"] = kept["oldRing"] /\ kept'["oldFile"] = kept["oldFile"]
        /\ kept'["ring"] = IF keyring THEN 0 ELSE kept["ring"]
        /\ kept'["file"] = 0
    BY <1>type, <2>1 DEF Cleared, SessionTypeOK, Places
  <2>4. SessionTypeOK'
    BY <1>type, <1>kept, <2>1, <2>2, <2>3 DEF SessionTypeOK
  <2>5. Numbered'
    BY <1>type, <2>1, <2>2, <2>3 DEF Numbered, Places, SessionTypeOK
  <2>6. Turns'
    BY <1>type, <2>1, <2>2, <2>3 DEF Turns
  <2>7. Forgotten'
    BY <1>type, <1>kept, <2>1, <2>2, <2>3 DEF Forgotten, Numbered, Excused, Places
  <2>8. Newest'
    BY <1>type, <1>kept, <2>1, <2>2 DEF Newest, Excused
  <2>9. QED BY <2>4, <2>5, <2>6, <2>7, <2>8 DEF SessionInv
<1>8. CASE KeyringFlips \/ \E t \in Tokens : Revoke(t)
  <2>1. /\ UNCHANGED <<kept, known, issued, running, login, chats, token, socket, task, conn, call,
                       told, left>>
        /\ keyring' \in BOOLEAN /\ alive' \subseteq Tokens /\ chances' \in 0..MaxChances
    BY <1>8, <1>type, <1>chance DEF KeyringFlips, Revoke, SessionTypeOK
  <2>2. SessionTypeOK'
    BY <1>type, <2>1 DEF SessionTypeOK
  <2>3. Numbered' /\ Turns' /\ Forgotten' /\ Newest'
    BY <1>type, <2>1 DEF Numbered, Turns, Forgotten, Excused, Newest
  <2>4. QED BY <2>2, <2>3 DEF SessionInv
<1>9. QED
  BY <1>1, <1>2, <1>3, <1>4, <1>5, <1>6, <1>7, <1>8 DEF SessionNext

(* The session keeps its invariant, whatever the account is used for. *)
LEMMA SessionHolds == Spec => []SessionInv
<1>1. Init => SessionInv
  BY SessionBegins DEF Init
<1>2. SessionInv /\ [Next]_profileVars => SessionInv'
  BY SessionStep, SessionStays DEF Next, profileVars
<1>3. QED BY <1>1, <1>2, PTL DEF Spec

(* A token that the server has refused is not what the next launch resumes    *)
(* with, however launches, logins, revocations and an absent keyring meet.     *)
THEOREM RefusedIsForgotten == Spec => []DeadIsForgotten
<1>1. SessionInv => DeadIsForgotten
  <2> SUFFICES ASSUME SessionInv PROVE DeadIsForgotten
    OBVIOUS
  <2>1. /\ kept \in [Places -> Nat] /\ keyring \in BOOLEAN /\ told \subseteq Tokens /\ 0 \notin Tokens
        /\ SessionTypeOK
    BY SessionAssumption DEF SessionInv, SessionTypeOK, Tokens
  <2>2. Load(kept, keyring) \in {0} \cup {kept[p] : p \in Places}
    BY <2>1, LoadOrder DEF Places
  <2>3. QED BY <2>1, <2>2 DEF SessionInv, Forgotten, Excused, DeadIsForgotten
<1>2. QED BY <1>1, SessionHolds, PTL

(* Whoever has logged in resumes with the token of that login. *)
THEOREM NewestIsResumed == Spec => []ResumesNewest
<1>1. SessionInv => ResumesNewest
  <2> SUFFICES ASSUME SessionInv, issued > 2, told \cap ({1, 2, issued} \cup left) = {}
               PROVE  \/ Load(kept, keyring) \in {issued, 1, 2} \cup left
                      \/ kept["ring"] = issued /\ ~keyring
    BY DEF ResumesNewest
  <2>1. /\ kept \in [Places -> Nat] /\ keyring \in BOOLEAN /\ issued \in Nat
        /\ kept["oldRing"] \in {0, 1} /\ kept["oldFile"] \in {0, 2}
    BY SessionAssumption DEF SessionInv, SessionTypeOK, Tokens, Numbered
  <2>2. \/ kept["ring"] = issued /\ kept["file"] = 0
        \/ kept["ring"] \in {0} \cup left /\ kept["file"] = issued
    BY DEF SessionInv, Newest, Excused
  <2>3. Load(kept, keyring) = IF keyring /\ kept["ring"] # 0 THEN kept["ring"]
                      ELSE IF keyring /\ kept["oldRing"] # 0 THEN kept["oldRing"]
                      ELSE IF kept["file"] # 0 THEN kept["file"] ELSE kept["oldFile"]
    BY <2>1, LoadOrder
  <2>4. QED BY <2>1, <2>2, <2>3
<1>2. QED BY <1>1, SessionHolds, PTL

--------------------------------------------------------------------------------
(* A call is put where there is none, if there is such a slot. *)
LEMMA PutFindsSlot ==
  ASSUME NEW cs \in [Slots -> Call \cup {NoCall}], NEW c, \E i \in Slots : cs[i] = NoCall
  PROVE  \E j \in Slots : cs[j] = NoCall /\ Put(cs, c) = [cs EXCEPT ![j] = c]
<1> DEFINE i == CHOOSE i \in Slots : cs[i] = NoCall
<1>1. i \in Slots /\ cs[i] = NoCall
  OBVIOUS
<1>2. Put(cs, c) = [cs EXCEPT ![i] = c]
  BY DEF Put
<1> HIDE DEF i
<1>3. QED BY <1>1, <1>2

(* A request is a call. *)
LEMMA RequestIsCall ==
  ASSUME NEW op \in {"boot", "patch", "reset", "roster", "create", "update", "delete"},
         NEW of \in Keys \cup Nets \cup {"all"}, NEW v \in Value \cup {Unset}
  PROVE  /\ Request(op, of, v) \in Call /\ Request(op, of, v) # NoCall
         /\ Request(op, of, v).op = op /\ Request(op, of, v).of = of
         /\ Request(op, of, v).state = "sent"
<1>1. [k \in Keys |-> Unset] \in Values
  BY DEF Values
<1>2. Request(op, of, v) \in Call
  BY <1>1 DEF Request, Call
<1>3. Request(op, of, v).op = op /\ Request(op, of, v).of = of /\ Request(op, of, v).state = "sent"
  BY DEF Request
<1>4. Request(op, of, v) # NoCall
  <2>1. \A r \in Call : r # NoCall
    BY DEF Call, NoCall
  <2>2. QED BY <1>2, <2>1
<1>5. QED BY <1>2, <1>3, <1>4

(* The page unit that is made of a map follows that map. *)
LEMMA UnitOfMap ==
  ASSUME NEW map \in Values, NEW loaded \in BOOLEAN, NEW old \in [{"Tier", "Fold"} -> Value]
  PROVE  /\ UnitOf(map, loaded, old) \in [{"Tier", "Fold"} -> Value]
         /\ UnitOf(map, loaded, old).Tier = IF EffectiveIn(map, loaded, Tier) = Unset THEN "on"
                                           ELSE EffectiveIn(map, loaded, Tier)
         /\ \/ EffectiveIn(map, loaded, Fold) = Unset
            \/ UnitOf(map, loaded, old).Fold = EffectiveIn(map, loaded, Fold)
<1>1. \A k \in Keys : EffectiveIn(map, loaded, k) \in Value \cup {Unset}
  BY DEF EffectiveIn, Values, Default, Value
<1>2. Tier \in Keys /\ Fold \in Keys
  BY DEF Keys
<1> DEFINE tier == EffectiveIn(map, loaded, Tier)
           fold == EffectiveIn(map, loaded, Fold)
           u == UnitOf(map, loaded, old)
<1>3. tier \in Value \cup {Unset} /\ fold \in Value \cup {Unset}
  BY <1>1, <1>2
<1>4. /\ u = [Tier |-> IF tier = "off" THEN "off" ELSE "on",
              Fold |-> IF fold = Unset THEN old.Fold ELSE fold]
  BY DEF UnitOf
<1> HIDE DEF tier, fold, u
<1>5. u \in [{"Tier", "Fold"} -> Value] /\ u.Tier = (IF tier = Unset THEN "on" ELSE tier)
      /\ (fold = Unset \/ u.Fold = fold)
  BY <1>3, <1>4 DEF Value, Unset
<1>6. QED BY <1>5 DEF tier, fold, u

Asks(i, ops) == calls[i] # NoCall /\ calls[i].op \in ops
About(i, op, n) == Asks(i, {op}) /\ calls[i].of = n

Typed ==
  /\ TypeOK /\ calls \in [Slots -> Call \cup {NoCall}]
  /\ \A i \in Slots : Asks(i, {"create", "update", "delete"}) => calls[i].of \in Nets

(* A setting on which the two differ, and for no named reason, is one that a  *)
(* reply or a frame is still to come for.                                     *)
Fetching == \E i \in Slots : Asks(i, {"boot", "patch", "reset"})
Coming(k) == \E j \in 1..Len(frames) : frames[j][1] = k
SettingsAgree ==
  \A k \in Keys : k \in late \/ values[k] = srv[k] \/ Fetching \/ Coming(k)

(* A network that only one of them has is being created or deleted, or a       *)
(* roster that names it is on its way.                                        *)
Naming(i, n) == Asks(i, {"roster"}) /\ (calls[i].state = "done" => n \in calls[i].nets)
NetworksAgree ==
  \A n \in Nets \ late :
    /\ n \in nets \ listed => \E i \in Slots : About(i, "create", n) \/ Naming(i, n)
    /\ n \in listed \ nets => \E i \in Slots : About(i, "delete", n)

(* No network is created twice, or again before it is known to be deleted.     *)
Orderly ==
  \A i, j \in Slots : \A n \in Nets :
    /\ About(i, "create", n) /\ About(j, "create", n) => i = j
    /\ About(i, "create", n) /\ calls[i].state = "sent" => n \notin nets
    /\ About(j, "delete", n) /\ calls[j].state = "done" =>
         n \notin nets /\ ~(About(i, "create", n) /\ calls[i].state = "sent")

AccountInv == Typed /\ SettingsAgree /\ NetworksAgree /\ Orderly

(* The types hold at the start of a session, and between sessions.            *)
LEMMA AccountBegins == Init => Typed
<1> SUFFICES ASSUME Init PROVE Typed
  OBVIOUS
<1> USE AccountAssumption
<1>1. AccountInit(within) /\ within \in BOOLEAN
  BY DEF Init
<1>2. /\ srv \in Values /\ nets \subseteq Nets /\ listed = nets /\ registry = FALSE
      /\ values = [k \in Keys |-> Unset] /\ unit = [Tier |-> "on", Fold |-> "on"]
      /\ form = "closed" /\ pane = Closed /\ frames = <<>> /\ linked = TRUE /\ late = {} /\ moves = 0
      /\ calls = [i \in Slots |-> IF within /\ i = 1 THEN Request("boot", "all", Unset) ELSE NoCall]
  BY <1>1 DEF AccountInit
<1>3. Request("boot", "all", Unset) \in Call /\ Request("boot", "all", Unset).op = "boot"
  BY RequestIsCall
<1>4. /\ calls \in [Slots -> Call \cup {NoCall}]
      /\ \A i \in Slots : ~Asks(i, {"create", "update", "delete"})
  BY <1>2, <1>3 DEF Asks
<1>5. values \in Values /\ unit \in [{"Tier", "Fold"} -> Value]
  BY <1>2 DEF Values, Value
<1>6. pane \in [open : BOOLEAN, category : Keys, painted : Keys, control : Value \cup {Unset},
                timers : SUBSET Keys]
  BY <1>2 DEF Closed, Keys
<1>7. frames \in Seq(Keys \X Value) /\ moves \in 0..MaxMoves
  BY <1>2
<1>8. QED BY <1>2, <1>4, <1>5, <1>6, <1>7 DEF Typed, TypeOK

(* What a step may do to one slot, or with one more call *)
LEMMA SlotTyped ==
  ASSUME Typed, NEW i \in Slots,
         \/ calls' = [calls EXCEPT ![i] = NoCall]
         \/ \E c \in Call : /\ c.op \in {"create", "update", "delete"} => c.of \in Nets
                            /\ \/ calls' = [calls EXCEPT ![i] = c]
                               \/ calls' = Put(calls, c) /\ Free # {}
                               \/ calls' = Put([calls EXCEPT ![i] = NoCall], c)
  PROVE  /\ calls' \in [Slots -> Call \cup {NoCall}]
         /\ \A j \in Slots : Asks(j, {"create", "update", "delete"})' => calls'[j].of \in Nets
<1>1. /\ calls \in [Slots -> Call \cup {NoCall}]
      /\ \A j \in Slots : calls[j] # NoCall /\ calls[j].op \in {"create", "update", "delete"}
                            => calls[j].of \in Nets
  BY DEF Typed, Asks
<1>2. CASE calls' = [calls EXCEPT ![i] = NoCall]
  BY <1>1, <1>2 DEF Asks
<1>3. ASSUME NEW c \in Call, c.op \in {"create", "update", "delete"} => c.of \in Nets,
             NEW cs \in [Slots -> Call \cup {NoCall}], NEW j \in Slots,
             \A h \in Slots : cs[h] = calls[h] \/ cs[h] = NoCall, calls' = [cs EXCEPT ![j] = c]
      PROVE  /\ calls' \in [Slots -> Call \cup {NoCall}]
             /\ \A h \in Slots : Asks(h, {"create", "update", "delete"})' => calls'[h].of \in Nets
  BY <1>1, <1>3 DEF Asks
<1>4. ASSUME NEW c \in Call, c.op \in {"create", "update", "delete"} => c.of \in Nets,
             calls' = Put(calls, c), Free # {}
      PROVE  /\ calls' \in [Slots -> Call \cup {NoCall}]
             /\ \A h \in Slots : Asks(h, {"create", "update", "delete"})' => calls'[h].of \in Nets
  <2>1. \E h \in Slots : calls[h] = NoCall
    BY <1>4 DEF Free, UnderWay
  <2>2. PICK j \in Slots : calls[j] = NoCall /\ Put(calls, c) = [calls EXCEPT ![j] = c]
    BY <1>1, <2>1, PutFindsSlot
  <2>3. QED BY <1>1, <1>3, <1>4, <2>2
<1>5. ASSUME NEW c \in Call, c.op \in {"create", "update", "delete"} => c.of \in Nets,
             calls' = Put([calls EXCEPT ![i] = NoCall], c)
      PROVE  /\ calls' \in [Slots -> Call \cup {NoCall}]
             /\ \A h \in Slots : Asks(h, {"create", "update", "delete"})' => calls'[h].of \in Nets
  <2> DEFINE cs == [calls EXCEPT ![i] = NoCall]
  <2>1. cs \in [Slots -> Call \cup {NoCall}] /\ cs[i] = NoCall
        /\ \A h \in Slots : cs[h] = calls[h] \/ cs[h] = NoCall
    BY <1>1
  <2>2. calls' = Put(cs, c)
    BY <1>5
  <2> HIDE DEF cs
  <2>3. PICK j \in Slots : cs[j] = NoCall /\ Put(cs, c) = [cs EXCEPT ![j] = c]
    BY <2>1, PutFindsSlot
  <2>4. calls' = [cs EXCEPT ![j] = c]
    BY <2>2, <2>3
  <2>5. QED BY <1>3, <1>5, <2>1, <2>4
<1>6. CASE calls' # [calls EXCEPT ![i] = NoCall]
  <2>1. PICK c \in Call : /\ c.op \in {"create", "update", "delete"} => c.of \in Nets
                          /\ \/ calls' = [calls EXCEPT ![i] = c]
                             \/ calls' = Put(calls, c) /\ Free # {}
                             \/ calls' = Put([calls EXCEPT ![i] = NoCall], c)
    BY <1>6
  <2>2. QED BY <1>1, <1>3, <1>4, <1>5, <2>1
<1>7. QED BY <1>2, <1>6

(* Steps keep the types. *)
LEMMA TypedStep == Typed /\ AccountNext => Typed'
<1> SUFFICES ASSUME Typed, AccountNext PROVE Typed'
  OBVIOUS
<1> USE AccountAssumption DEF server, settings, windows, wire
<1>type. /\ srv \in Values /\ values \in Values /\ registry \in BOOLEAN
         /\ nets \subseteq Nets /\ listed \subseteq Nets /\ unit \in [{"Tier", "Fold"} -> Value]
         /\ form \in {"closed", "open", "busy"}
         /\ pane \in [open : BOOLEAN, category : Keys, painted : Keys,
                      control : Value \cup {Unset}, timers : SUBSET Keys]
         /\ calls \in [Slots -> Call \cup {NoCall}]
         /\ frames \in Seq(Keys \X Value) /\ linked \in BOOLEAN
         /\ late \subseteq Keys \cup Nets /\ moves \in 0..MaxMoves /\ MaxMoves \in Nat
         /\ \A i \in Slots : Asks(i, {"create", "update", "delete"}) => calls[i].of \in Nets
  BY DEF Typed, TypeOK
<1>call. \A i \in Slots : calls[i] # NoCall =>
           /\ calls[i] \in Call /\ calls[i].map \in Values /\ calls[i].nets \subseteq Nets
           /\ calls[i].of \in Keys \cup Nets \cup {"all"} /\ calls[i].value \in Value \cup {Unset}
  BY <1>type DEF Call
<1>move. Move => moves' \in 0..MaxMoves
  BY <1>type DEF Move
<1>store. /\ \A m \in Values : \A v \in Value \cup {Unset} : \A k : [m EXCEPT ![k] = v] \in Values
          /\ \A m : Differs(m) \subseteq Keys
  BY DEF Values, Differs
<1>calls. ASSUME calls' \in [Slots -> Call \cup {NoCall}]
                 /\ \A j \in Slots : Asks(j, {"create", "update", "delete"})' => calls'[j].of \in Nets,
                 srv' \in Values, nets' \subseteq Nets, listed' \subseteq Nets,
                 form' \in {"closed", "open", "busy"}, moves' \in 0..MaxMoves,
                 late' \subseteq Keys \cup Nets, UNCHANGED <<settings, pane, frames, linked>>
          PROVE  Typed'
  BY <1>type, <1>calls DEF Typed, TypeOK
<1>take. ASSUME NEW m \in Values, NEW r \in BOOLEAN, Take(m, r)
         PROVE  values' \in Values /\ registry' \in BOOLEAN /\ unit' \in [{"Tier", "Fold"} -> Value]
  BY <1>type, <1>take, UnitOfMap DEF Take
<1>1. ASSUME NEW i \in Slots, Serve(i) PROVE Typed'
  <2> DEFINE c == calls[i]
  <2>1. c # NoCall /\ c \in Call /\ Accept(c)
        /\ calls' = [calls EXCEPT ![i] = [c EXCEPT !.state = "done", !.map = srv', !.nets = nets']]
        /\ UNCHANGED <<settings, listed, windows, frames, linked, late, moves>>
    BY <1>1, <1>call DEF Serve
  <2>2. srv' \in Values
    BY <1>type, <1>store, <1>call, <2>1 DEF Accept
  <2>3. nets' \subseteq Nets
    <3>1. c.op = "create" => c.of \in Nets
      BY <1>type, <2>1 DEF Asks
    <3>2. nets' \in {nets, nets \cup {c.of}, nets \ {c.of}} /\ (c.op # "create" => nets' \in {nets, nets \ {c.of}})
      BY <2>1 DEF Accept
    <3>3. QED BY <1>type, <3>1, <3>2
  <2> DEFINE d == [c EXCEPT !.state = "done", !.map = srv', !.nets = nets']
  <2>4. d \in Call /\ d.op = c.op /\ d.of = c.of
    BY <2>1, <2>2, <2>3 DEF Call
  <2>5. d.op \in {"create", "update", "delete"} => d.of \in Nets
    BY <1>type, <2>1, <2>4 DEF Asks
  <2>6. /\ calls' \in [Slots -> Call \cup {NoCall}]
        /\ \A j \in Slots : Asks(j, {"create", "update", "delete"})' => calls'[j].of \in Nets
    <3> HIDE DEF d
    <3>1. calls' = [calls EXCEPT ![i] = d]
      BY <2>1 DEF d
    <3>2. QED BY <2>4, <2>5, <3>1, SlotTyped
  <2>7. QED BY <1>type, <1>calls, <2>1, <2>2, <2>3, <2>6
<1>2. ASSUME NEW i \in Slots, Refuse(i) \/ Lose(i) PROVE Typed'
  <2>1. PICK s \in {"refused", "failed"} :
          /\ calls[i] # NoCall /\ calls' = [calls EXCEPT ![i].state = s] /\ moves' \in 0..MaxMoves
          /\ UNCHANGED <<server, settings, listed, windows, frames, linked, late>>
    BY <1>2, <1>type, <1>move DEF Refuse, Lose
  <2> DEFINE d == [calls[i] EXCEPT !.state = s]
  <2>2. d \in Call /\ d.op = calls[i].op /\ d.of = calls[i].of
    BY <1>call, <2>1 DEF Call
  <2>3. d.op \in {"create", "update", "delete"} => d.of \in Nets
    BY <1>type, <2>1, <2>2 DEF Asks
  <2>4. calls' = [calls EXCEPT ![i] = d]
    BY <2>1
  <2> HIDE DEF d
  <2>5. /\ calls' \in [Slots -> Call \cup {NoCall}]
        /\ \A j \in Slots : Asks(j, {"create", "update", "delete"})' => calls'[j].of \in Nets
    BY <2>2, <2>3, <2>4, SlotTyped
  <2>6. QED BY <1>type, <1>calls, <2>1, <2>5
<1>3. ASSUME NEW i \in Slots, MapReply(i) PROVE Typed'
  <2>1. /\ calls[i].map \in Values /\ (registry \/ calls[i].op = "boot") \in BOOLEAN
        /\ Take(calls[i].map, registry \/ calls[i].op = "boot")
        /\ calls' = [calls EXCEPT ![i] = NoCall]
        /\ late' = (late \ Keys) \cup Differs(calls[i].map)
        /\ UNCHANGED <<server, listed, form, pane, frames, linked, moves>>
    BY <1>3, <1>call DEF MapReply, Answered
  <2>2. values' \in Values /\ registry' \in BOOLEAN /\ unit' \in [{"Tier", "Fold"} -> Value]
    BY <1>take, <2>1
  <2>3. late' \subseteq Keys \cup Nets
    BY <1>type, <1>store, <2>1
  <2>4. QED BY <1>type, <2>1, <2>2, <2>3, SlotTyped DEF Typed, TypeOK
<1>4. ASSUME NEW i \in Slots, PatchFails(i) PROVE Typed'
  <2>1. Request("boot", "all", Unset) \in Call /\ Request("boot", "all", Unset).op = "boot"
    BY RequestIsCall
  <2>2. QED BY <1>4, <1>type, <1>calls, <2>1, SlotTyped DEF PatchFails
<1>5. ASSUME NEW i \in Slots, MapFails(i) PROVE Typed'
  <2>1. late' \subseteq Keys \cup Nets
    BY <1>5, <1>type, <1>store DEF MapFails
  <2>2. QED BY <1>5, <1>type, <1>calls, <2>1, SlotTyped DEF MapFails
<1>6. ASSUME NEW i \in Slots, RosterReply(i) \/ DeleteReply(i) PROVE Typed'
  <2>1. listed' \subseteq Nets /\ late' \subseteq Keys \cup Nets
    BY <1>6, <1>type, <1>call DEF RosterReply, DeleteReply, Answered
  <2>2. calls' = [calls EXCEPT ![i] = NoCall] /\ UNCHANGED <<server, settings, windows, frames, linked, moves>>
    BY <1>6 DEF RosterReply, DeleteReply
  <2>3. QED BY <1>type, <1>calls, <2>1, <2>2, SlotTyped
<1>7. ASSUME NEW i \in Slots, SaveReply(i) PROVE Typed'
  <2>1. Request("roster", "all", Unset) \in Call /\ Request("roster", "all", Unset).op = "roster"
    BY RequestIsCall
  <2>2. QED BY <1>7, <1>type, <1>calls, <2>1, SlotTyped DEF SaveReply
<1>8. ASSUME NEW i \in Slots, NetworkFails(i) PROVE Typed'
  <2>1. form' \in {"closed", "open", "busy"}
    BY <1>8, <1>type DEF NetworkFails
  <2>2. calls[i].op \in {"create", "delete"} => calls[i].of \in Nets
    BY <1>8, <1>type DEF NetworkFails, Answered, Asks
  <2>3. late' \subseteq Keys \cup Nets
    BY <1>8, <1>type, <2>2 DEF NetworkFails
  <2>4. QED BY <1>8, <1>type, <1>calls, <2>1, <2>3, SlotTyped DEF NetworkFails
<1>painted. ASSUME pane' \in [open : BOOLEAN, category : Keys, painted : Keys,
                              control : Value \cup {Unset}, timers : SUBSET Keys],
                   moves' \in 0..MaxMoves, UNCHANGED <<server, settings, listed, form, wire, late>>
            PROVE  Typed'
  BY <1>type, <1>painted DEF Typed, TypeOK, Asks
<1>paint. ASSUME NEW k \in Keys, NEW p \in [open : BOOLEAN, category : Keys, painted : Keys,
                                            control : Value \cup {Unset}, timers : SUBSET Keys]
          PROVE  Paint(p, k) \in [open : BOOLEAN, category : Keys, painted : Keys,
                                  control : Value \cup {Unset}, timers : SUBSET Keys]
  <2>1. Effective(k) \in Value \cup {Unset}
    BY <1>type DEF Effective, EffectiveIn, Values, Default, Value
  <2>2. QED BY <2>1 DEF Paint
<1>9. CASE OpenPane
  <2>1. Tier \in Keys /\ Paint(pane, Tier) \in [open : BOOLEAN, category : Keys, painted : Keys,
                                  control : Value \cup {Unset}, timers : SUBSET Keys]
    BY <1>type, <1>paint DEF Keys
  <2>2. QED BY <1>9, <1>painted, <1>move, <2>1 DEF OpenPane
<1>10. ASSUME NEW k \in Keys, ChooseCategory(k) PROVE Typed'
  <2>1. Paint(pane, k) \in [open : BOOLEAN, category : Keys, painted : Keys,
                            control : Value \cup {Unset}, timers : SUBSET Keys]
    BY <1>type, <1>paint
  <2>2. QED BY <1>10, <1>painted, <1>move, <2>1 DEF ChooseCategory
<1>11. CASE ClosePane
  <2>1. pane' \in [open : BOOLEAN, category : Keys, painted : Keys,
                   control : Value \cup {Unset}, timers : SUBSET Keys]
    BY <1>11, <1>type DEF ClosePane, Closed, Keys
  <2>2. QED BY <1>11, <1>type, <1>painted, <2>1 DEF ClosePane
<1>12. ASSUME NEW k \in Keys, TimerFires(k) PROVE Typed'
  <2> DEFINE fired == [pane EXCEPT !.timers = @ \ {k}]
  <2>1. fired \in [open : BOOLEAN, category : Keys, painted : Keys,
                   control : Value \cup {Unset}, timers : SUBSET Keys]
    BY <1>type
  <2>2. pane' = IF pane.open THEN Paint(fired, k) ELSE fired
    BY <1>12 DEF TimerFires
  <2> HIDE DEF fired
  <2>3. QED BY <1>12, <1>type, <1>painted, <1>paint, <2>1, <2>2 DEF TimerFires
<1>13. ASSUME NEW v \in Value, SetSetting(v) PROVE Typed'
  <2> DEFINE k == pane.painted
  <2>1. /\ k \in Keys /\ Free # {} /\ Take([values EXCEPT ![k] = v], registry)
        /\ pane' = [pane EXCEPT !.control = v] /\ calls' = Put(calls, Request("patch", k, v))
        /\ moves' \in 0..MaxMoves /\ UNCHANGED <<server, listed, form, frames, linked, late>>
    BY <1>13, <1>type, <1>move DEF SetSetting
  <2>2. Request("patch", k, v) \in Call /\ Request("patch", k, v).op = "patch"
    BY <2>1, RequestIsCall
  <2>3. values' \in Values /\ registry' \in BOOLEAN /\ unit' \in [{"Tier", "Fold"} -> Value]
    BY ZenonT(40), <1>type, <1>store, <1>take, <2>1
  <2>4. pane' \in [open : BOOLEAN, category : Keys, painted : Keys,
                   control : Value \cup {Unset}, timers : SUBSET Keys]
    BY <1>type, <2>1
  <2>5. /\ calls' \in [Slots -> Call \cup {NoCall}]
        /\ \A j \in Slots : Asks(j, {"create", "update", "delete"})' => calls'[j].of \in Nets
    <3>1. 1 \in Slots
      BY DEF Slots
    <3>2. QED BY <2>1, <2>2, <3>1, SlotTyped
  <2>6. QED BY <1>type, <2>1, <2>3, <2>4, <2>5 DEF Typed, TypeOK
<1>asked. ASSUME NEW c \in Call, c.op \in {"create", "update", "delete"} => c.of \in Nets,
                 calls' = Put(calls, c), Free # {}
          PROVE  /\ calls' \in [Slots -> Call \cup {NoCall}]
                 /\ \A j \in Slots : Asks(j, {"create", "update", "delete"})' => calls'[j].of \in Nets
  <2>1. 1 \in Slots
    BY DEF Slots
  <2>2. QED BY <1>asked, <2>1, SlotTyped
<1>14. CASE ResetSetting
  <2> DEFINE k == pane.painted
  <2>1. /\ k \in Keys /\ Free # {} /\ calls' = Put(calls, Request("reset", k, Unset))
        /\ pane' = [pane EXCEPT !.timers = @ \cup {k}]
        /\ moves' \in 0..MaxMoves /\ UNCHANGED <<server, settings, listed, form, frames, linked, late>>
    BY <1>14, <1>type, <1>move DEF ResetSetting
  <2>2. Request("reset", k, Unset) \in Call /\ Request("reset", k, Unset).op = "reset"
    BY <2>1, RequestIsCall
  <2>3. pane' \in [open : BOOLEAN, category : Keys, painted : Keys,
                   control : Value \cup {Unset}, timers : SUBSET Keys]
    BY <1>type, <2>1
  <2>4. /\ calls' \in [Slots -> Call \cup {NoCall}]
        /\ \A j \in Slots : Asks(j, {"create", "update", "delete"})' => calls'[j].of \in Nets
    BY <1>asked, <2>1, <2>2
  <2>5. QED BY <1>type, <2>1, <2>3, <2>4 DEF Typed, TypeOK
<1>15. ASSUME NEW n \in Nets, NEW op \in {"create", "update"}, Save(op, n) PROVE Typed'
  <2>1. /\ Request(op, n, Unset) \in Call /\ Request(op, n, Unset).of = n
        /\ calls' = Put(calls, Request(op, n, Unset)) /\ Free # {} /\ form' = "busy"
        /\ moves' \in 0..MaxMoves /\ UNCHANGED <<server, settings, listed, pane, frames, linked, late>>
    BY <1>15, <1>move, RequestIsCall DEF Save
  <2>2. QED BY <1>type, <1>calls, <1>asked, <2>1
<1>16. ASSUME NEW n \in Nets, DeleteNetwork(n) PROVE Typed'
  <2>1. /\ Request("delete", n, Unset) \in Call /\ Request("delete", n, Unset).of = n
        /\ calls' = Put(calls, Request("delete", n, Unset)) /\ Free # {}
        /\ moves' \in 0..MaxMoves /\ UNCHANGED <<server, settings, listed, windows, frames, linked, late>>
    BY <1>16, <1>move, RequestIsCall DEF DeleteNetwork
  <2>2. QED BY <1>type, <1>calls, <1>asked, <2>1
<1>17. CASE OpenForm \/ CloseForm
  BY <1>17, <1>type DEF OpenForm, CloseForm, Typed, TypeOK, Asks
<1>18. ASSUME NEW k \in Keys, NEW v \in Value, ChangedElsewhere(k, v) PROVE Typed'
  <2>1. srv' \in Values /\ moves' \in 0..MaxMoves /\ late' \subseteq Keys \cup Nets
        /\ UNCHANGED <<nets, settings, listed, windows, calls, linked>>
    BY <1>18, <1>store, <1>type, <1>move DEF ChangedElsewhere
  <2>2. frames' \in Seq(Keys \X Value)
    <3>1. frames' = frames \/ frames' = Append(frames, <<k, v>>)
      BY <1>18 DEF ChangedElsewhere
    <3>2. <<k, v>> \in Keys \X Value
      OBVIOUS
    <3>3. Append(frames, <<k, v>>) \in Seq(Keys \X Value)
      BY <1>type, <3>2
    <3>4. QED BY <1>type, <3>1, <3>3
  <2>3. QED BY <1>type, <2>1, <2>2 DEF Typed, TypeOK, Asks
<1>19. ASSUME NEW n \in Nets, DeletedElsewhere(n) PROVE Typed'
  BY <1>19, <1>type, <1>move DEF DeletedElsewhere, Typed, TypeOK, Asks
<1>20. CASE SettingsFrame
  <2>1. /\ Head(frames) \in Keys \X Value /\ Tail(frames) \in Seq(Keys \X Value)
    BY <1>20, <1>type DEF SettingsFrame
  <2>2. /\ Take([values EXCEPT ![Head(frames)[1]] = Head(frames)[2]], registry)
        /\ frames' = Tail(frames) /\ late' \in {late, late \ {Head(frames)[1]}, late \cup {Head(frames)[1]}}
        /\ UNCHANGED <<server, listed, windows, calls, linked, moves>>
    BY <1>20 DEF SettingsFrame
  <2>3. values' \in Values /\ registry' \in BOOLEAN /\ unit' \in [{"Tier", "Fold"} -> Value]
    BY ZenonT(40), <1>type, <1>store, <1>take, <2>1, <2>2
  <2>4. late' \subseteq Keys \cup Nets
    BY <1>type, <2>1, <2>2
  <2>5. QED BY <1>type, <2>1, <2>2, <2>3, <2>4 DEF Typed, TypeOK, Asks
<1>21. CASE SocketLost
  <2>1. late' \subseteq Keys \cup Nets /\ moves' \in 0..MaxMoves
        /\ UNCHANGED <<server, settings, listed, windows, calls>>
    BY <1>21, <1>type, <1>move DEF SocketLost
  <2>2. frames' \in Seq(Keys \X Value) /\ linked' \in BOOLEAN
    <3>1. frames' = <<>> /\ linked' = FALSE
      BY <1>21 DEF SocketLost
    <3>2. <<>> \in Seq(Keys \X Value) /\ FALSE \in BOOLEAN
      OBVIOUS
    <3>3. QED BY <3>1, <3>2, Zenon
  <2>3. QED BY <1>type, <2>1, <2>2 DEF Typed, TypeOK, Asks
<1>22. CASE SocketBack
  BY <1>22, <1>type DEF SocketBack, Typed, TypeOK, Asks
<1>23. QED
  BY <1>1, <1>2, <1>3, <1>4, <1>5, <1>6, <1>7, <1>8, <1>9, <1>10, <1>11, <1>12, <1>13, <1>14,
     <1>15, <1>16, <1>17, <1>18, <1>19, <1>20, <1>21, <1>22
  DEF AccountNext, User, Answer

(* Where a call is put, the other slots stay as they are. *)
LEMMA PutKeeps ==
  ASSUME NEW cs \in [Slots -> Call \cup {NoCall}], NEW c \in Call, \E i \in Slots : cs[i] = NoCall
  PROVE  \E h \in Slots : /\ cs[h] = NoCall /\ Put(cs, c)[h] = c
                          /\ \A j \in Slots : j # h => Put(cs, c)[j] = cs[j]
<1>1. PICK h \in Slots : cs[h] = NoCall /\ Put(cs, c) = [cs EXCEPT ![h] = c]
  BY PutFindsSlot
<1>2. QED BY <1>1

(* A step that ends no fetch of the settings leaves them to come ...          *)
LEMMA FetchingGoesOn ==
  ASSUME Typed, NEW cs \in [Slots -> Call \cup {NoCall}],
         \A j \in Slots : Asks(j, {"boot", "patch", "reset"}) => cs[j] = calls[j],
         \/ calls' = cs
         \/ \E c \in Call : calls' = Put(cs, c) /\ \E i \in Slots : cs[i] = NoCall
  PROVE  Fetching => Fetching'
<1>1. CASE calls' = cs
  BY <1>1 DEF Asks, Fetching
<1>2. ASSUME NEW c \in Call, calls' = Put(cs, c), \E i \in Slots : cs[i] = NoCall
      PROVE  Fetching => Fetching'
  <2>1. PICK h \in Slots : cs[h] = NoCall /\ \A j \in Slots : j # h => calls'[j] = cs[j]
    BY <1>2, PutKeeps
  <2>2. QED BY <2>1 DEF Asks, Fetching
<1>3. QED BY <1>1, <1>2

(* ... and one that asks for them starts one.                                 *)
LEMMA FetchingStarts ==
  ASSUME NEW cs \in [Slots -> Call \cup {NoCall}], NEW c \in Call,
         c.op \in {"boot", "patch", "reset"}, calls' = Put(cs, c), \E i \in Slots : cs[i] = NoCall
  PROVE  Fetching'
<1>1. PICK h \in Slots : calls'[h] = c
  BY PutKeeps
<1>2. c # NoCall
  BY DEF Call, NoCall
<1>3. QED BY <1>1, <1>2 DEF Asks, Fetching

(* Steps leave no setting behind. *)
LEMMA SettingsStep == Typed /\ SettingsAgree /\ AccountNext => SettingsAgree'
<1> SUFFICES ASSUME Typed, SettingsAgree, AccountNext, NEW k \in Keys
             PROVE  (k \in late \/ values[k] = srv[k] \/ Fetching \/ Coming(k))'
  BY DEF SettingsAgree
<1> USE AccountAssumption DEF server, settings, windows, wire
<1>type. /\ srv \in Values /\ values \in Values /\ calls \in [Slots -> Call \cup {NoCall}]
         /\ frames \in Seq(Keys \X Value)
         /\ \A i \in Slots : Asks(i, {"create", "update", "delete"}) => calls[i].of \in Nets
         /\ \A n \in Nets : n # k
  BY DEF Typed, TypeOK, Keys
<1>now. k \in late \/ values[k] = srv[k] \/ Fetching \/ Coming(k)
  BY DEF SettingsAgree
<1>cleared. ASSUME NEW i \in Slots
            PROVE  /\ [calls EXCEPT ![i] = NoCall] \in [Slots -> Call \cup {NoCall}]
                   /\ [calls EXCEPT ![i] = NoCall][i] = NoCall
                   /\ \A j \in Slots : j # i => [calls EXCEPT ![i] = NoCall][j] = calls[j]
  BY <1>type
<1>same. ASSUME k \in late => k \in late', UNCHANGED <<values, srv, frames>>, Fetching => Fetching'
         PROVE  (k \in late \/ values[k] = srv[k] \/ Fetching \/ Coming(k))'
  BY <1>now, <1>same DEF Coming
<1>still. UNCHANGED calls => (Fetching => Fetching')
  BY DEF Fetching, Asks
<1>free. Free # {} => \E h \in Slots : calls[h] = NoCall
  BY DEF Free, UnderWay
<1>1. ASSUME NEW i \in Slots, Serve(i) PROVE (k \in late \/ values[k] = srv[k] \/ Fetching \/ Coming(k))'
  <2> DEFINE d == [calls[i] EXCEPT !.state = "done", !.map = srv', !.nets = nets']
  <2>1. /\ calls[i] # NoCall /\ calls[i] \in Call /\ calls' = [calls EXCEPT ![i] = d]
        /\ Accept(calls[i]) /\ UNCHANGED <<values, frames, late>>
    BY <1>1, <1>type DEF Serve
  <2>2. d.op = calls[i].op /\ d # NoCall
    BY <2>1 DEF Call, NoCall
  <2> HIDE DEF d
  <2>3. Fetching => Fetching'
    BY <1>type, <2>1, <2>2 DEF Fetching, Asks
  <2>4. CASE calls[i].op \in {"patch", "reset"}
    BY <1>type, <2>1, <2>2, <2>4 DEF Fetching, Asks
  <2>5. CASE calls[i].op \notin {"patch", "reset"}
    <3>1. srv' = srv
      BY <2>1, <2>5 DEF Accept
    <3>2. QED BY <1>same, <2>1, <2>3, <3>1
  <2>6. QED BY <2>4, <2>5
<1>2. ASSUME NEW i \in Slots, Refuse(i) \/ Lose(i)
      PROVE  (k \in late \/ values[k] = srv[k] \/ Fetching \/ Coming(k))'
  <2>1. PICK s \in {"refused", "failed"} :
          /\ calls[i] # NoCall /\ calls[i] \in Call /\ calls' = [calls EXCEPT ![i].state = s]
          /\ UNCHANGED <<srv, values, frames, late>>
    BY <1>2, <1>type DEF Refuse, Lose
  <2>2. [calls[i] EXCEPT !.state = s].op = calls[i].op /\ [calls[i] EXCEPT !.state = s] # NoCall
    BY <2>1 DEF Call, NoCall
  <2>3. Fetching => Fetching'
    BY <1>type, <2>1, <2>2 DEF Fetching, Asks
  <2>4. QED BY <1>same, <2>1, <2>3
<1>3. ASSUME NEW i \in Slots, MapReply(i)
      PROVE  (k \in late \/ values[k] = srv[k] \/ Fetching \/ Coming(k))'
  <2>1. values' = calls[i].map /\ srv' = srv /\ Differs(calls[i].map) \subseteq late'
    BY <1>3 DEF MapReply, Take
  <2>2. QED BY <2>1 DEF Differs
<1>4. ASSUME NEW i \in Slots, PatchFails(i)
      PROVE  (k \in late \/ values[k] = srv[k] \/ Fetching \/ Coming(k))'
  <2>1. Request("boot", "all", Unset) \in Call /\ Request("boot", "all", Unset).op = "boot"
    BY RequestIsCall
  <2>2. Fetching'
    BY <1>4, <1>cleared, <2>1, FetchingStarts DEF PatchFails
  <2>3. QED BY <2>2
<1>5. ASSUME NEW i \in Slots, MapFails(i)
      PROVE  (k \in late \/ values[k] = srv[k] \/ Fetching \/ Coming(k))'
  <2>1. UNCHANGED <<values, srv>> /\ Differs(values) \subseteq late'
    BY <1>5 DEF MapFails
  <2>2. QED BY <2>1 DEF Differs
<1>6. ASSUME NEW i \in Slots, RosterReply(i) \/ DeleteReply(i) \/ NetworkFails(i)
      PROVE  (k \in late \/ values[k] = srv[k] \/ Fetching \/ Coming(k))'
  <2>1. /\ calls' = [calls EXCEPT ![i] = NoCall] /\ UNCHANGED <<values, srv, frames>>
        /\ calls[i].op \in {"roster", "create", "update", "delete"}
    BY <1>6 DEF RosterReply, DeleteReply, NetworkFails
  <2>2. k \in late => k \in late'
    <3>1. CASE RosterReply(i) \/ NetworkFails(i)
      BY <3>1 DEF RosterReply, NetworkFails
    <3>2. CASE DeleteReply(i)
      BY <1>type, <3>2 DEF DeleteReply, Answered, Asks
    <3>3. QED BY <1>6, <3>1, <3>2
  <2>3. Fetching => Fetching'
    <3>1. ~Asks(i, {"boot", "patch", "reset"})
      BY <2>1 DEF Asks
    <3>2. QED BY <1>cleared, <2>1, <3>1, FetchingGoesOn
  <2>4. QED BY <1>same, <2>1, <2>2, <2>3
<1>7. ASSUME NEW i \in Slots, SaveReply(i)
      PROVE  (k \in late \/ values[k] = srv[k] \/ Fetching \/ Coming(k))'
  <2>1. Request("roster", "all", Unset) \in Call
    BY RequestIsCall
  <2>2. ~Asks(i, {"boot", "patch", "reset"})
    BY <1>7 DEF SaveReply, Asks
  <2>3. Fetching => Fetching'
    BY <1>7, <1>cleared, <2>1, <2>2, FetchingGoesOn DEF SaveReply
  <2>4. QED BY <1>7, <1>same, <2>3 DEF SaveReply
<1>8. CASE OpenPane \/ ClosePane \/ OpenForm \/ CloseForm \/ (\E c \in Keys : ChooseCategory(c))
           \/ (\E c \in Keys : TimerFires(c))
  BY <1>8, <1>same, <1>still DEF OpenPane, ClosePane, OpenForm, CloseForm, ChooseCategory, TimerFires
<1>9. ASSUME NEW v \in Value, SetSetting(v)
      PROVE  (k \in late \/ values[k] = srv[k] \/ Fetching \/ Coming(k))'
  <2>1. /\ Request("patch", pane.painted, v) \in Call /\ Request("patch", pane.painted, v).op = "patch"
    BY RequestIsCall DEF Typed, TypeOK
  <2>2. Fetching'
    BY <1>9, <1>type, <1>free, <2>1, FetchingStarts DEF SetSetting
  <2>3. QED BY <2>2
<1>10. CASE ResetSetting
  <2>1. /\ Request("reset", pane.painted, Unset) \in Call
        /\ Request("reset", pane.painted, Unset).op = "reset"
    BY RequestIsCall DEF Typed, TypeOK
  <2>2. Fetching'
    BY <1>10, <1>type, <1>free, <2>1, FetchingStarts DEF ResetSetting
  <2>3. QED BY <2>2
<1>11. ASSUME NEW n \in Nets, DeleteNetwork(n) \/ \E op \in {"create", "update"} : Save(op, n)
       PROVE  (k \in late \/ values[k] = srv[k] \/ Fetching \/ Coming(k))'
  <2>1. PICK op \in {"create", "update", "delete"} :
          /\ calls' = Put(calls, Request(op, n, Unset)) /\ Free # {}
          /\ UNCHANGED <<values, srv, frames, late>>
    BY <1>11 DEF DeleteNetwork, Save
  <2>2. Request(op, n, Unset) \in Call
    BY RequestIsCall
  <2>3. Fetching => Fetching'
    BY <1>type, <1>free, <2>1, <2>2, FetchingGoesOn
  <2>4. QED BY <1>same, <2>1, <2>3
<1>12. ASSUME NEW c \in Keys, NEW v \in Value, ChangedElsewhere(c, v)
       PROVE  (k \in late \/ values[k] = srv[k] \/ Fetching \/ Coming(k))'
  <2>1. /\ UNCHANGED <<values, calls>> /\ srv' = [srv EXCEPT ![c] = v]
        /\ \/ frames' = Append(frames, <<c, v>>) /\ late' = late
           \/ late' = late \cup {c} /\ frames' = frames
    BY <1>12 DEF ChangedElsewhere
  <2>2. Fetching => Fetching'
    BY <1>still, <2>1
  <2>3. CASE late' = late \cup {c} /\ frames' = frames
    <3>1. k = c \/ srv'[k] = srv[k]
      BY <1>type, <2>1 DEF Values
    <3>2. QED BY <1>now, <2>1, <2>2, <2>3, <3>1 DEF Coming
  <2>4. CASE frames' = Append(frames, <<c, v>>) /\ late' = late
    <3>1. /\ Len(frames') = Len(frames) + 1 /\ frames'[Len(frames')] = <<c, v>>
          /\ \A j \in 1..Len(frames) : frames'[j] = frames[j] /\ j \in 1..Len(frames')
          /\ Len(frames') \in 1..Len(frames')
      <4>1. <<c, v>> \in Keys \X Value
        OBVIOUS
      <4>2. QED BY <1>type, <2>4, <4>1
    <3>2. Coming(k) => Coming(k)'
      BY <3>1 DEF Coming
    <3>3. k = c => Coming(k)'
      BY <3>1 DEF Coming
    <3>4. k # c => srv'[k] = srv[k]
      BY <1>type, <2>1 DEF Values
    <3>5. QED BY <1>now, <2>1, <2>2, <2>4, <3>2, <3>3, <3>4
  <2>5. QED BY <2>1, <2>3, <2>4
<1>13. ASSUME NEW n \in Nets, DeletedElsewhere(n)
       PROVE  (k \in late \/ values[k] = srv[k] \/ Fetching \/ Coming(k))'
  BY <1>13, <1>same, <1>still DEF DeletedElsewhere
<1>14. CASE SettingsFrame
  <2> DEFINE c == Head(frames)[1]
             v == Head(frames)[2]
             more == \E j \in 2..Len(frames) : frames[j][1] = c
  <2>1. /\ frames # <<>> /\ values' = [values EXCEPT ![c] = v] /\ UNCHANGED <<srv, calls>>
        /\ frames' = Tail(frames)
        /\ late' = IF more THEN late ELSE IF v = srv[c] THEN late \ {c} ELSE late \cup {c}
    BY <1>14 DEF SettingsFrame, Take
  <2>2. Fetching => Fetching'
    BY <1>still, <2>1
  <2>3. /\ Len(frames') = Len(frames) - 1 /\ Head(frames) = frames[1]
        /\ \A j \in 1..Len(frames') : frames'[j] = frames[j + 1]
        /\ Len(frames) \in Nat /\ Len(frames) >= 1
    BY <1>type, <2>1
  <2>4. \A j \in 2..Len(frames) : j - 1 \in 1..Len(frames') /\ frames'[j - 1] = frames[j]
    BY <2>3
  <2>5. CASE k = c
    <3>1. more => Coming(k)'
      BY <2>4, <2>5 DEF Coming
    <3>2. values'[k] = v
      BY <1>type, <2>1, <2>5 DEF Values
    <3>3. QED BY <2>1, <2>5, <3>1, <3>2
  <2>6. CASE k # c
    <3>1. values'[k] = values[k] /\ (k \in late => k \in late')
      BY <1>type, <2>1, <2>6 DEF Values
    <3>2. Coming(k) => Coming(k)'
      <4>1. SUFFICES ASSUME NEW j \in 1..Len(frames), frames[j][1] = k PROVE Coming(k)'
        BY DEF Coming
      <4>2. j # 1
        BY <2>3, <2>6, <4>1
      <4>3. j \in 2..Len(frames)
        BY <4>2
      <4>4. QED BY <2>4, <4>1, <4>3 DEF Coming
    <3>3. QED BY <1>now, <2>1, <2>2, <3>1, <3>2
  <2>7. QED BY <2>5, <2>6
<1>15. CASE SocketLost
  <2>1. /\ UNCHANGED <<values, srv, calls>> /\ late \subseteq late'
        /\ \A j \in 1..Len(frames) : frames[j][1] \in late'
    BY <1>15, <1>type DEF SocketLost
  <2>2. Coming(k) => k \in late'
    BY <2>1 DEF Coming
  <2>3. QED BY <1>now, <1>still, <2>1, <2>2
<1>16. CASE SocketBack
  BY <1>16, <1>same, <1>still DEF SocketBack
<1>17. QED
  BY <1>1, <1>2, <1>3, <1>4, <1>5, <1>6, <1>7, <1>8, <1>9, <1>10, <1>11, <1>12, <1>13, <1>14,
     <1>15, <1>16
  DEF AccountNext, User, Answer


(* Steps keep the order of creations and deletions. *)
LEMMA OrderlyStep == Typed /\ Orderly /\ AccountNext => Orderly'
<1> SUFFICES ASSUME Typed, Orderly, AccountNext PROVE Orderly'
  OBVIOUS
<1> USE AccountAssumption DEF server, settings, windows, wire
<1>type. /\ calls \in [Slots -> Call \cup {NoCall}] /\ nets \subseteq Nets
         /\ \A i \in Slots : Asks(i, {"create", "update", "delete"}) => calls[i].of \in Nets
  BY DEF Typed, TypeOK
<1>free. Free # {} => \E h \in Slots : calls[h] = NoCall
  BY DEF Free, UnderWay
<1>few. ASSUME \A n \in nets' : n \in nets,
               \A j \in Slots : \A n \in Nets :
                 /\ About(j, "create", n)' =>
                      About(j, "create", n) /\ (calls'[j].state = "sent" => calls[j].state = "sent")
                 /\ About(j, "delete", n)' /\ calls'[j].state = "done" =>
                      About(j, "delete", n) /\ calls[j].state = "done"
        PROVE  Orderly'
  <2>1. \A i, j \in Slots : \A n \in Nets :
          /\ About(i, "create", n)' /\ About(j, "create", n)' => i = j
          /\ About(i, "create", n)' /\ calls'[i].state = "sent" => n \notin nets'
          /\ About(j, "delete", n)' /\ calls'[j].state = "done" =>
               n \notin nets' /\ ~(About(i, "create", n)' /\ calls'[i].state = "sent")
    BY <1>few DEF Orderly
  <2>2. QED BY <2>1 DEF Orderly
<1>same. UNCHANGED <<nets, calls>> => Orderly'
  BY <1>few DEF About, Asks
<1>cleared. ASSUME NEW i \in Slots
            PROVE  /\ [calls EXCEPT ![i] = NoCall] \in [Slots -> Call \cup {NoCall}]
                   /\ [calls EXCEPT ![i] = NoCall][i] = NoCall
                   /\ \A j \in Slots : j # i => [calls EXCEPT ![i] = NoCall][j] = calls[j]
  BY <1>type
<1>put. ASSUME NEW cs \in [Slots -> Call \cup {NoCall}], \A j \in Slots : cs[j] = calls[j] \/ cs[j] = NoCall,
               NEW c \in Call, c.op # "create", c.state = "sent", \E h \in Slots : cs[h] = NoCall,
               calls' = Put(cs, c), nets' = nets
        PROVE  Orderly'
  <2>1. PICK h \in Slots : /\ cs[h] = NoCall /\ calls'[h] = c
                           /\ \A j \in Slots : j # h => calls'[j] = cs[j]
    BY <1>put, PutKeeps
  <2>2. \A j \in Slots : calls'[j] = calls[j] \/ calls'[j] = NoCall \/ calls'[j] = c
    BY <1>put, <2>1
  <2>3. QED BY <1>few, <1>put, <2>2 DEF About, Asks
<1>1. ASSUME NEW i \in Slots, Serve(i) PROVE Orderly'
  <2> DEFINE d == [calls[i] EXCEPT !.state = "done", !.map = srv', !.nets = nets']
  <2>1. /\ calls[i] # NoCall /\ calls[i] \in Call /\ calls' = [calls EXCEPT ![i] = d]
        /\ calls[i].state = "sent" /\ Accept(calls[i])
        /\ calls[i].op = "delete" => calls[i].of \in nets
        /\ calls[i].op = "create" => calls[i].of \notin nets
    BY <1>1, <1>type DEF Serve
  <2>2. d.op = calls[i].op /\ d.of = calls[i].of /\ d.state = "done" /\ d # NoCall
    BY <2>1 DEF Call, NoCall
  <2> HIDE DEF d
  <2>3. calls'[i] = d /\ \A j \in Slots : j # i => calls'[j] = calls[j]
    BY <1>type, <2>1
  <2>4. \A j \in Slots : \A n \in Nets :
          /\ About(j, "create", n)' <=> About(j, "create", n)
          /\ About(j, "delete", n)' <=> About(j, "delete", n)
          /\ j # i => calls'[j].state = calls[j].state
    BY <2>1, <2>2, <2>3 DEF About, Asks
  <2>5. CASE calls[i].op = "create"
    <3>1. nets' = nets \cup {calls[i].of} /\ calls[i].of \in Nets /\ About(i, "create", calls[i].of)
      BY <1>type, <2>1, <2>5 DEF Accept, Asks, About
    <3>2. \A h, j \in Slots : \A n \in Nets :
            /\ About(h, "create", n) /\ About(j, "create", n) => h = j
            /\ About(h, "create", n) /\ calls'[h].state = "sent" => n \notin nets'
            /\ About(j, "delete", n) /\ calls'[j].state = "done" =>
                 n \notin nets' /\ ~(About(h, "create", n) /\ calls'[h].state = "sent")
      <4>1. SUFFICES ASSUME NEW h \in Slots, NEW j \in Slots, NEW n \in Nets
                     PROVE  /\ About(h, "create", n) /\ About(j, "create", n) => h = j
                            /\ About(h, "create", n) /\ calls'[h].state = "sent" => n \notin nets'
                            /\ About(j, "delete", n) /\ calls'[j].state = "done" =>
                                 n \notin nets' /\ ~(About(h, "create", n) /\ calls'[h].state = "sent")
        OBVIOUS
      <4>2. About(h, "create", n) /\ About(j, "create", n) => h = j
        BY DEF Orderly
      <4>3. About(h, "create", n) /\ calls'[h].state = "sent" => n \notin nets'
        <5>1. SUFFICES ASSUME About(h, "create", n), calls'[h].state = "sent" PROVE n \notin nets'
          OBVIOUS
        <5>2. h # i
          BY <2>2, <2>3, <5>1
        <5>3. n \notin nets /\ n # calls[i].of
          BY <2>4, <3>1, <5>1, <5>2 DEF Orderly
        <5>4. QED BY <3>1, <5>3
      <4>4. About(j, "delete", n) /\ calls'[j].state = "done" =>
              n \notin nets' /\ ~(About(h, "create", n) /\ calls'[h].state = "sent")
        <5>1. SUFFICES ASSUME About(j, "delete", n), calls'[j].state = "done"
                       PROVE  n \notin nets' /\ ~(About(h, "create", n) /\ calls'[h].state = "sent")
          OBVIOUS
        <5>2. j # i
          BY <2>5, <5>1 DEF About, Asks
        <5>3. n \notin nets /\ n # calls[i].of
          BY <2>1, <2>4, <3>1, <5>1, <5>2 DEF Orderly
        <5>4. h = i => calls'[h].state # "sent"
          BY <2>2, <2>3
        <5>5. h # i => ~(About(h, "create", n) /\ calls[h].state = "sent")
          BY <2>4, <5>1, <5>2 DEF Orderly
        <5>6. QED BY <2>4, <3>1, <5>3, <5>4, <5>5
      <4>5. QED BY <4>2, <4>3, <4>4
    <3>3. QED BY <2>4, <3>2 DEF Orderly
  <2>6. CASE calls[i].op = "delete"
    <3>1. nets' = nets \ {calls[i].of} /\ calls[i].of \in Nets /\ calls[i].of \in nets
      BY <1>type, <2>1, <2>6 DEF Accept, Asks
    <3>2. ~About(i, "create", calls[i].of)
      BY <2>6 DEF About, Asks
    <3>3. SUFFICES ASSUME NEW h \in Slots, NEW j \in Slots, NEW n \in Nets
                   PROVE  /\ About(h, "create", n) /\ About(j, "create", n) => h = j
                          /\ About(h, "create", n) /\ calls'[h].state = "sent" => n \notin nets'
                          /\ About(j, "delete", n) /\ calls'[j].state = "done" =>
                               n \notin nets' /\ ~(About(h, "create", n) /\ calls'[h].state = "sent")
      BY <2>4 DEF Orderly
    <3>4. About(h, "create", n) /\ About(j, "create", n) => h = j
      BY DEF Orderly
    <3>5. About(h, "create", n) /\ calls'[h].state = "sent" => calls[h].state = "sent" /\ n \notin nets
      BY <2>2, <2>3, <2>4 DEF Orderly
    <3>6. ASSUME About(j, "delete", n), calls'[j].state = "done"
          PROVE  n \notin nets' /\ ~(About(h, "create", n) /\ calls'[h].state = "sent")
      <4>1. CASE j = i
        <5>1. n = calls[i].of
          BY <3>6, <4>1 DEF About
        <5>2. QED BY <3>1, <3>5, <5>1
      <4>2. CASE j # i
        <5>1. n \notin nets /\ ~(About(h, "create", n) /\ calls[h].state = "sent")
          BY <2>4, <3>6, <4>2 DEF Orderly
        <5>2. QED BY <3>1, <3>5, <5>1
      <4>3. QED BY <4>1, <4>2
    <3>7. QED BY <3>1, <3>4, <3>5, <3>6
  <2>7. CASE calls[i].op \notin {"create", "delete"}
    <3>1. nets' = nets
      BY <2>1, <2>7 DEF Accept
    <3>2. \A n \in Nets : ~About(i, "create", n) /\ ~About(i, "delete", n)
      BY <2>7 DEF About, Asks
    <3>3. QED BY <1>few, <2>4, <3>1, <3>2
  <2>8. QED BY <2>5, <2>6, <2>7
<1>2. ASSUME NEW i \in Slots, Refuse(i) \/ Lose(i) PROVE Orderly'
  <2>1. PICK s \in {"refused", "failed"} :
          /\ calls[i] # NoCall /\ calls[i] \in Call /\ calls' = [calls EXCEPT ![i].state = s]
          /\ UNCHANGED nets
    BY <1>2, <1>type DEF Refuse, Lose
  <2> DEFINE d == [calls[i] EXCEPT !.state = s]
  <2>2. d.op = calls[i].op /\ d.of = calls[i].of /\ d.state = s /\ d # NoCall
    BY <2>1 DEF Call, NoCall
  <2>3. calls'[i] = d /\ \A j \in Slots : j # i => calls'[j] = calls[j]
    BY <1>type, <2>1
  <2> HIDE DEF d
  <2>4. \A j \in Slots : \A n \in Nets :
          /\ About(j, "create", n)' <=> About(j, "create", n)
          /\ About(j, "delete", n)' <=> About(j, "delete", n)
          /\ calls'[j].state \in {"sent", "done"} => calls'[j].state = calls[j].state
    BY <2>1, <2>2, <2>3 DEF About, Asks
  <2>5. QED BY <1>few, <2>1, <2>4
<1>3. ASSUME NEW i \in Slots,
             MapReply(i) \/ MapFails(i) \/ RosterReply(i) \/ DeleteReply(i) \/ NetworkFails(i)
      PROVE  Orderly'
  <2>1. calls' = [calls EXCEPT ![i] = NoCall] /\ nets' = nets
    BY <1>3 DEF MapReply, MapFails, RosterReply, DeleteReply, NetworkFails
  <2>2. \A j \in Slots : calls'[j] = calls[j] \/ calls'[j] = NoCall
    BY <1>cleared, <2>1
  <2>3. QED BY <1>few, <2>1, <2>2 DEF About, Asks
<1>4. ASSUME NEW i \in Slots, PatchFails(i) \/ SaveReply(i) PROVE Orderly'
  <2>1. PICK op \in {"boot", "roster"} :
          calls' = Put([calls EXCEPT ![i] = NoCall], Request(op, "all", Unset)) /\ nets' = nets
    BY <1>4 DEF PatchFails, SaveReply
  <2>2. /\ Request(op, "all", Unset) \in Call /\ Request(op, "all", Unset).op # "create"
        /\ Request(op, "all", Unset).state = "sent"
    BY RequestIsCall DEF Request
  <2> DEFINE cs == [calls EXCEPT ![i] = NoCall]
             c == Request(op, "all", Unset)
  <2>3. /\ cs \in [Slots -> Call \cup {NoCall}] /\ cs[i] = NoCall
        /\ \A j \in Slots : cs[j] = calls[j] \/ cs[j] = NoCall
    BY <1>cleared
  <2>4. calls' = Put(cs, c) /\ c \in Call /\ c.op # "create" /\ c.state = "sent"
    BY <2>1, <2>2
  <2> HIDE DEF cs, c
  <2>5. QED BY <1>put, <2>1, <2>3, <2>4
<1>5. CASE OpenPane \/ ClosePane \/ OpenForm \/ CloseForm \/ (\E c \in Keys : ChooseCategory(c))
           \/ (\E c \in Keys : TimerFires(c)) \/ SettingsFrame \/ SocketLost \/ SocketBack
           \/ (\E k \in Keys : \E v \in Value : ChangedElsewhere(k, v))
  BY <1>5, <1>same DEF OpenPane, ClosePane, OpenForm, CloseForm, ChooseCategory, TimerFires,
                       SettingsFrame, SocketLost, SocketBack, ChangedElsewhere
<1>6. CASE ResetSetting \/ (\E v \in Value : SetSetting(v)) \/ (\E n \in Nets : DeleteNetwork(n))
           \/ (\E n \in Nets : Save("update", n))
  <2>1. PICK op \in {"reset", "patch", "delete", "update"}, of \in Keys \cup Nets, v \in Value \cup {Unset} :
          calls' = Put(calls, Request(op, of, v)) /\ nets' = nets /\ Free # {}
    BY <1>6 DEF ResetSetting, SetSetting, DeleteNetwork, Save, Typed, TypeOK
  <2>2. /\ Request(op, of, v) \in Call /\ Request(op, of, v).op # "create"
        /\ Request(op, of, v).state = "sent"
    BY RequestIsCall DEF Request
  <2>3. QED BY <1>type, <1>free, <1>put, <2>1, <2>2
<1>7. ASSUME NEW n \in Nets, Save("create", n) PROVE Orderly'
  <2>1. /\ calls' = Put(calls, Request("create", n, Unset)) /\ nets' = nets /\ Free # {}
        /\ n \notin nets /\ \A j \in Slots : calls[j] # NoCall => calls[j].of # n
    BY <1>7 DEF Save, UnderWay
  <2> DEFINE c == Request("create", n, Unset)
  <2>2. c \in Call /\ c # NoCall /\ c.op = "create" /\ c.of = n
    BY RequestIsCall DEF Request, NoCall
  <2> HIDE DEF c
  <2>3. PICK h \in Slots : calls'[h] = c /\ \A j \in Slots : j # h => calls'[j] = calls[j]
    BY <1>type, <1>free, <2>1, <2>2, PutKeeps DEF c
  <2>4. \A j \in Slots : \A m \in Nets :
          /\ About(j, "create", m)' <=> IF j = h THEN m = n ELSE About(j, "create", m)
          /\ About(j, "delete", m)' <=> j # h /\ About(j, "delete", m)
          /\ j # h => calls'[j] = calls[j]
          /\ ~About(j, "create", n) /\ ~About(j, "delete", n)
    BY <2>1, <2>2, <2>3 DEF About, Asks
  <2>5. SUFFICES ASSUME NEW i \in Slots, NEW j \in Slots, NEW m \in Nets
                 PROVE  /\ About(i, "create", m)' /\ About(j, "create", m)' => i = j
                        /\ About(i, "create", m)' /\ calls'[i].state = "sent" => m \notin nets
                        /\ About(j, "delete", m)' /\ calls'[j].state = "done" =>
                             m \notin nets /\ ~(About(i, "create", m)' /\ calls'[i].state = "sent")
    BY <2>1 DEF Orderly
  <2>6. /\ About(i, "create", m) /\ About(j, "create", m) => i = j
        /\ About(i, "create", m) /\ calls[i].state = "sent" => m \notin nets
        /\ About(j, "delete", m) /\ calls[j].state = "done" =>
             m \notin nets /\ ~(About(i, "create", m) /\ calls[i].state = "sent")
    BY DEF Orderly
  <2>7. QED BY <2>1, <2>4, <2>6
<1>8. ASSUME NEW n \in Nets, DeletedElsewhere(n) PROVE Orderly'
  <2>1. nets' = nets \ {n} /\ calls' = calls
    BY <1>8 DEF DeletedElsewhere
  <2>2. QED BY <1>few, <2>1 DEF About, Asks
<1>9. QED
  BY <1>1, <1>2, <1>3, <1>4, <1>5, <1>6, <1>7, <1>8 DEF AccountNext, User, Answer

(* Steps keep the reason of every difference between the networks. *)
LEMMA NetworksStep == Typed /\ NetworksAgree /\ Orderly /\ AccountNext => NetworksAgree'
<1> DEFINE Reason(n) == /\ n \in nets \ listed => \E i \in Slots : About(i, "create", n) \/ Naming(i, n)
                        /\ n \in listed \ nets => \E i \in Slots : About(i, "delete", n)
<1> SUFFICES ASSUME Typed, NetworksAgree, Orderly, AccountNext, NEW n \in Nets, n \notin late'
             PROVE  Reason(n)'
  BY DEF NetworksAgree
<1> USE AccountAssumption DEF server, settings, windows, wire
<1>type. /\ calls \in [Slots -> Call \cup {NoCall}] /\ nets \subseteq Nets /\ listed \subseteq Nets
         /\ frames \in Seq(Keys \X Value) /\ n \notin Keys
         /\ \A i \in Slots : Asks(i, {"create", "update", "delete"}) => calls[i].of \in Nets
  BY DEF Typed, TypeOK, Keys
<1>free. Free # {} => \E h \in Slots : calls[h] = NoCall
  BY DEF Free, UnderWay
<1>now. n \notin late => Reason(n)
  BY DEF NetworksAgree
<1> DEFINE Kept == /\ \A i \in Slots : About(i, "create", n) \/ Naming(i, n) =>
                        \E j \in Slots : About(j, "create", n)' \/ Naming(j, n)'
                   /\ \A i \in Slots : About(i, "delete", n) => \E j \in Slots : About(j, "delete", n)'
<1>kept. ASSUME n \notin late, Kept,
                n \in nets' \ listed' => n \in nets \ listed, n \in listed' \ nets' => n \in listed \ nets
         PROVE  Reason(n)'
  BY <1>now, <1>kept
<1>still. UNCHANGED calls => Kept
  BY DEF About, Naming, Asks
<1>cleared. ASSUME NEW i \in Slots
            PROVE  /\ [calls EXCEPT ![i] = NoCall] \in [Slots -> Call \cup {NoCall}]
                   /\ [calls EXCEPT ![i] = NoCall][i] = NoCall
                   /\ \A j \in Slots : j # i => [calls EXCEPT ![i] = NoCall][j] = calls[j]
  BY <1>type
<1>gone. ASSUME NEW i \in Slots, calls' = [calls EXCEPT ![i] = NoCall],
                calls[i].op \notin {"create", "roster", "delete"}
         PROVE  Kept
  <2>1. \A j \in Slots : About(j, "create", n) \/ Naming(j, n) \/ About(j, "delete", n) => j # i
    BY <1>gone DEF About, Naming, Asks
  <2>2. \A j \in Slots : j # i => calls'[j] = calls[j]
    BY <1>gone, <1>cleared
  <2>3. QED BY <2>1, <2>2 DEF About, Naming, Asks
<1>put. ASSUME NEW cs \in [Slots -> Call \cup {NoCall}], NEW c \in Call, \E h \in Slots : cs[h] = NoCall,
               \A j \in Slots : calls[j] # NoCall /\ calls[j].op \in {"create", "roster", "delete"} =>
                                  cs[j] = calls[j],
               calls' = Put(cs, c)
        PROVE  Kept
  <2>1. PICK h \in Slots : cs[h] = NoCall /\ \A j \in Slots : j # h => calls'[j] = cs[j]
    BY <1>put, PutKeeps
  <2>2. \A j \in Slots : calls[j] # NoCall /\ calls[j].op \in {"create", "roster", "delete"} =>
                           calls'[j] = calls[j]
    BY <1>put, <2>1
  <2>3. QED BY <2>2 DEF About, Naming, Asks
<1> HIDE DEF Kept
<1>1. ASSUME NEW i \in Slots, Serve(i) PROVE Reason(n)'
  <2> DEFINE d == [calls[i] EXCEPT !.state = "done", !.map = srv', !.nets = nets']
  <2>1. /\ calls[i] # NoCall /\ calls[i] \in Call /\ calls' = [calls EXCEPT ![i] = d]
        /\ Accept(calls[i]) /\ UNCHANGED <<late, listed>>
    BY <1>1, <1>type DEF Serve
  <2>2. d.op = calls[i].op /\ d.of = calls[i].of /\ d.nets = nets' /\ d # NoCall
    BY <2>1 DEF Call, NoCall
  <2> HIDE DEF d
  <2>3. calls'[i] = d /\ \A j \in Slots : j # i => calls'[j] = calls[j]
    BY <1>type, <2>1
  <2>4. \A j \in Slots :
          /\ About(j, "create", n)' <=> About(j, "create", n)
          /\ About(j, "delete", n)' <=> About(j, "delete", n)
          /\ Naming(j, n) /\ n \in nets' => Naming(j, n)'
    BY <2>1, <2>2, <2>3 DEF About, Asks, Naming
  <2>5. n \in nets' \ listed' =>
          n \in nets \ listed \/ About(i, "create", n)
    BY <2>1 DEF Accept, About, Asks
  <2>6. n \in listed' \ nets' => n \in listed \ nets \/ About(i, "delete", n)
    BY <2>1 DEF Accept, About, Asks
  <2>7. QED BY <1>now, <2>1, <2>4, <2>5, <2>6
<1>2. ASSUME NEW i \in Slots, Refuse(i) \/ Lose(i) PROVE Reason(n)'
  <2>1. PICK s \in {"refused", "failed"} :
          /\ calls[i] # NoCall /\ calls[i] \in Call /\ calls' = [calls EXCEPT ![i].state = s]
          /\ UNCHANGED <<nets, listed, late>>
    BY <1>2, <1>type DEF Refuse, Lose
  <2> DEFINE d == [calls[i] EXCEPT !.state = s]
  <2>2. d.op = calls[i].op /\ d.of = calls[i].of /\ d.state = s /\ d # NoCall
    BY <2>1 DEF Call, NoCall
  <2>3. calls'[i] = d /\ \A j \in Slots : j # i => calls'[j] = calls[j]
    BY <1>type, <2>1
  <2> HIDE DEF d
  <2>4. Kept
    BY <2>1, <2>2, <2>3 DEF Kept, About, Asks, Naming
  <2>5. QED BY <1>kept, <2>1, <2>4
<1>3. ASSUME NEW i \in Slots, MapReply(i) \/ MapFails(i) PROVE Reason(n)'
  <2>1. /\ calls' = [calls EXCEPT ![i] = NoCall] /\ UNCHANGED <<nets, listed>> /\ n \notin late
        /\ calls[i].op \notin {"create", "roster", "delete"}
    BY <1>3, <1>type DEF MapReply, MapFails
  <2>2. Kept
    BY <1>gone, <2>1
  <2>3. QED BY <1>kept, <2>1, <2>2
<1>4. ASSUME NEW i \in Slots, PatchFails(i) PROVE Reason(n)'
  <2>1. /\ calls' = Put([calls EXCEPT ![i] = NoCall], Request("boot", "all", Unset))
        /\ calls[i].op = "patch" /\ UNCHANGED <<nets, listed, late>>
    BY <1>4 DEF PatchFails
  <2>2. Request("boot", "all", Unset) \in Call
    BY RequestIsCall
  <2>3. \A j \in Slots : calls[j] # NoCall /\ calls[j].op \in {"create", "roster", "delete"} =>
                           [calls EXCEPT ![i] = NoCall][j] = calls[j]
    BY <1>cleared, <2>1
  <2>4. Kept
    BY <1>put, <1>cleared, <2>1, <2>2, <2>3
  <2>5. QED BY <1>kept, <2>1, <2>4
<1>5. ASSUME NEW i \in Slots, RosterReply(i) PROVE Reason(n)'
  <2>1. /\ calls' = [calls EXCEPT ![i] = NoCall] /\ nets' = nets /\ listed' = listed \cup calls[i].nets
        /\ n \notin late /\ n \notin calls[i].nets \ nets /\ calls[i] # NoCall
        /\ calls[i].op = "roster" /\ calls[i].state = "done"
    BY <1>5 DEF RosterReply, Answered
  <2>2. \A j \in Slots : j # i => calls'[j] = calls[j]
    BY <1>cleared, <2>1
  <2>3. ASSUME n \in nets' \ listed' PROVE \E j \in Slots : About(j, "create", n)' \/ Naming(j, n)'
    <3>1. PICK j \in Slots : About(j, "create", n) \/ Naming(j, n)
      BY <1>now, <2>1, <2>3
    <3>2. j # i
      BY <2>1, <2>3, <3>1 DEF About, Naming, Asks
    <3>3. QED BY <2>2, <3>1, <3>2 DEF About, Naming, Asks
  <2>4. ASSUME n \in listed' \ nets' PROVE \E j \in Slots : About(j, "delete", n)'
    <3>1. PICK j \in Slots : About(j, "delete", n)
      BY <1>now, <2>1, <2>4
    <3>2. j # i
      BY <2>1, <3>1 DEF About, Asks
    <3>3. QED BY <2>2, <3>1, <3>2 DEF About, Asks
  <2>5. QED BY <2>3, <2>4
<1>6. ASSUME NEW i \in Slots, SaveReply(i) PROVE Reason(n)'
  <2> DEFINE c == Request("roster", "all", Unset)
             cs == [calls EXCEPT ![i] = NoCall]
  <2>1. calls' = Put(cs, c) /\ calls[i].op \in {"create", "update"} /\ UNCHANGED <<nets, listed, late>>
    BY <1>6 DEF SaveReply
  <2>2. c \in Call /\ c # NoCall /\ c.op = "roster" /\ c.state = "sent"
    BY RequestIsCall
  <2>3. cs \in [Slots -> Call \cup {NoCall}] /\ cs[i] = NoCall /\ \A j \in Slots : j # i => cs[j] = calls[j]
    BY <1>cleared
  <2> HIDE DEF c, cs
  <2>4. PICK h \in Slots : cs[h] = NoCall /\ calls'[h] = c /\ \A j \in Slots : j # h => calls'[j] = cs[j]
    BY <2>1, <2>2, <2>3, PutKeeps
  <2>5. Naming(h, n)'
    BY <2>2, <2>4 DEF Naming, Asks
  <2>6. \A j \in Slots : About(j, "delete", n) => About(j, "delete", n)'
    BY <2>1, <2>3, <2>4 DEF About, Asks
  <2>7. QED BY <1>now, <2>1, <2>5, <2>6
<1>7. ASSUME NEW i \in Slots, DeleteReply(i) PROVE Reason(n)'
  <2>1. /\ calls' = [calls EXCEPT ![i] = NoCall] /\ nets' = nets /\ listed' = listed \ {calls[i].of}
        /\ late' = late \ {calls[i].of} /\ calls[i] # NoCall
        /\ calls[i].op = "delete" /\ calls[i].state = "done"
    BY <1>7 DEF DeleteReply, Answered
  <2>2. CASE n = calls[i].of
    <3>1. About(i, "delete", n)
      BY <2>1, <2>2 DEF About, Asks
    <3>2. n \notin nets
      BY <2>1, <3>1 DEF Orderly
    <3>3. QED BY <2>1, <2>2, <3>2
  <2>3. CASE n # calls[i].of
    <3>1. n \notin late
      BY <2>1, <2>3
    <3>2. \A j \in Slots : About(j, "create", n) \/ Naming(j, n) \/ About(j, "delete", n) => j # i
      BY <2>1, <2>3 DEF About, Naming, Asks
    <3>3. \A j \in Slots : j # i => calls'[j] = calls[j]
      BY <1>cleared, <2>1
    <3>4. Kept
      BY <3>2, <3>3 DEF Kept, About, Naming, Asks
    <3>5. QED BY <1>kept, <2>1, <2>3, <3>1, <3>4
  <2>4. QED BY <2>2, <2>3
<1>8. ASSUME NEW i \in Slots, NetworkFails(i) PROVE Reason(n)'
  <2>1. /\ calls' = [calls EXCEPT ![i] = NoCall] /\ UNCHANGED <<nets, listed>> /\ n \notin late
        /\ calls[i].op = "roster" => n \notin nets \ listed
        /\ calls[i].op \in {"create", "delete"} => n # calls[i].of
    BY <1>8 DEF NetworkFails
  <2>2. \A j \in Slots : j # i => calls'[j] = calls[j]
    BY <1>cleared, <2>1
  <2>3. ASSUME n \in nets' \ listed' PROVE \E j \in Slots : About(j, "create", n)' \/ Naming(j, n)'
    <3>1. PICK j \in Slots : About(j, "create", n) \/ Naming(j, n)
      BY <1>now, <2>1, <2>3
    <3>2. j # i
      BY <2>1, <2>3, <3>1 DEF About, Naming, Asks
    <3>3. QED BY <2>2, <3>1, <3>2 DEF About, Naming, Asks
  <2>4. ASSUME n \in listed' \ nets' PROVE \E j \in Slots : About(j, "delete", n)'
    <3>1. PICK j \in Slots : About(j, "delete", n)
      BY <1>now, <2>1, <2>4
    <3>2. j # i
      BY <2>1, <3>1 DEF About, Asks
    <3>3. QED BY <2>2, <3>1, <3>2 DEF About, Asks
  <2>5. QED BY <2>3, <2>4
<1>9. CASE OpenPane \/ ClosePane \/ OpenForm \/ CloseForm \/ (\E c \in Keys : ChooseCategory(c))
           \/ (\E c \in Keys : TimerFires(c)) \/ SocketLost
           \/ (\E k \in Keys : \E v \in Value : ChangedElsewhere(k, v))
  <2>1. UNCHANGED <<calls, nets, listed>> /\ n \notin late
    BY <1>9 DEF OpenPane, ClosePane, OpenForm, CloseForm, ChooseCategory, TimerFires, SocketLost,
                ChangedElsewhere
  <2>2. QED BY <1>kept, <1>still, <2>1
<1>10. CASE SettingsFrame
  <2>1. /\ late' \in {late, late \ {Head(frames)[1]}, late \cup {Head(frames)[1]}} /\ frames # <<>>
        /\ UNCHANGED <<calls, nets, listed>>
    BY <1>10 DEF SettingsFrame
  <2>2. Head(frames)[1] \in Keys
    BY <1>type, <2>1
  <2>3. n \notin late
    BY <1>type, <2>1, <2>2
  <2>4. QED BY <1>kept, <1>still, <2>1, <2>3
<1>11. CASE SocketBack
  BY <1>11, <1>kept, <1>still DEF SocketBack
<1>12. CASE ResetSetting \/ (\E v \in Value : SetSetting(v)) \/ (\E m \in Nets : DeleteNetwork(m))
            \/ (\E m \in Nets : \E op \in {"create", "update"} : Save(op, m))
  <2>1. PICK op \in {"reset", "patch", "delete", "create", "update"}, of \in Keys \cup Nets,
             v \in Value \cup {Unset} :
          calls' = Put(calls, Request(op, of, v)) /\ UNCHANGED <<nets, listed, late>> /\ Free # {}
    BY <1>12 DEF ResetSetting, SetSetting, DeleteNetwork, Save, Typed, TypeOK
  <2>2. Request(op, of, v) \in Call
    BY RequestIsCall
  <2>3. Kept
    BY <1>type, <1>free, <1>put, <2>1, <2>2
  <2>4. QED BY <1>kept, <2>1, <2>3
<1>13. ASSUME NEW m \in Nets, DeletedElsewhere(m) PROVE Reason(n)'
  <2>1. nets' = nets \ {m} /\ late' = late \cup {m} /\ UNCHANGED <<calls, listed>>
    BY <1>13 DEF DeletedElsewhere
  <2>2. QED BY <1>kept, <1>still, <2>1
<1>14. QED
  BY <1>1, <1>2, <1>3, <1>4, <1>5, <1>6, <1>7, <1>8, <1>9, <1>10, <1>11, <1>12, <1>13
  DEF AccountNext, User, Answer

(* The unit follows the settings: whatever writes them writes it.             *)
LEMMA UnitStep == Typed /\ UnitFollows /\ AccountNext => UnitFollows'
<1> SUFFICES ASSUME Typed, UnitFollows, AccountNext PROVE UnitFollows'
  OBVIOUS
<1> USE DEF server, settings, windows, wire
<1>type. /\ values \in Values /\ registry \in BOOLEAN /\ unit \in [{"Tier", "Fold"} -> Value]
         /\ calls \in [Slots -> Call \cup {NoCall}] /\ frames \in Seq(Keys \X Value)
  BY DEF Typed, TypeOK
<1>typed. TypeOK'
  BY TypedStep DEF Typed
<1>store. \A v \in Value : \A k : [values EXCEPT ![k] = v] \in Values
  BY <1>type DEF Values
<1>take. ASSUME NEW m \in Values, NEW r \in BOOLEAN, Take(m, r) PROVE UnitFollows'
  <2>1. values' = m /\ registry' = r /\ unit' = UnitOf(m, r, unit)
    BY <1>take DEF Take
  <2> DEFINE tier == EffectiveIn(m, r, Tier)
             fold == EffectiveIn(m, r, Fold)
  <2>2. /\ unit'.Tier = IF tier = Unset THEN "on" ELSE tier
        /\ fold = Unset \/ unit'.Fold = fold
    BY <1>type, <2>1, UnitOfMap
  <2>3. Effective(Tier)' = tier /\ Effective(Fold)' = fold
    BY <2>1 DEF Effective
  <2>4. QED BY <1>typed, <2>2, <2>3 DEF UnitFollows
<1>same. UNCHANGED <<values, registry, unit>> => UnitFollows'
  BY <1>typed DEF UnitFollows, Effective
<1>1. ASSUME NEW i \in Slots, MapReply(i) PROVE UnitFollows'
  <2>1. /\ calls[i].map \in Values /\ (registry \/ calls[i].op = "boot") \in BOOLEAN
        /\ Take(calls[i].map, registry \/ calls[i].op = "boot")
    BY <1>1, <1>type DEF MapReply, Answered, Call
  <2>2. QED BY <1>take, <2>1
<1>2. ASSUME NEW v \in Value, SetSetting(v) PROVE UnitFollows'
  BY <1>2, <1>type, <1>store, <1>take DEF SetSetting
<1>3. CASE SettingsFrame
  <2>1. Head(frames) \in Keys \X Value
        /\ Take([values EXCEPT ![Head(frames)[1]] = Head(frames)[2]], registry)
    BY <1>3, <1>type DEF SettingsFrame
  <2>2. [values EXCEPT ![Head(frames)[1]] = Head(frames)[2]] \in Values
    BY <1>store, <2>1
  <2>3. QED BY <1>type, <1>take, <2>1, <2>2
<1>4. ASSUME ~SettingsFrame, \A i \in Slots : ~MapReply(i), \A v \in Value : ~SetSetting(v)
      PROVE  UnitFollows'
  <2>1. UNCHANGED <<values, registry, unit>>
    BY <1>4 DEF AccountNext, User, Answer, Serve, Refuse, Lose, PatchFails, MapFails, RosterReply,
                SaveReply, DeleteReply, NetworkFails, OpenPane, ClosePane, ResetSetting, OpenForm,
                CloseForm, ChooseCategory, DeleteNetwork, Save, SocketLost, SocketBack, TimerFires,
                ChangedElsewhere, DeletedElsewhere
  <2>2. QED BY <1>same, <2>1
<1>5. QED BY <1>1, <1>2, <1>3, <1>4

(* A session starts with every difference named, and with the unit that no     *)
(* settings give.                                                              *)
LEMMA AccountStarts == Init => AccountInv /\ UnitFollows
<1> SUFFICES ASSUME Init PROVE AccountInv /\ UnitFollows
  OBVIOUS
<1> USE AccountAssumption
<1>typed. Typed
  BY AccountBegins
<1>1. AccountInit(within) /\ within \in BOOLEAN /\ (~within => srv = values)
  BY DEF Init
<1>2. /\ listed = nets /\ registry = FALSE /\ values = [k \in Keys |-> Unset]
      /\ unit = [Tier |-> "on", Fold |-> "on"]
      /\ calls = [i \in Slots |-> IF within /\ i = 1 THEN Request("boot", "all", Unset) ELSE NoCall]
  BY <1>1 DEF AccountInit
<1>3. Request("boot", "all", Unset).op = "boot" /\ Request("boot", "all", Unset) # NoCall
  BY RequestIsCall
<1>4. \A i \in Slots : \A n : ~About(i, "create", n) /\ ~About(i, "delete", n)
  BY <1>2, <1>3 DEF About, Asks
<1>5. SettingsAgree
  <2>1. CASE within
    <3>1. 1 \in Slots
      BY DEF Slots
    <3>2. Asks(1, {"boot", "patch", "reset"})
      BY <1>2, <1>3, <2>1, <3>1 DEF Asks
    <3>3. QED BY <3>1, <3>2 DEF SettingsAgree, Fetching
  <2>2. CASE ~within
    BY <1>1, <2>2 DEF SettingsAgree
  <2>3. QED BY <2>1, <2>2
<1>6. NetworksAgree /\ Orderly
  BY <1>2, <1>4 DEF NetworksAgree, Orderly
<1>7. UnitFollows
  <2>1. Effective(Tier) = Unset /\ Effective(Fold) = Unset
    BY <1>2 DEF Effective, EffectiveIn, Keys
  <2>2. unit.Tier = "on"
    BY <1>2
  <2>3. QED BY <1>typed, <2>1, <2>2 DEF UnitFollows, Typed
<1>8. QED BY <1>typed, <1>5, <1>6, <1>7 DEF AccountInv

(* All of it holds in every state: a step of the session touches none of it.  *)
LEMMA AccountHolds == Spec => [](AccountInv /\ UnitFollows)
<1>1. AccountInv /\ UnitFollows /\ [Next]_profileVars => AccountInv' /\ UnitFollows'
  <2> SUFFICES ASSUME AccountInv, UnitFollows, [Next]_profileVars PROVE AccountInv' /\ UnitFollows'
    OBVIOUS
  <2>1. CASE AccountNext
    BY <2>1, TypedStep, SettingsStep, NetworksStep, OrderlyStep, UnitStep DEF AccountInv
  <2>2. CASE UNCHANGED accountVars
    <3> USE <2>2 DEF accountVars, server, settings, windows, wire
    <3>1. Typed'
      BY DEF AccountInv, Typed, TypeOK, Asks
    <3>2. SettingsAgree'
      BY DEF AccountInv, SettingsAgree, Fetching, Coming, Asks
    <3>3. NetworksAgree' /\ Orderly'
      BY DEF AccountInv, NetworksAgree, Orderly, About, Naming, Asks
    <3>4. UnitFollows'
      BY <3>1 DEF UnitFollows, Effective, Typed
    <3>5. QED BY <3>1, <3>2, <3>3, <3>4 DEF AccountInv
  <2>3. QED BY <2>1, <2>2 DEF Next, profileVars
<1>2. QED BY <1>1, AccountStarts, PTL DEF Spec

(* Whatever order the calls are served in and the replies and frames come in,  *)
(* when nothing is under way the settings and the networks are the server's,   *)
(* save for the differences that have a name: a write that failed does not     *)
(* stay (app.rs:383).                                                          *)
THEOREM SettlesOnTheServer == Spec => []SettledAgrees
<1>1. AccountInv => SettledAgrees
  <2> SUFFICES ASSUME AccountInv, UnderWay = {}, frames = <<>>
               PROVE  /\ \A k \in Keys \ late : registry => values[k] = srv[k]
                      /\ listed \ late = nets \ late
    BY DEF SettledAgrees
  <2>1. \A i \in Slots : calls[i] = NoCall
    BY DEF UnderWay
  <2>2. ~Fetching /\ \A i \in Slots : \A n : ~About(i, "create", n) /\ ~About(i, "delete", n) /\ ~Naming(i, n)
    BY <2>1 DEF Fetching, About, Naming, Asks
  <2>3. \A k : ~Coming(k)
    BY DEF Coming
  <2>4. \A k \in Keys \ late : values[k] = srv[k]
    BY <2>2, <2>3 DEF AccountInv, SettingsAgree
  <2>5. nets \subseteq Nets /\ listed \subseteq Nets
    BY DEF AccountInv, Typed, TypeOK
  <2>6. \A n \in Nets \ late : n \in nets <=> n \in listed
    BY <2>2 DEF AccountInv, NetworksAgree
  <2>7. QED BY <2>4, <2>5, <2>6
<1>2. QED BY <1>1, AccountHolds, PTL

(* The unit of the pages is the one the settings give, however the replies,    *)
(* the writes and the frames of the other devices interleave (app.rs:334-336). *)
THEOREM UnitIsTheSettings == Spec => []UnitFollows
<1>1. QED BY AccountHolds, PTL
================================================================================
