-------------------------------- MODULE Session --------------------------------
(***************************************************************************)
(* From launch to session (scully main.rs, login.rs, credentials.rs, app.rs):  *)
(* where tokens are kept, what a launch resumes with, the login window, the    *)
(* roster fetch that doubles as a check of the token, the socket task, and     *)
(* what becomes of a token that the server refuses.                           *)
(*                                                                          *)
(* One account on one server.  Tokens are numbered as they are issued, 0 is    *)
(* none; what was kept under the application's old name are tokens 1 and 2.    *)
(***************************************************************************)
EXTENDS Naturals, FiniteSets

CONSTANTS
  MaxTokens,   \* bound: tokens ever issued
  MaxChats,    \* bound: chat windows
  MaxChances     \* bound: launches, revocations, network faults, changes of the keyring

ASSUME SessionAssumption ==
  /\ MaxTokens \in Nat /\ MaxTokens >= 2
  /\ MaxChats \in Nat \ {0} /\ MaxChances \in Nat

VARIABLES
  (* on disk and in the keyring *)
  kept,      \* the token in each place
  known,     \* last-account names the account
  keyring,   \* whether the Secret Service answers
  (* the tokenServer *)
  issued,    \* tokens issued so far
  alive,     \* tokens it accepts
  (* the process *)
  running,
  login,     \* the login window
  chats,     \* chat windows
  token,     \* of App.rest
  socket,    \* the handle App.socket is there
  task,      \* the socket task
  conn,      \* the state the windows show
  call,      \* the REST call of the moment
  (* history, for the properties *)
  told,      \* tokens the server has refused and the application forgotten
  left,      \* tokens the keyring kept because it did not answer when they were superseded
  chances

disk == <<kept, known, keyring>>
tokenServer == <<issued, alive>>
openWindows == <<running, login, chats>>
link == <<token, socket, task, conn>>
history == <<told, left>>
sessionVars == <<disk, tokenServer, openWindows, link, call, history, chances>>

Places == {"ring", "oldRing", "file", "oldFile"}
Tokens == 1..MaxTokens

Chance == chances < MaxChances /\ chances' = chances + 1

--------------------------------------------------------------------------------
(* credentials.rs *)

\* Credentials::load: both keyring entries before both files
Load(k, ring) ==
  LET order == <<"ring", "oldRing", "file", "oldFile">>
      found == {i \in 1..4 : k[order[i]] # 0 /\ (order[i] \in {"ring", "oldRing"} => ring)}
  IN IF found = {} THEN 0 ELSE k[order[CHOOSE i \in found : \A j \in found : i <= j]]

\* mutant: only where the keyring answers
StoredInRing(k, ring, t) == IF ring THEN [k EXCEPT !["ring"] = t] ELSE k

\* Credentials::store: the file only if the keyring does not take it
Stored(k, ring, t) == IF ring THEN [k EXCEPT !["ring"] = t] ELSE [k EXCEPT !["file"] = t]

\* mutant: only where it would be stored
ClearedThere(k, ring) == IF ring THEN [k EXCEPT !["ring"] = 0] ELSE [k EXCEPT !["file"] = 0]

\* Credentials::clear
Cleared(k, ring) ==
  [k EXCEPT !["ring"] = IF ring THEN 0 ELSE @, !["file"] = 0]

--------------------------------------------------------------------------------
(* Sessions *)

\* start_session and the chat window that shows it
StartSession(t, ask) ==
  /\ token' = t /\ conn' = "connecting" /\ chats' = chats + 1
  /\ call' = ask
  /\ UNCHANGED <<socket, task>>

\* What the keyring still has although it is superseded
LeftBehind == left \cup IF keyring \/ kept["ring"] = 0 THEN {} ELSE {kept["ring"]}

\* on_session_dead
Forget ==
  /\ kept' = Cleared(kept, keyring)
  /\ socket' = FALSE
  /\ told' = told \cup {token}
  /\ left' = LeftBehind

\* The first activation: resume, or ask for the password.
Launch ==
  LET t == IF known THEN Load(kept, keyring) ELSE 0 IN
  /\ ~running
  /\ running' = TRUE
  /\ IF t # 0 THEN StartSession(t, "roster") /\ UNCHANGED login
     ELSE login' = "open" /\ UNCHANGED <<link, call, chats>>
  /\ Chance
  /\ UNCHANGED <<disk, tokenServer, history>>

\* A second launch hands over to the first: one more chat window.
LaunchAgain ==
  /\ running /\ chats < MaxChats
  /\ chats' = chats + 1
  /\ Chance
  /\ UNCHANGED <<disk, tokenServer, running, login, link, call, history>>

\* LoginWindow::attempt; a busy window ignores the button and Enter.
Attempt ==
  /\ login = "open" /\ call = "none"
  /\ login' = "busy" /\ call' = "mint"
  /\ UNCHANGED <<disk, tokenServer, running, chats, link, history, chances>>

MintFails ==
  /\ call = "mint"
  /\ login' = IF login = "busy" THEN "open" ELSE login
  /\ call' = "none"
  /\ UNCHANGED <<disk, tokenServer, running, chats, link, history, chances>>

\* on_token, also of a login window that was closed meanwhile
Minted ==
  LET t == issued + 1 IN
  /\ call = "mint" /\ t \in Tokens
  /\ issued' = t /\ alive' = alive \cup {t}
  /\ kept' = Stored(kept, keyring, t) /\ known' = TRUE
  /\ left' = LeftBehind
  /\ StartSession(t, "roster")
  /\ login' = "closed"
  /\ UNCHANGED <<keyring, running, told, chances>>

\* networks(): the socket opens only now
RosterHere ==
  /\ call = "roster" /\ token \in alive
  /\ call' = "none" /\ socket' = TRUE /\ task' = "trying"
  /\ UNCHANGED <<disk, tokenServer, openWindows, token, conn, history, chances>>

RosterRefused ==
  /\ call = "roster" /\ token \notin alive
  /\ call' = "none"
  /\ Forget
  /\ conn' = "failed"
  /\ UNCHANGED <<known, keyring, tokenServer, openWindows, token, task, chances>>

\* Any other error ends the attempt for good: nothing tries again.
RosterFails ==
  /\ call = "roster"
  /\ call' = "none" /\ conn' = "failed"
  /\ Chance
  /\ UNCHANGED <<disk, tokenServer, openWindows, token, socket, task, history>>

TaskConnects ==
  /\ task = "trying" /\ token \in alive
  /\ task' = "up" /\ conn' = "connected"
  /\ UNCHANGED <<disk, tokenServer, openWindows, token, socket, call, history, chances>>

\* The upgrade answers 401: the task ends, Failed names the expired session.
TaskRefused ==
  /\ task = "trying" /\ token \notin alive
  /\ task' = "none" /\ conn' = "failed"
  /\ Forget
  /\ UNCHANGED <<known, keyring, tokenServer, openWindows, token, call, chances>>

TaskLost ==
  /\ task = "up"
  /\ task' = "trying" /\ conn' = "disconnected"
  /\ Chance
  /\ UNCHANGED <<disk, tokenServer, openWindows, token, socket, call, history>>

CloseLogin ==
  /\ login # "closed" /\ chats > 0
  /\ login' = "closed"
  /\ UNCHANGED <<disk, tokenServer, running, chats, link, call, history, chances>>

\* The last window closed, or the application quit, or it crashed.
Exit ==
  /\ running
  /\ running' = FALSE /\ login' = "closed" /\ chats' = 0
  /\ token' = 0 /\ socket' = FALSE /\ task' = "none" /\ conn' = "disconnected" /\ call' = "none"
  /\ UNCHANGED <<disk, tokenServer, history, chances>>

--------------------------------------------------------------------------------
(* The world *)

\* The server gives a session up: expired, or signed out on another device.
Revoke(t) ==
  /\ t \in alive
  /\ alive' = alive \ {t}
  /\ Chance
  /\ UNCHANGED <<disk, issued, openWindows, link, call, history>>

KeyringFlips ==
  /\ keyring' = ~keyring
  /\ Chance
  /\ UNCHANGED <<kept, known, tokenServer, openWindows, link, call, history>>

--------------------------------------------------------------------------------
\* Never installed, or used under its old name with or without a keyring
SessionInit ==
  /\ kept \in {[p \in Places |-> IF p = "oldRing" THEN a ELSE IF p = "oldFile" THEN b ELSE 0] :
                 a \in {0, 1}, b \in {0, 2}}
  /\ known = (kept["oldRing"] + kept["oldFile"] # 0) /\ keyring \in BOOLEAN
  /\ issued = 2 /\ alive \in SUBSET {1, 2}
  /\ running = FALSE /\ login = "closed" /\ chats = 0
  /\ token = 0 /\ socket = FALSE /\ task = "none" /\ conn = "disconnected" /\ call = "none"
  /\ told = {} /\ left = {} /\ chances = 0

SessionNext ==
  \/ Launch \/ LaunchAgain \/ Attempt \/ MintFails \/ Minted \/ CloseLogin \/ Exit
  \/ RosterHere \/ RosterRefused \/ RosterFails
  \/ TaskConnects \/ TaskRefused \/ TaskLost
  \/ KeyringFlips \/ \E t \in Tokens : Revoke(t)

--------------------------------------------------------------------------------
(* Properties *)

\* Types; a session has an account, a socket task a session, and a handle.
SessionTypeOK ==
  /\ kept \in [Places -> {0} \cup Tokens] /\ known \in BOOLEAN /\ keyring \in BOOLEAN
  /\ issued \in {0} \cup Tokens /\ alive \subseteq Tokens
  /\ running \in BOOLEAN /\ login \in {"closed", "open", "busy"} /\ chats \in 0..(MaxChats + 1)
  /\ token \in {0} \cup Tokens /\ socket \in BOOLEAN
  /\ task \in {"none", "trying", "up"}
  /\ conn \in {"disconnected", "connecting", "connected", "failed"}
  /\ call \in {"none", "mint", "roster"}
  /\ told \subseteq Tokens /\ left \subseteq Tokens
  /\ chances \in 0..MaxChances
  /\ token # 0 => known
  /\ task # "none" => socket /\ token # 0

\* A token that the server has refused at the start of a session or on the
\* socket is not what the next launch resumes with: it goes to login (app.rs:536).
\* Not so for a token kept under the old name, or one that the keyring kept
\* because it did not answer.
DeadIsForgotten == SessionTypeOK /\ Load(kept, keyring) \notin told \ ({1, 2} \cup left)

\* Whoever has logged in resumes with the token of that login, wherever it was
\* stored and whatever was there before, with the same two exceptions: when one
\* of those is refused, the newer token is forgotten with it.
ResumesNewest ==
  issued > 2 /\ told \cap ({1, 2, issued} \cup left) = {} =>
    LET t == Load(kept, keyring) IN
    \/ t \in {issued, 1, 2} \cup left
    \/ kept["ring"] = issued /\ ~keyring
================================================================================
