---------------------------------- MODULE Profile ----------------------------------
(***************************************************************************)
(* The user's profile on the server: the session that reaches it, and the      *)
(* settings and networks kept there.  Settings and networks are used while a   *)
(* session lasts and are fetched anew by the next one, so a behaviour follows   *)
(* sessions, or what happens within one.                                      *)
(***************************************************************************)
EXTENDS Account, Session

VARIABLE within  \* bound: within a session, or from one to the next

profileVars == <<accountVars, sessionVars, within>>

Init ==
  /\ within \in BOOLEAN
  /\ AccountInit(within) /\ SessionInit
  /\ IF within THEN known = FALSE /\ keyring = FALSE /\ alive = {}
     ELSE srv = values /\ nets = {}

Next ==
  /\ UNCHANGED within
  /\ \/ within /\ AccountNext /\ UNCHANGED sessionVars
     \/ ~within /\ SessionNext /\ UNCHANGED accountVars

Spec ==
  /\ Init /\ [][Next]_profileVars
  /\ AccountFairness
================================================================================
