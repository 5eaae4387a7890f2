--------------------------------- MODULE MCVoice ---------------------------------
(***************************************************************************)
(* One other participant, two calls of this user, two connections.            *)
(***************************************************************************)
EXTENDS Voice
================================================================================
