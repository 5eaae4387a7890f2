--------------------------------- MODULE MCScreen ---------------------------------
(***************************************************************************)
(* Two people and a spare nick, lines of three words, two masks, two networks. *)
(***************************************************************************)
EXTENDS Screen
================================================================================
