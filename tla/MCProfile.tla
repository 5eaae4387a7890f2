-------------------------------- MODULE MCProfile --------------------------------
(***************************************************************************)
(* Two settings, one network that may exist already and one REST call for     *)
(* each of two things that happen at once; two tokens from before, two that    *)
(* logins can be given, and two chat windows.                                 *)
(***************************************************************************)
EXTENDS Profile
================================================================================
