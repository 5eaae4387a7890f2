------------------------------- MODULE MCWindows -------------------------------
(***************************************************************************)
(* The main window and one popout, a channel and a conversation       *)
(* whose other user changes nick.                                             *)
(***************************************************************************)
EXTENDS Windows

================================================================================
