----------------------------- MODULE MCConnection -----------------------------
(***************************************************************************)
(* Connection on a small instance: three delays (1, 2, 3), two faults, so   *)
(* up to three sessions, and one verb of the user's own.                    *)
(***************************************************************************)
EXTENDS Connection

===============================================================================
