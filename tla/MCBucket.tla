------------------------------- MODULE MCBucket -------------------------------
(***************************************************************************)
(* Bucket on a small instance: a bucket of two verbs and a bit, and time    *)
(* enough to empty it several times over.                                   *)
(***************************************************************************)
EXTENDS Bucket

===============================================================================
