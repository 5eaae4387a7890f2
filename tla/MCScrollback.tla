----------------------------- MODULE MCScrollback -----------------------------
(***************************************************************************)
(* Scrollback on a small instance.  The limits keep the order they have in  *)
(* the code (150 = page <= 250 = merge < 500 = ring), with pages that may   *)
(* exceed the merge limit, as pages counted in renderable rows do.          *)
(***************************************************************************)
EXTENDS Scrollback

===============================================================================
