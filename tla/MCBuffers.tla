------------------------------- MODULE MCBuffers -------------------------------
(***************************************************************************)
(* Buffers on a small instance: one channel, two conversations with users, *)
(* ids of the system buffer above those of the network.                    *)
(***************************************************************************)
EXTENDS Buffers

===============================================================================
