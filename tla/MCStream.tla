------------------------------ MODULE MCStream ------------------------------
(***************************************************************************)
(* MmbiStream with seven packets of one to three bytes and a ring of four,  *)
(* so that a packet finds room for all, a part or none of it, and a read   *)
(* takes several packets, a part of one, or more than a packet may have.   *)
(***************************************************************************)
EXTENDS MmbiStream

MCSizes == <<3, 1, 2, 3, 3, 2, 1>>
=============================================================================
