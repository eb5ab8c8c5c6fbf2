------------------------------ MODULE MCDriver ------------------------------
(***************************************************************************)
(* MmbiDriver with rings of three bytes.  A write has no byte, two bytes   *)
(* or one byte more than a ring holds; a read asks for one byte or for     *)
(* more than there can be.  So writes and reads wrap, are cut short and    *)
(* find the ring full or empty.                                            *)
(***************************************************************************)
EXTENDS MmbiDriver

MCWrites == {<<>>, <<2, 1>>, <<2, 2, 1, 1>>}
=============================================================================
