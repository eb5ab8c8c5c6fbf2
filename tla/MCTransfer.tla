----------------------------- MODULE MCTransfer -----------------------------
(***************************************************************************)
(* MctpTransfer with four messages: two of three packets with the same     *)
(* tag, and two of one packet that can come between them and advance the   *)
(* sequence number.                                                        *)
(***************************************************************************)
EXTENDS MctpTransfer

Msg(id, len, tag, to) == [id |-> id, len |-> len, tag |-> tag, to |-> to]

MCMessages ==
  {Msg(1, 3, 0, TRUE), Msg(2, 3, 0, FALSE), Msg(3, 1, 1, TRUE), Msg(4, 1, 1, TRUE)}
=============================================================================
