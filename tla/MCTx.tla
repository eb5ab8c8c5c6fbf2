-------------------------------- MODULE MCTx --------------------------------
(***************************************************************************)
(* MctpTx for packets of two bytes: a message of five packets, in which    *)
(* sequence numbers wrap, one of a single full packet, an empty one, and   *)
(* one with a wrong tag.                                                   *)
(***************************************************************************)
EXTENDS MctpTx

MCMistagged == {[id |-> 4, len |-> 1]}

MCMessages ==
  {[id |-> 1, len |-> 9], [id |-> 2, len |-> 2], [id |-> 3, len |-> 0]} \cup MCMistagged
=============================================================================
