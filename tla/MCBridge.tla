------------------------------ MODULE MCBridge ------------------------------
(***************************************************************************)
(* MctpBridge between a bus with packets of four bytes and one with        *)
(* packets of two.  Bus 1 brings an empty message, a full packet (two on   *)
(* the other bus), a message of two packets and a start packet that is too *)
(* long; bus 2 a packet, one from the broadcast EID, and a message that    *)
(* starts over.  Messages of several packets go to one EID.                *)
(***************************************************************************)
EXTENDS MctpBridge

P(id, src, len, seq, som, eom) ==
  [id |-> id, src |-> src, dest |-> 30 - src, to |-> TRUE, tag |-> 0, seq |-> seq,
   som |-> som, eom |-> eom, size |-> len + 4]

Whole(id, src, len, seq) == P(id, src, len, seq, TRUE, TRUE)

Part(id, src, len, seq, som, eom) == [P(id, src, len, seq, som, eom) EXCEPT !.dest = 255]

MCInbound ==
  <<<<Whole(1, 10, 0, 0), Whole(2, 10, 4, 1), Part(3, 10, 2, 2, TRUE, FALSE),
      Part(3, 10, 1, 3, FALSE, TRUE), Part(4, 10, 4, 0, TRUE, FALSE)>>,
    <<Whole(5, 20, 2, 0), [Whole(6, 20, 1, 1) EXCEPT !.src = 255],
      Part(7, 20, 1, 2, TRUE, FALSE), Part(7, 20, 1, 3, FALSE, FALSE),
      Part(8, 20, 1, 0, TRUE, FALSE)>>>>

MCPktPayload == <<4, 2>>
=============================================================================
