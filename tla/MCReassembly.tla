---------------------------- MODULE MCReassembly ----------------------------
(***************************************************************************)
(* MctpReassembly with two contexts and three keys, so that contexts run   *)
(* out: two remote endpoints, the bus EID (which can change) and the null  *)
(* EID, payloads of 0 to 2 bytes.  The first key has every sequence number *)
(* and flag, the others what it takes to start, go on and end.             *)
(***************************************************************************)
EXTENDS MctpReassembly

Pkt(keys, seqs, flags, sizes, tos) ==
  {[src |-> k[1], dest |-> k[2], tag |-> k[3], to |-> t, seq |-> q,
    som |-> f[1], eom |-> f[2], size |-> z] :
     k \in keys, q \in seqs, f \in flags, z \in sizes, t \in tos}

Som == <<TRUE, FALSE>>
Eom == <<FALSE, TRUE>>
Mid == <<FALSE, FALSE>>
One == <<TRUE, TRUE>>

MCPackets ==
  \* packets in and out of sequence, in each role; an empty payload ends a message
  Pkt({<<9, 8, 0>>}, 0..3, {Som, Mid, Eom}, {5, 6}, {TRUE})
    \cup Pkt({<<10, 8, 0>>}, {0, 1}, {Som, Mid, Eom}, {5, 6}, {TRUE})
    \cup Pkt({<<9, 0, 0>>}, {0, 1}, {Som, Eom}, {5}, {TRUE})
    \cup Pkt({<<9, 8, 0>>}, 0..3, {Eom}, {4, 5}, {FALSE})
    \cup Pkt({<<9, 8, 0>>}, {0}, {One}, {4, 7}, {TRUE})
  \* and what the first checks drop: a runt, a broadcast source, another EID
    \cup Pkt({<<9, 8, 0>>}, {0}, {Som, One}, {3}, {TRUE})
    \cup Pkt({<<255, 8, 0>>, <<9, 20, 0>>}, {0}, {Som, One}, {5}, {TRUE})
=============================================================================
