--------------------------- MODULE MessageChannel ---------------------------
(***************************************************************************)
(* What a one-way MCTP link promises: messages are handed over whole, in   *)
(* the order they were accepted and at most once; a message may be lost.   *)
(***************************************************************************)
EXTENDS Naturals, Sequences

CONSTANT Messages

VARIABLES sent, delivered   \* sequences of messages

vars == <<sent, delivered>>

Send(m) == sent' = Append(sent, m) /\ UNCHANGED delivered

\* Position k of sent lies behind everything delivered so far.
Undelivered(k) ==
  \A i \in DOMAIN delivered, j \in DOMAIN sent : delivered[i] = sent[j] => j < k

Deliver(k) ==
  /\ Undelivered(k)
  /\ delivered' = Append(delivered, sent[k])
  /\ UNCHANGED sent

Init == sent = <<>> /\ delivered = <<>>

Next ==
  \/ \E m \in Messages : Send(m)
  \/ \E k \in DOMAIN sent : Deliver(k)

Spec == Init /\ [][Next]_vars
=============================================================================
