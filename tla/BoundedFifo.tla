----------------------------- MODULE BoundedFifo -----------------------------
(***************************************************************************)
(* What one direction of the MMBI driver promises: a byte queue of bounded *)
(* capacity.  A write appends as much of its data as there is room for and *)
(* reports how much that was, busy if there was none; a read takes up to   *)
(* the length asked for from the front.  Nothing is lost, duplicated,      *)
(* reordered or made up.                                                   *)
(***************************************************************************)
EXTENDS Naturals, Sequences

CONSTANTS
  Capacity,
  Writes,      \* the data that may be written: sequences
  Lengths      \* the lengths that may be asked for

VARIABLES
  queue,
  result,      \* how the last write ended, and how many bytes it accepted
  data         \* what the last read returned

vars == <<queue, result, data>>

Least(a, b) == IF a <= b THEN a ELSE b

Write(d) ==
  LET n == Least(Len(d), Capacity - Len(queue))
  IN /\ queue' = queue \o SubSeq(d, 1, n)
     /\ result' = [bytes |-> n, status |-> IF Len(queue) = Capacity /\ d # <<>>
                                              THEN "DEVICE_BUSY" ELSE "SUCCESS"]
     /\ UNCHANGED data

Read(length) ==
  LET n == Least(length, Len(queue))
  IN /\ data' = SubSeq(queue, 1, n)
     /\ queue' = SubSeq(queue, n + 1, Len(queue))
     /\ UNCHANGED result

Init == queue = <<>> /\ result = [bytes |-> 0, status |-> "SUCCESS"] /\ data = <<>>

Next ==
  \/ \E d \in Writes : Write(d)
  \/ \E length \in Lengths : Read(length)

Spec == Init /\ [][Next]_vars
=============================================================================
