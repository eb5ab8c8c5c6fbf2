------------------------------- MODULE MCPipe -------------------------------
(***************************************************************************)
(* MmbiPipe with messages from both applications, over a pipe to the BMC   *)
(* that holds less than a message.  The pipe to the host holds either all  *)
(* the BMC ever writes, so that the BMC never waits, or as little.         *)
(***************************************************************************)
EXTENDS MmbiPipe

BothSend == [e \in Ends |-> 2]
RoomForTheBmc == [e \in Ends |-> IF e = "host" THEN Packets * MaxMessages ELSE 1]
LittleRoom == [e \in Ends |-> 1]
=============================================================================
