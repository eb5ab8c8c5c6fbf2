--------------------------- MODULE MCConversation ---------------------------
(***************************************************************************)
(* MctpConversation with a responder that begins as EID 9 and may become   *)
(* EID 10, and requests of every kind the handler tells apart.             *)
(***************************************************************************)
EXTENDS MctpConversation

Control(dest, len, cmd, op, arg) ==
  [dest |-> dest, len |-> len, type |-> 0, rq |-> TRUE, dgram |-> FALSE,
   cmd |-> cmd, op |-> op, arg |-> arg]

SetEid(dest, e) == Control(dest, 5, 1, 0, e)
GetEid(dest) == Control(dest, 3, 2, 0, 0)

About(dest) == {SetEid(dest, 19 - dest), GetEid(dest)}

Various ==
  {SetEid(0, 10), SetEid(9, 255),
   Control(9, 5, 1, 2, 10),           \* an operation that is not supported
   Control(9, 4, 1, 0, 10), Control(9, 4, 2, 0, 0),    \* wrong lengths
   Control(9, 4, 4, 0, 0), Control(9, 4, 4, 0, 1), Control(9, 3, 4, 0, 0),
   Control(9, 3, 5, 0, 0), Control(9, 4, 5, 0, 0),
   Control(9, 3, 3, 0, 0),            \* a command without a handler
   Control(9, 3, 240, 0, 0),          \* a transport command
   [GetEid(9) EXCEPT !.dgram = TRUE]}

MCRequests ==
  <<About(9) \cup About(10) \cup Various,
    About(9) \cup About(10),
    {GetEid(9)}>>
=============================================================================
