----------------------------- MODULE MctpControl -----------------------------
(***************************************************************************)
(* The control message handler of an endpoint (src/control.c), as mctp_rx  *)
(* (src/core.c) calls it, and the list of message types it reports.        *)
(*                                                                         *)
(* A message is a record with what the code reads of its header (src,      *)
(* dest, to, tag), its length, and, as far as the length goes, its first   *)
(* bytes: type, the request and datagram bits rq and dgram, inst, cmd, op  *)
(* and arg (the EID of a Set Endpoint ID, the message type of a Get        *)
(* Version Support).  A message for somebody else changes nothing.         *)
(* supported and the field req of a response, the request it answers, are  *)
(* history.                                                                *)
(***************************************************************************)
EXTENDS Naturals, Sequences

CONSTANTS
  Inputs,        \* the messages the endpoint may receive
  Types,         \* the message types an application may add and remove
  MaxTypes,      \* MCTP_CONTROL_MAX_TYPES, 10
  InitialEid     \* the EID mctp_register_bus was given

VARIABLES
  eid,           \* bus->eid
  msg_types,     \* the list of message types
  supported,     \* history: the types added and not removed since
  reply          \* the response this step gave to the bus, <<>> if none

vars == <<eid, msg_types, supported, reply>>

ControlType == 0       \* MCTP_CTRL_HDR_MSG_TYPE
HdrLen == 3            \* sizeof(struct mctp_ctrl_msg_hdr)
SetEidLen == 5
GetVersionLen == 4

SET_ENDPOINT_ID == 1
GET_ENDPOINT_ID == 2
GET_VERSION_SUPPORT == 4
GET_MESSAGE_TYPE_SUPPORT == 5
Handled == {SET_ENDPOINT_ID, GET_ENDPOINT_ID, GET_VERSION_SUPPORT,
            GET_MESSAGE_TYPE_SUPPORT}

mctp_ctrl_cmd_is_transport(m) == m.cmd \in 240..255

-----------------------------------------------------------------------------
\* (Faulty variant for mutation checks: the tag of the request is not kept.)
UntaggedResponse(m, cc, e, list) ==
  [src |-> eid', dest |-> m.src, tag |-> 0, inst |-> m.inst, cmd |-> m.cmd,
   cc |-> cc, eid |-> e, types |-> list, req |-> m]

\* The response as mctp_message_tx_alloced addresses it: from the EID the bus has
\* by then, with the tag of the request and without the tag owner bit.
Response(m, cc, e, list) ==
  [src |-> eid', dest |-> m.src, tag |-> m.tag, inst |-> m.inst, cmd |-> m.cmd,
   cc |-> cc, eid |-> e, types |-> list, req |-> m]

\* No response leaves when there is no memory for it, or when the bus is still
\* busy with another message and frees it.
reply_error(m, cc) == reply' \in {<<>>, <<Response(m, cc, 0, <<>>)>>}

\* The end of a command: its response is sent, or the bus frees it; without
\* memory for it an error response is tried.
Answer(m, e, list) ==
  \/ reply' = <<Response(m, "SUCCESS", e, list)>>
  \/ reply' = <<>>
  \/ reply_error(m, "ERROR")

ValidOp(op) == op % 4 \in {0, 1}         \* SET or FORCE
mctp_bus_set_eid_ok(e) == e >= 8 /\ e # 255

\* (Faulty variant: the EID is set before the operation is
\* looked at.)
SetEidFirst(m) ==
  \/ /\ m.len # SetEidLen
     /\ UNCHANGED eid
     /\ reply_error(m, "INVALID_LENGTH")
  \/ /\ m.len = SetEidLen
     /\ eid' = IF mctp_bus_set_eid_ok(m.arg) THEN m.arg ELSE eid
     /\ IF ValidOp(m.op) /\ mctp_bus_set_eid_ok(m.arg)
          THEN Answer(m, m.arg, <<>>)
          ELSE reply_error(m, "INVALID_DATA")

mctp_ctrl_set_endpoint_id(m) ==
  \/ /\ m.len # SetEidLen
     /\ UNCHANGED eid
     /\ reply_error(m, "INVALID_LENGTH")
  \/ /\ m.len = SetEidLen
     /\ ~(ValidOp(m.op) /\ mctp_bus_set_eid_ok(m.arg))
     /\ UNCHANGED eid
     /\ reply_error(m, "INVALID_DATA")
  \/ /\ m.len = SetEidLen
     /\ ValidOp(m.op) /\ mctp_bus_set_eid_ok(m.arg)
     /\ eid' = m.arg
     /\ Answer(m, m.arg, <<>>)

mctp_ctrl_get_endpoint_id(m) ==
  /\ UNCHANGED eid
  /\ IF m.len # HdrLen THEN reply_error(m, "INVALID_LENGTH")
                       ELSE Answer(m, eid, <<>>)

\* Versions are known for the base protocol (0xff) and control messages only.
mctp_ctrl_get_version(m) ==
  /\ UNCHANGED eid
  /\ \/ m.len # GetVersionLen /\ reply_error(m, "INVALID_LENGTH")
     \/ /\ m.len = GetVersionLen /\ m.arg \notin {0, 255}
        /\ reply_error(m, "VERSIONS_NOT_SUPPORTED")
     \/ m.len = GetVersionLen /\ m.arg \in {0, 255} /\ Answer(m, 0, <<>>)

mctp_ctrl_get_types(m) ==
  /\ UNCHANGED eid
  /\ IF m.len # HdrLen THEN reply_error(m, "INVALID_LENGTH")
                       ELSE Answer(m, 0, msg_types)

\* A control request with the tag owner bit is answered; a datagram is dropped.
mctp_control_handler(m) ==
  \/ m.dgram /\ reply' = <<>> /\ UNCHANGED eid
  \/ /\ ~m.dgram
     /\ \/ m.cmd = SET_ENDPOINT_ID /\ mctp_ctrl_set_endpoint_id(m)
        \/ m.cmd = GET_ENDPOINT_ID /\ mctp_ctrl_get_endpoint_id(m)
        \/ m.cmd = GET_VERSION_SUPPORT /\ mctp_ctrl_get_version(m)
        \/ m.cmd = GET_MESSAGE_TYPE_SUPPORT /\ mctp_ctrl_get_types(m)
        \/ /\ m.cmd \notin Handled
           /\ UNCHANGED eid
           /\ reply_error(m, "UNSUPPORTED_CMD")

\* mctp_rx gives the message to the handler; else it goes to the binding's
\* control_rx or the application's message_rx, and the core's state stays.
ToHandler(m) ==
  /\ m.len >= HdrLen /\ m.type = ControlType /\ m.rq
  /\ ~mctp_ctrl_cmd_is_transport(m)
  /\ m.to

mctp_rx(m) ==
  /\ \/ m.dest \in {eid, 0, 255} /\ ToHandler(m) /\ mctp_control_handler(m)
     \/ /\ m.dest \notin {eid, 0, 255} \/ ~ToHandler(m)
        /\ reply' = <<>>
        /\ UNCHANGED eid
  /\ UNCHANGED <<msg_types, supported>>

-----------------------------------------------------------------------------
\* (Faulty variant: the type is not looked for first.)
AddAgain(t) ==
  /\ \/ Len(msg_types) < MaxTypes
        /\ msg_types' = Append(msg_types, t) /\ supported' = supported \cup {t}
     \/ Len(msg_types) = MaxTypes /\ UNCHANGED <<msg_types, supported>>
  /\ reply' = <<>>
  /\ UNCHANGED eid

\* A type that is listed is not listed again; a full list refuses it (-ENOSPC).
mctp_control_add_type(t) ==
  /\ \/ /\ \A i \in 1..Len(msg_types) : msg_types[i] # t
        /\ Len(msg_types) < MaxTypes
        /\ msg_types' = Append(msg_types, t)
        /\ supported' = supported \cup {t}
     \/ /\ \/ \E i \in 1..Len(msg_types) : msg_types[i] = t
           \/ Len(msg_types) = MaxTypes
        /\ UNCHANGED <<msg_types, supported>>
  /\ reply' = <<>>
  /\ UNCHANGED eid

\* memmove of the entries behind i, and one entry less.
WithoutEntry(list, i) ==
  [k \in 1..(Len(list) - 1) |-> IF k < i THEN list[k] ELSE list[k + 1]]

\* The loop removes the entry it finds.  It goes on behind it, and finds no other,
\* since no type is listed twice (TypesAreSupported).
mctp_control_remove_type(t) ==
  /\ \/ \E i \in 1..Len(msg_types) : /\ msg_types[i] = t
                                     /\ msg_types' = WithoutEntry(msg_types, i)
     \/ /\ \A i \in 1..Len(msg_types) : msg_types[i] # t
        /\ UNCHANGED msg_types
  /\ supported' = supported \ {t}
  /\ reply' = <<>>
  /\ UNCHANGED eid

\* mctp_setup lists the control type.
Init ==
  /\ eid = InitialEid
  /\ msg_types = <<ControlType>>
  /\ supported = {ControlType}
  /\ reply = <<>>

Next ==
  \/ \E m \in Inputs : mctp_rx(m)
  \/ \E t \in Types : mctp_control_add_type(t) \/ mctp_control_remove_type(t)

Spec == Init /\ [][Next]_vars

-----------------------------------------------------------------------------
\* The list mctp_control_add_type and mctp_control_remove_type keep holds every
\* type that was added and not removed since, each once, within its array: what
\* Get Message Type Support copies from it is what the endpoint supports.
TypesAreSupported ==
  /\ Len(msg_types) <= MaxTypes
  /\ supported = {msg_types[i] : i \in 1..Len(msg_types)}
  /\ \A i, j \in 1..Len(msg_types) : msg_types[i] = msg_types[j] => i = j

=============================================================================
