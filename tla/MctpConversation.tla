-------------------------- MODULE MctpConversation --------------------------
(***************************************************************************)
(* Two endpoints that talk: one sends control requests with tags of its    *)
(* table (MctpTags), the other has the control handler (MctpControl) and   *)
(* an application that also sends messages of its own.  The link between   *)
(* them keeps the order of each direction, takes any time and may lose a   *)
(* message; a bus that is busy loses it too.                               *)
(*                                                                         *)
(* id and at (the time of a request), owner, lastSet and mismatched are    *)
(* history.  Messages are whole: packets are in MctpTransfer.              *)
(***************************************************************************)
EXTENDS Naturals, Sequences

CONSTANTS
  NumSlots, NumTags, TagTimeout, MaxTime,   \* see MctpTags
  Types, MaxTypes, InitialEid,              \* see MctpControl
  RequesterEid,
  Requests,        \* for each request in turn, the destinations and contents it may have
  MaxCalls         \* bound on the calls of the responder's application

\* What a request asks for: see MctpControl.
Contents ==
  [dest : Nat, len : Nat, type : Nat, rq : BOOLEAN, dgram : BOOLEAN,
   cmd : Nat, op : Nat, arg : Nat]

ASSUME ConversationAssumption ==
  /\ NumSlots \in Nat /\ NumTags \in Nat \ {0} /\ TagTimeout \in Nat /\ MaxTime \in Nat
  /\ MaxCalls \in Nat
  /\ MaxTypes \in Nat \ {0}
  /\ RequesterEid \in 8..254 /\ InitialEid \in 8..254
  /\ Requests \in Seq(SUBSET Contents)

VARIABLES
  req_tags, tag_round_robin, now, req_eid, last_tag,  \* the requester, see MctpTags
  eid, msg_types, supported, reply,                   \* the responder, see MctpControl
  requests,      \* the messages on their way to the responder
  responses,     \* the messages on their way back
  requested,     \* number of requests so far
  calls,         \* number of calls of the responder's application so far
  owner,         \* slot of the tag table -> the request it was given to
  lastSet,       \* the last request that changed the responder's EID
  mismatched     \* whether a message has released the tag of another request

tagVars == <<req_tags, tag_round_robin, now, req_eid, last_tag>>
controlVars == <<eid, msg_types, supported>>
vars == <<tagVars, controlVars, reply, requests, responses, requested, calls,
          owner, lastSet, mismatched>>

AllRequests == UNION {Requests[k] : k \in DOMAIN Requests}

Req == INSTANCE MctpTags
         WITH bus_eid <- req_eid, Locals <- {RequesterEid},
              Remotes <- {q.dest : q \in AllRequests}

Ctl == INSTANCE MctpControl WITH Inputs <- {}

-----------------------------------------------------------------------------
Message(q, tag) ==
  [dest |-> q.dest, len |-> q.len, type |-> q.type, rq |-> q.rq, dgram |-> q.dgram,
   cmd |-> q.cmd, op |-> q.op, arg |-> q.arg, id |-> requested + 1, at |-> now,
   src |-> req_eid, to |-> TRUE, tag |-> tag, inst |-> (requested + 1) % 32]

\* mctp_message_tx_request: a tag is allocated, and the message is sent or, by a
\* bus that is busy, freed.  Without a tag nothing changes.
mctp_message_tx_request(q) ==
  /\ requested < Len(Requests) /\ q \in Requests[requested + 1]
  /\ \E i \in Req!TagSlots, tag \in Req!Tags :
       /\ Req!mctp_alloc_tag(i, tag, q.dest)
       /\ owner' = [owner EXCEPT ![i] = requested + 1]
       /\ requests' \in {requests, Append(requests, Message(q, tag))}
  /\ requested' = requested + 1
  /\ reply' = <<>>
  /\ UNCHANGED <<now, req_eid, controlVars, responses, calls, lastSet, mismatched>>

\* mctp_rx in the responder.
Serve ==
  /\ requests # <<>>
  /\ LET m == Head(requests) IN
     /\ Ctl!mctp_rx(m)
     /\ lastSet' = IF eid' # eid THEN m.id ELSE lastSet
  /\ requests' = Tail(requests)
  /\ responses' = responses \o reply'
  /\ UNCHANGED <<tagVars, requested, calls, owner, mismatched>>

NoRequest == [id |-> 0, at |-> 0, dest |-> 0]

\* mctp_mmbi_send in the responder: tag 0, and not the tag owner.
PlainMessage ==
  [src |-> eid, dest |-> RequesterEid, tag |-> 0, inst |-> 0, cmd |-> 0, cc |-> "NONE",
   eid |-> 0, types |-> <<>>, req |-> NoRequest]

mctp_mmbi_send ==
  /\ calls < MaxCalls
  /\ calls' = calls + 1
  /\ responses' = Append(responses, PlainMessage)
  /\ reply' = <<>>
  /\ UNCHANGED <<tagVars, controlVars, requests, requested, owner, lastSet,
                 mismatched>>

ChangeTypes ==
  /\ calls < MaxCalls
  /\ calls' = calls + 1
  /\ \E t \in Types : Ctl!mctp_control_add_type(t) \/ Ctl!mctp_control_remove_type(t)
  /\ UNCHANGED <<tagVars, requests, responses, requested, owner, lastSet, mismatched>>

\* The step clears slot i.
Clears(i) == req_tags[i] # Req!SpareTag /\ req_tags'[i] = Req!SpareTag

\* mctp_rx in the requester: the tag is released, and the application gets the
\* message.
Receive ==
  /\ responses # <<>>
  /\ LET a == Head(responses) IN
     /\ Req!RxResponse(a.dest, a.src, a.tag)
     /\ mismatched' = (mismatched \/ \E i \in Req!TagSlots :
                         /\ Req!Waiting(i) /\ Clears(i) /\ owner[i] # a.req.id)
  /\ responses' = Tail(responses)
  /\ reply' = <<>>
  /\ UNCHANGED <<controlVars, requests, requested, calls, owner, lastSet>>

Lose ==
  /\ \/ requests # <<>> /\ requests' = Tail(requests) /\ UNCHANGED responses
     \/ responses # <<>> /\ responses' = Tail(responses) /\ UNCHANGED requests
  /\ reply' = <<>>
  /\ UNCHANGED <<tagVars, controlVars, requested, calls, owner,
                 lastSet, mismatched>>

Tick ==
  /\ Req!Tick
  /\ reply' = <<>>
  /\ UNCHANGED <<controlVars, requests, responses, requested, calls,
                 owner, lastSet, mismatched>>

Init ==
  /\ Req!TagsInit /\ Ctl!Init
  /\ requests = <<>> /\ responses = <<>>
  /\ requested = 0 /\ calls = 0 /\ lastSet = 0
  /\ owner = [i \in Req!TagSlots |-> 0]
  /\ mismatched = FALSE

Next ==
  \/ \E q \in AllRequests : mctp_message_tx_request(q)
  \/ Serve \/ mctp_mmbi_send \/ ChangeTypes \/ Receive \/ Lose \/ Tick

Spec == Init /\ [][Next]_vars

-----------------------------------------------------------------------------
\* mctp_control_add_type and mctp_control_remove_type keep the list right while
\* requests are served (see MctpControl).
TypesAreSupported == Ctl!TypesAreSupported

\* The message comes from another EID than the request went to: the answer to a
\* request to the null or broadcast EID, the answer to a Set Endpoint ID (it
\* already comes from the new EID), or no answer at all.
Foreign(a) == a.src # a.req.dest

\* The message comes after the timeout of its request.
Late(a) == now > a.req.at + TagTimeout

\* mctp_dealloc_tag knows no requests, only addresses and tags.  The first time
\* that a message releases the tag of a request that still waits and that it does
\* not answer, it is late or it is foreign: an answer in time from the EID that was
\* asked never does.
ReleasedByOwnAnswer ==
  [][\A i \in Req!TagSlots :
       Req!Waiting(i) /\ Clears(i) /\ ~mismatched =>
         LET a == Head(responses)
         IN  owner[i] = a.req.id \/ Late(a) \/ Foreign(a)]_vars

\* An answer in time from the EID that was asked releases the tag of its request,
\* unless an expired entry for the same endpoints and tag comes first in the table.
AnswerReleasesTag ==
  [][Receive =>
       LET a == Head(responses) IN
       \A i \in Req!TagSlots :
         owner[i] = a.req.id /\ Req!Waiting(i) /\ ~Foreign(a) =>
           \/ Clears(i)
           \/ \E j \in Req!TagSlots :
                j < i /\ ~Req!Live(j)
                      /\ Req!Matches(req_tags[j], a.dest, a.src, a.tag)]_vars

\* What a response on its way says of the responder is so: the EID it reports is
\* the one it comes from, and the responder's, unless a later request has changed
\* it; and a request that was refused has changed nothing.  (An ERROR says neither:
\* Set Endpoint ID sets the EID before it looks for memory for its response.)
AnswersAreTrue ==
  \A k \in DOMAIN responses :
    LET a == responses[k] IN
    /\ a.eid # 0 => a.src = a.eid /\ (a.eid = eid \/ lastSet > a.req.id)
    /\ a.cc \notin {"SUCCESS", "ERROR"} => lastSet # a.req.id \/ a.req.id = 0
    /\ a.cc = "SUCCESS" /\ a.cmd = Ctl!SET_ENDPOINT_ID => a.eid = a.req.arg

=============================================================================
