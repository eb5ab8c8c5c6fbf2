----------------------- MODULE MctpConversationProofs -----------------------
(***************************************************************************)
(* What MctpConversation promises, for every table of tags, every timeout  *)
(* and every series of requests.                                           *)
(*                                                                         *)
(* The properties that relate a response to the tag of its request need    *)
(* the whole way of a request: its id grows along the two queues (IdsOK),  *)
(* what a response says of the responder's EID (AnswerOK), and which slot  *)
(* of the table is its (OwnersOK).                                         *)
(***************************************************************************)
EXTENDS MctpConversation, TLAPS

\* The list of message types (see MctpControl).
ListInv ==
  /\ msg_types \in Seq(Types \cup {Ctl!ControlType})
  /\ Ctl!TypesAreSupported

Sent ==
  [dest : Nat, len : Nat, type : Nat, rq : BOOLEAN, dgram : BOOLEAN, cmd : Nat,
   op : Nat, arg : Nat, id : Nat \ {0}, at : Nat, src : {RequesterEid},
   to : BOOLEAN, tag : Req!Tags, inst : Nat]

Codes == {"NONE", "SUCCESS", "ERROR", "INVALID_LENGTH", "INVALID_DATA",
          "VERSIONS_NOT_SUPPORTED", "UNSUPPORTED_CMD"}

Replies ==
  [src : Nat \ {0}, dest : {RequesterEid}, tag : Nat, inst : Nat, cmd : Nat, cc : Codes,
   eid : Nat, types : Seq(Types \cup {Ctl!ControlType}), req : Sent \cup {NoRequest}]

SlotType == [local : {0, RequesterEid}, remote : Nat, tag : Req!Tags, expiry : Nat, at : Nat]

ConversationTypes ==
  /\ req_tags \in [Req!TagSlots -> SlotType]
  /\ now \in Nat /\ req_eid = RequesterEid
  /\ eid \in Nat \ {0}
  /\ requests \in Seq(Sent) /\ responses \in Seq(Replies)
  /\ requested \in Nat /\ lastSet \in Nat
  /\ owner \in [Req!TagSlots -> Nat] /\ \A i \in Req!TagSlots : owner[i] <= requested
  /\ mismatched \in BOOLEAN

\* The tags that wait for an answer: mctp_alloc_tag gives none of them twice.
TagsOK ==
  /\ \A i \in Req!TagSlots : req_tags[i].local # 0 =>
       req_tags[i].expiry = req_tags[i].at + TagTimeout
  /\ \A i, j \in Req!TagSlots :
       Req!Live(i) /\ Req!Live(j) /\ req_tags[i].remote = req_tags[j].remote
                   /\ req_tags[i].tag = req_tags[j].tag => i = j

\* Requests are served in the order they were made, and answered in that order.
IdsOK(rq, rs, last, n) ==
  /\ last <= n
  /\ \A i \in 1..Len(rq) : rq[i].id <= n /\ last < rq[i].id
  /\ \A i, j \in 1..Len(rq) : i < j => rq[i].id < rq[j].id
  /\ \A k \in 1..Len(rs) : /\ rs[k].req.id <= n
                           /\ \A i \in 1..Len(rq) : rs[k].req.id < rq[i].id
  /\ \A k, l \in 1..Len(rs) :
       k < l /\ rs[k].req.id # 0 /\ rs[l].req.id # 0 => rs[k].req.id < rs[l].req.id

\* What a message on its way to the requester says, with e the responder's EID.
AnswerOK(a, e, last) ==
  /\ a.req.id = 0 => a.req = NoRequest /\ a.cc = "NONE" /\ a.eid = 0
  /\ a.req.id # 0 => a.tag = a.req.tag
  /\ a.eid # 0 => a.src = a.eid /\ (a.eid = e \/ last > a.req.id)
  /\ a.cc \notin {"SUCCESS", "ERROR"} => last # a.req.id \/ a.req.id = 0
  /\ a.cc = "SUCCESS" /\ a.cmd = Ctl!SET_ENDPOINT_ID => a.eid = a.req.arg

Items(queue) == {queue[i] : i \in 1..Len(queue)}

\* The requests that are on their way, or whose answers are.
InFlight(rq, rs) == Items(rq) \cup {r \in {a.req : a \in Items(rs)} : r.id # 0}

\* Slot i holds the tag of some request: the one owner names.
Owns(i, r) == owner[i] = r.id /\ req_tags[i].local # 0

\* A slot that belongs to a request in flight has its addresses, tag and time; and
\* as long as no message released the tag of another request, a request in flight
\* has its slot until the timeout.
OwnersOK(F) ==
  /\ \A r \in F, i \in Req!TagSlots : Owns(i, r) =>
       req_tags[i].remote = r.dest /\ req_tags[i].tag = r.tag /\ req_tags[i].at = r.at
  /\ ~mismatched =>
       \A r \in F : now <= r.at + TagTimeout => \E i \in Req!TagSlots : Owns(i, r)

ConversationInv ==
  /\ ListInv /\ ConversationTypes /\ TagsOK
  /\ IdsOK(requests, responses, lastSet, requested)
  /\ \A a \in Items(responses) : AnswerOK(a, eid, lastSet)
  /\ OwnersOK(InFlight(requests, responses))

-----------------------------------------------------------------------------
\* The requester's EID is never 0, the local EID that mctp_alloc_tag and mctp_dealloc_tag
\* take for an unused slot.
LEMMA RequesterIsSet == RequesterEid # 0
  BY ConversationAssumption

\* What removing the entry i leaves: the other entries, in a list shorter by one.
LEMMA WithoutEntryFacts ==
  ASSUME NEW S, NEW list \in Seq(S), NEW i \in 1..Len(list)
  PROVE  /\ Ctl!WithoutEntry(list, i) \in Seq(S)
         /\ Len(Ctl!WithoutEntry(list, i)) = Len(list) - 1
         /\ \A k \in 1..(Len(list) - 1) :
              Ctl!WithoutEntry(list, i)[k] = IF k < i THEN list[k] ELSE list[k + 1]
BY DEF Ctl!WithoutEntry

\* A type that is appended was not in the list, and the list had room.
LEMMA AddPreserves ==
  ASSUME ListInv, NEW t \in Types, Ctl!mctp_control_add_type(t)
  PROVE  ListInv'
<1>1. CASE UNCHANGED <<msg_types, supported>>
  BY <1>1, Zenon DEF ListInv, Ctl!TypesAreSupported
<1>2. CASE /\ \A i \in 1..Len(msg_types) : msg_types[i] # t
           /\ Len(msg_types) < MaxTypes
           /\ msg_types' = Append(msg_types, t)
           /\ supported' = supported \cup {t}
  <2>1. PICK n : n = Len(msg_types)
    BY Zenon
  <2>2. /\ n \in Nat /\ msg_types' \in Seq(Types \cup {Ctl!ControlType})
        /\ Len(msg_types') = n + 1 /\ msg_types'[n + 1] = t
        /\ \A i \in 1..n : msg_types'[i] = msg_types[i] /\ msg_types[i] # t
    BY <1>2, <2>1 DEF ListInv
  <2>3. supported' = {msg_types'[i] : i \in 1..(n + 1)}
    BY <1>2, <2>1, <2>2 DEF ListInv, Ctl!TypesAreSupported
  <2>4. \A i, j \in 1..(n + 1) : msg_types'[i] = msg_types'[j] => i = j
    BY <2>1, <2>2 DEF ListInv, Ctl!TypesAreSupported
  <2> QED
    BY <1>2, <2>1, <2>2, <2>3, <2>4, ConversationAssumption DEF ListInv, Ctl!TypesAreSupported
<1> QED
  BY <1>1, <1>2, Zenon DEF Ctl!mctp_control_add_type

\* The entry that is removed was the only one of its type.
LEMMA RemovePreserves ==
  ASSUME ListInv, NEW t \in Types, Ctl!mctp_control_remove_type(t)
  PROVE  ListInv'
<1>0. supported' = supported \ {t}
  BY Zenon DEF Ctl!mctp_control_remove_type
<1>1. CASE /\ \A i \in 1..Len(msg_types) : msg_types[i] # t
           /\ UNCHANGED msg_types
  BY <1>0, <1>1, Zenon DEF ListInv, Ctl!TypesAreSupported
<1>2. ASSUME NEW i \in 1..Len(msg_types), msg_types[i] = t,
             msg_types' = Ctl!WithoutEntry(msg_types, i)
      PROVE  ListInv'
  <2>1. PICK n : n = Len(msg_types)
    BY Zenon
  <2>2. /\ n \in Nat /\ i \in 1..n /\ n <= MaxTypes
        /\ supported = {msg_types[k] : k \in 1..n}
        /\ \A j, k \in 1..n : msg_types[j] = msg_types[k] => j = k
    BY <1>2, <2>1 DEF ListInv, Ctl!TypesAreSupported
  <2>3. /\ msg_types' \in Seq(Types \cup {Ctl!ControlType}) /\ Len(msg_types') = n - 1
        /\ \A k \in 1..(n - 1) :
             msg_types'[k] = IF k < i THEN msg_types[k] ELSE msg_types[k + 1]
    BY <1>2, <2>1, WithoutEntryFacts, Zenon DEF ListInv
  <2>4. ASSUME NEW x \in supported \ {t}
        PROVE  x \in {msg_types'[k] : k \in 1..(n - 1)}
    <3>1. PICK k \in 1..n : x = msg_types[k] /\ k # i
      BY <1>2, <2>2, Zenon
    <3>2. CASE k < i
      <4>1. k \in 1..(n - 1)
        BY <2>2, <3>2
      <4>2. msg_types'[k] = x
        BY <2>3, <3>1, <3>2, <4>1, Zenon
      <4> QED
        BY <4>1, <4>2, Zenon
    <3>3. CASE k > i
      <4>1. k - 1 \in 1..(n - 1) /\ ~(k - 1 < i) /\ (k - 1) + 1 = k
        BY <2>2, <3>3
      <4>2. PICK j : j = k - 1
        BY Zenon
      <4>3. msg_types'[j] = x
        BY <2>3, <3>1, <4>1, <4>2, Zenon
      <4> QED
        BY <4>1, <4>2, <4>3, Zenon
    <3> QED
      BY <2>2, <3>1, <3>2, <3>3
  <2>5. ASSUME NEW k \in 1..(n - 1)
        PROVE  msg_types'[k] \in supported \ {t}
    BY <1>2, <2>2, <2>3
  <2>6. supported' = {msg_types'[k] : k \in 1..(n - 1)}
    BY <1>0, <2>4, <2>5, Zenon
  <2>7. ASSUME NEW j \in 1..(n - 1), NEW k \in 1..(n - 1),
               msg_types'[j] = msg_types'[k]
        PROVE  j = k
    <3>1. PICK a : a = (IF j < i THEN j ELSE j + 1)
      BY Zenon
    <3>2. PICK b : b = (IF k < i THEN k ELSE k + 1)
      BY Zenon
    <3>3. a \in 1..n /\ b \in 1..n
      BY <2>2, <3>1, <3>2
    <3>4. msg_types'[j] = msg_types[a] /\ msg_types'[k] = msg_types[b]
      BY <2>3, <3>1, <3>2, Zenon
    <3>5. a = b
      BY <2>2, <2>7, <3>3, <3>4, Zenon
    <3> QED
      BY <2>2, <3>1, <3>2, <3>5
  <2> QED
    BY <2>2, <2>3, <2>6, <2>7, ConversationAssumption DEF ListInv, Ctl!TypesAreSupported
<1> QED
  BY <1>1, <1>2, Zenon DEF Ctl!mctp_control_remove_type

-----------------------------------------------------------------------------
\* A queue without its first message.
LEMMA TailFacts ==
  ASSUME NEW S, NEW s \in Seq(S), s # <<>>
  PROVE  /\ Len(s) \in Nat \ {0} /\ Head(s) = s[1] /\ s[1] \in S
         /\ Tail(s) \in Seq(S) /\ Len(Tail(s)) = Len(s) - 1
         /\ \A i \in 1..(Len(s) - 1) : Tail(s)[i] = s[i + 1]
OBVIOUS

\* A queue with one more message.
LEMMA AppendFacts ==
  ASSUME NEW S, NEW s \in Seq(S), NEW x \in S
  PROVE  /\ Append(s, x) \in Seq(S) /\ Len(Append(s, x)) = Len(s) + 1
         /\ \A i \in 1..Len(s) : Append(s, x)[i] = s[i]
         /\ Append(s, x)[Len(s) + 1] = x
         /\ s \o <<x>> = Append(s, x)
OBVIOUS

\* What is known of the messages on their way to the responder.
LEMMA RequestTypes ==
  ASSUME NEW rq \in Seq(Sent)
  PROVE  \A i \in 1..Len(rq) : /\ rq[i] \in Sent /\ rq[i].id \in Nat \ {0}
                               /\ rq[i].at \in Nat /\ rq[i].dest \in Nat
<1> SUFFICES ASSUME NEW i \in 1..Len(rq)
             PROVE  /\ rq[i] \in Sent /\ rq[i].id \in Nat \ {0}
                    /\ rq[i].at \in Nat /\ rq[i].dest \in Nat
  BY Zenon
<1>1. rq[i] \in Sent
  OBVIOUS
<1> QED
  BY <1>1, Zenon DEF Sent

\* What is known of the messages on their way back.
LEMMA ReplyTypes ==
  ASSUME NEW rs \in Seq(Replies)
  PROVE  \A k \in 1..Len(rs) : /\ rs[k] \in Replies /\ rs[k].req \in Sent \cup {NoRequest}
                               /\ rs[k].req.id \in Nat /\ rs[k].req.at \in Nat
<1> SUFFICES ASSUME NEW k \in 1..Len(rs)
             PROVE  /\ rs[k] \in Replies /\ rs[k].req \in Sent \cup {NoRequest}
                    /\ rs[k].req.id \in Nat /\ rs[k].req.at \in Nat
  BY Zenon
<1>1. rs[k] \in Replies
  OBVIOUS
<1>2. rs[k].req \in Sent \cup {NoRequest}
  BY <1>1, Zenon DEF Replies
<1> QED
  BY <1>1, <1>2 DEF Sent, NoRequest

\* mctp_message_tx_request: the next request has the next id.
LEMMA IdsOfRequest ==
  ASSUME NEW rq \in Seq(Sent), NEW rs \in Seq(Replies), NEW last \in Nat, NEW n \in Nat,
         IdsOK(rq, rs, last, n), NEW m \in Sent, m.id = n + 1
  PROVE  IdsOK(rq, rs, last, n + 1) /\ IdsOK(Append(rq, m), rs, last, n + 1)
<1> DEFINE q == Append(rq, m)
<1>1. /\ q \in Seq(Sent) /\ Len(q) = Len(rq) + 1 /\ \A i \in 1..Len(rq) : q[i] = rq[i]
      /\ q[Len(rq) + 1] = m
  BY AppendFacts
<1> HIDE DEF q
<1>2. PICK a \in Nat, b \in Nat : a = Len(rq) /\ b = Len(rs)
  OBVIOUS
<1>3. /\ \A i \in 1..a : rq[i].id \in Nat /\ rq[i].id <= n /\ last < rq[i].id
      /\ \A k \in 1..b : rs[k].req.id \in Nat /\ rs[k].req.id <= n
  <2>1. \A i \in 1..Len(rq) : rq[i].id \in Nat
    BY RequestTypes, Zenon
  <2>2. \A k \in 1..Len(rs) : rs[k].req.id \in Nat
    BY ReplyTypes, Zenon
  <2> QED
    BY <1>2, <2>1, <2>2, Zenon DEF IdsOK
<1>4. IdsOK(rq, rs, last, n + 1)
  <2>1. \A i \in 1..a : rq[i].id <= n + 1
    BY <1>3
  <2>2. \A k \in 1..b : rs[k].req.id <= n + 1
    BY <1>3
  <2> QED
    BY <1>2, <2>1, <2>2 DEF IdsOK
<1>5. \A i \in 1..(a + 1) : q[i].id <= n + 1 /\ last < q[i].id
  <2> SUFFICES ASSUME NEW i \in 1..(a + 1) PROVE q[i].id <= n + 1 /\ last < q[i].id
    BY Zenon
  <2>1. CASE i \in 1..a
    BY <1>1, <1>2, <1>3, <2>1
  <2>2. CASE i = a + 1
    BY <1>1, <1>2, <2>2 DEF IdsOK
  <2> QED
    BY <2>1, <2>2
<1>6. ASSUME NEW i \in 1..(a + 1), NEW j \in 1..(a + 1), i < j PROVE q[i].id < q[j].id
  <2>1. i \in 1..a /\ q[i].id = rq[i].id /\ rq[i].id \in Nat
    BY <1>1, <1>2, <1>3, <1>6
  <2>2. CASE j \in 1..a
    BY <1>1, <1>2, <1>6, <2>1, <2>2, Zenon DEF IdsOK
  <2>3. CASE j = a + 1
    BY <1>1, <1>2, <1>3, <2>1, <2>3
  <2> QED
    BY <2>2, <2>3
<1>7. ASSUME NEW k \in 1..b, NEW i \in 1..(a + 1) PROVE rs[k].req.id < q[i].id
  <2>1. CASE i \in 1..a
    BY <1>1, <1>2, <2>1, Zenon DEF IdsOK
  <2>2. CASE i = a + 1
    BY <1>1, <1>2, <1>3, <2>2
  <2> QED
    BY <2>1, <2>2
<1>8. IdsOK(q, rs, last, n + 1)
  BY <1>1, <1>2, <1>4, <1>5, <1>6, <1>7, Zenon DEF IdsOK
<1> QED
  BY <1>4, <1>8, Zenon DEF q

\* A queue loses its first message.
LEMMA IdsOfTails ==
  ASSUME NEW rq \in Seq(Sent), NEW rs \in Seq(Replies), NEW last \in Nat, NEW n \in Nat,
         IdsOK(rq, rs, last, n)
  PROVE  /\ rq # <<>> => IdsOK(Tail(rq), rs, last, n)
         /\ rs # <<>> => IdsOK(rq, Tail(rs), last, n)
<1>1. ASSUME rq # <<>> PROVE IdsOK(Tail(rq), rs, last, n)
  <2>1. PICK l \in Nat \ {0} : l = Len(rq)
    BY <1>1, TailFacts, Zenon
  <2>2. PICK a \in Nat : a = l - 1 /\ l = a + 1
    OBVIOUS
  <2>3. PICK q : q = Tail(rq)
    BY Zenon
  <2>4. /\ q \in Seq(Sent) /\ q = Tail(rq) /\ Len(rq) = a + 1 /\ Len(q) = a
        /\ \A i \in 1..a : q[i] = rq[i + 1]
    BY <1>1, <2>1, <2>2, <2>3, TailFacts, Zenon
  <2>5. \A i \in 1..a : i + 1 \in 1..(a + 1)
    BY <2>4
  <2>6. \A i, j \in 1..a : i < j => i + 1 < j + 1
    BY <2>4
  <2>7. \A i \in 1..a : q[i].id <= n /\ last < q[i].id
    BY <2>4, <2>5, Zenon DEF IdsOK
  <2>8. \A k \in 1..Len(rs) : \A i \in 1..a : rs[k].req.id < q[i].id
    BY <2>4, <2>5, Zenon DEF IdsOK
  <2>9. ASSUME NEW i \in 1..a, NEW j \in 1..a, i < j PROVE q[i].id < q[j].id
    <3>1. PICK g \in 1..(a + 1), h \in 1..(a + 1) : g = i + 1 /\ h = j + 1 /\ g < h
      BY <2>5, <2>6, <2>9, Zenon
    <3>2. rq[g].id < rq[h].id
      BY <2>4, <3>1, Zenon DEF IdsOK
    <3> QED
      BY <2>4, <3>1, <3>2, Zenon
  <2>10. IdsOK(q, rs, last, n)
    BY <2>4, <2>7, <2>8, <2>9, Zenon DEF IdsOK
  <2> QED
    BY <2>4, <2>10, Zenon
<1>2. ASSUME rs # <<>> PROVE IdsOK(rq, Tail(rs), last, n)
  <2>1. PICK l \in Nat \ {0} : l = Len(rs)
    BY <1>2, TailFacts, Zenon
  <2>2. PICK a \in Nat : a = l - 1 /\ l = a + 1
    OBVIOUS
  <2>3. PICK q : q = Tail(rs)
    BY Zenon
  <2>4. /\ q \in Seq(Replies) /\ q = Tail(rs) /\ Len(rs) = a + 1 /\ Len(q) = a
        /\ \A i \in 1..a : q[i] = rs[i + 1]
    BY <1>2, <2>1, <2>2, <2>3, TailFacts, Zenon
  <2>5. \A i \in 1..a : i + 1 \in 1..(a + 1)
    BY <2>4
  <2>6. \A i, j \in 1..a : i < j => i + 1 < j + 1
    BY <2>4
  <2>7. \A k \in 1..a : q[k].req.id <= n /\ \A i \in 1..Len(rq) : q[k].req.id < rq[i].id
    BY <2>4, <2>5 DEF IdsOK
  <2>8. ASSUME NEW i \in 1..a, NEW j \in 1..a, i < j, q[i].req.id # 0, q[j].req.id # 0
        PROVE  q[i].req.id < q[j].req.id
    <3>1. PICK g \in 1..(a + 1), h \in 1..(a + 1) : g = i + 1 /\ h = j + 1 /\ g < h
      BY <2>5, <2>6, <2>8, Zenon
    <3>2. q[i] = rs[g] /\ q[j] = rs[h]
      BY <2>4, <3>1, Zenon
    <3> QED
      BY <2>4, <2>8, <3>1, <3>2 DEF IdsOK
  <2>9. IdsOK(rq, q, last, n)
    BY <2>4, <2>7, <2>8, Zenon DEF IdsOK
  <2> QED
    BY <2>4, <2>9, Zenon
<1> QED
  BY <1>1, <1>2, Zenon

\* The responder takes the first request: all others were made later.
LEMMA IdsOfHead ==
  ASSUME NEW rq \in Seq(Sent), NEW rs \in Seq(Replies), NEW last \in Nat, NEW n \in Nat,
         IdsOK(rq, rs, last, n), rq # <<>>
  PROVE  /\ rq[1].id <= n /\ last < rq[1].id
         /\ \A i \in 1..Len(Tail(rq)) : rq[1].id < Tail(rq)[i].id
         /\ \A k \in 1..Len(rs) : rs[k].req.id < rq[1].id
         /\ IdsOK(Tail(rq), rs, rq[1].id, n)
<1>1. PICK l \in Nat \ {0} : l = Len(rq)
  BY TailFacts, Zenon
<1>2. PICK a \in Nat : a = l - 1 /\ l = a + 1
  OBVIOUS
<1>3. PICK q : q = Tail(rq)
  BY Zenon
<1>4. q \in Seq(Sent) /\ Len(q) = a /\ \A i \in 1..a : q[i] = rq[i + 1]
  BY <1>1, <1>2, <1>3, TailFacts, Zenon
<1>5. 1 \in 1..Len(rq) /\ rq[1].id <= n /\ last < rq[1].id
  BY <1>1 DEF IdsOK
<1>6. \A k \in 1..Len(rs) : rs[k].req.id < rq[1].id
  BY <1>5, Zenon DEF IdsOK
<1>7. ASSUME NEW i \in 1..a PROVE rq[1].id < q[i].id
  <2>1. PICK j \in 1..Len(rq) : j = i + 1 /\ 1 < j
    BY <1>1, <1>2
  <2>2. rq[1].id < rq[j].id
    BY <1>5, <2>1, Zenon DEF IdsOK
  <2> QED
    BY <1>4, <2>1, <2>2, Zenon
<1>8. IdsOK(q, rs, last, n)
  BY <1>3, IdsOfTails, Zenon
<1>9. IdsOK(q, rs, rq[1].id, n)
  BY <1>4, <1>5, <1>7, <1>8, Zenon DEF IdsOK
<1> QED
  BY <1>3, <1>4, <1>5, <1>6, <1>7, <1>9, Zenon

\* The responder sends: a response after those to earlier requests, or a message
\* that answers none.
LEMMA IdsOfReply ==
  ASSUME NEW rq \in Seq(Sent), NEW rs \in Seq(Replies), NEW last \in Nat, NEW n \in Nat,
         IdsOK(rq, rs, last, n), NEW a \in Replies, a.req.id <= n,
         \A i \in 1..Len(rq) : a.req.id < rq[i].id,
         \A k \in 1..Len(rs) : a.req.id = 0 \/ rs[k].req.id < a.req.id
  PROVE  IdsOK(rq, Append(rs, a), last, n)
<1>1. PICK b \in Nat : b = Len(rs)
  OBVIOUS
<1>2. PICK q : q = Append(rs, a)
  BY Zenon
<1>3. Len(q) = b + 1 /\ q[b + 1] = a /\ \A k \in 1..b : q[k] = rs[k]
  BY <1>1, <1>2, AppendFacts
<1>4. ASSUME NEW k \in 1..(b + 1)
      PROVE  q[k].req.id <= n /\ \A i \in 1..Len(rq) : q[k].req.id < rq[i].id
  <2>1. CASE k \in 1..b
    BY <1>1, <1>3, <2>1, Zenon DEF IdsOK
  <2>2. CASE k = b + 1
    BY <1>3, <2>2, Zenon
  <2> QED
    BY <2>1, <2>2
<1>5. ASSUME NEW k \in 1..(b + 1), NEW l \in 1..(b + 1), k < l,
             q[k].req.id # 0, q[l].req.id # 0
      PROVE  q[k].req.id < q[l].req.id
  <2>1. k \in 1..b /\ q[k] = rs[k]
    BY <1>3, <1>5
  <2>2. CASE l \in 1..b
    BY <1>1, <1>3, <1>5, <2>1, <2>2, Zenon DEF IdsOK
  <2>3. CASE l = b + 1
    BY <1>1, <1>3, <1>5, <2>1, <2>3, Zenon
  <2> QED
    BY <2>2, <2>3
<1>6. IdsOK(rq, q, last, n)
  BY <1>3, <1>4, <1>5, Zenon DEF IdsOK
<1> QED
  BY <1>2, <1>6, Zenon

-----------------------------------------------------------------------------
\* A response of the control handler: what it says is so when it leaves.
LEMMA ResponseFacts ==
  ASSUME ConversationTypes, ListInv, NEW m \in Sent, lastSet < m.id,
         NEW cc \in Codes \ {"NONE"}, NEW e \in Nat, NEW list \in Seq(Types \cup {Ctl!ControlType}),
         eid' \in Nat \ {0}, e = 0 \/ e = eid',
         cc \in {"SUCCESS", "ERROR"} \/ eid' = eid,
         cc = "SUCCESS" /\ m.cmd = Ctl!SET_ENDPOINT_ID => e = m.arg
  PROVE  LET a == Ctl!Response(m, cc, e, list)
             last == IF eid' # eid THEN m.id ELSE lastSet
         IN  a \in Replies /\ a.req = m /\ AnswerOK(a, eid', last)
<1> DEFINE a == Ctl!Response(m, cc, e, list)
           last == IF eid' # eid THEN m.id ELSE lastSet
<1>1. /\ m.src = RequesterEid /\ m.tag \in Req!Tags /\ m.inst \in Nat /\ m.cmd \in Nat
      /\ m.id \in Nat \ {0}
  BY Zenon DEF Sent
<1>2. m.tag \in Nat
  BY <1>1, ConversationAssumption DEF Req!Tags
<1>3. /\ a.src = eid' /\ a.dest = RequesterEid /\ a.tag = m.tag /\ a.cmd = m.cmd
      /\ a.cc = cc /\ a.eid = e /\ a.req = m
  BY <1>1, Zenon DEF Ctl!Response
<1>4. a \in Replies
  BY <1>1, <1>2, Zenon DEF Ctl!Response, Replies
<1> HIDE DEF a
<1>5. a.cc \notin {"SUCCESS", "ERROR"} => last # m.id
  BY <1>1, <1>3 DEF ConversationTypes
<1>6. AnswerOK(a, eid', last)
  <2> HIDE DEF last
  <2> QED
    BY <1>1, <1>3, <1>5, Zenon DEF AnswerOK
<1> QED
  BY <1>3, <1>4, <1>6, Zenon DEF a

\* mctp_rx in the responder: at most one response, and what it says is so.
LEMMA ServeFacts ==
  ASSUME ConversationTypes, ListInv, NEW m \in Sent, lastSet < m.id, Ctl!mctp_rx(m)
  PROVE  LET last == IF eid' # eid THEN m.id ELSE lastSet IN
         /\ eid' \in Nat \ {0} /\ UNCHANGED <<msg_types, supported>>
         /\ \/ reply' = <<>>
            \/ \E a \in Replies : reply' = <<a>> /\ a.req = m /\ AnswerOK(a, eid', last)
<1> DEFINE last == IF eid' # eid THEN m.id ELSE lastSet
           Good == \/ reply' = <<>>
                   \/ \E a \in Replies : reply' = <<a>> /\ a.req = m /\ AnswerOK(a, eid', last)
<1>1. eid \in Nat \ {0} /\ m.arg \in Nat /\ m.cmd \in Nat /\ msg_types \in Seq(Types \cup {Ctl!ControlType})
  BY Zenon DEF ConversationTypes, Sent, ListInv
<1>2. <<>> \in Seq(Types \cup {Ctl!ControlType})
  OBVIOUS
<1>3. UNCHANGED <<msg_types, supported>>
  BY Zenon DEF Ctl!mctp_rx
<1>4. ASSUME UNCHANGED eid, NEW cc \in Codes \ {"NONE", "SUCCESS"}, Ctl!reply_error(m, cc)
      PROVE  Good
  <2>1. \/ reply' = <<>>
        \/ reply' = <<Ctl!Response(m, cc, 0, <<>>)>>
    BY <1>4, Zenon DEF Ctl!reply_error
  <2>2. /\ Ctl!Response(m, cc, 0, <<>>) \in Replies /\ Ctl!Response(m, cc, 0, <<>>).req = m
        /\ AnswerOK(Ctl!Response(m, cc, 0, <<>>), eid', last)
    BY <1>1, <1>2, <1>4, ResponseFacts, Zenon
  <2> QED
    BY <2>1, <2>2, Zenon
<1>5. ASSUME eid' \in Nat \ {0}, NEW e \in Nat, e = 0 \/ e = eid',
             NEW list \in Seq(Types \cup {Ctl!ControlType}), Ctl!Answer(m, e, list),
             m.cmd = Ctl!SET_ENDPOINT_ID => e = m.arg
      PROVE  Good
  <2>1. \/ reply' = <<>>
        \/ reply' = <<Ctl!Response(m, "SUCCESS", e, list)>>
        \/ reply' = <<Ctl!Response(m, "ERROR", 0, <<>>)>>
    BY <1>5, Zenon DEF Ctl!Answer, Ctl!reply_error
  <2>2. /\ Ctl!Response(m, "SUCCESS", e, list) \in Replies
        /\ Ctl!Response(m, "SUCCESS", e, list).req = m
        /\ AnswerOK(Ctl!Response(m, "SUCCESS", e, list), eid', last)
    <3>1. "SUCCESS" \in Codes \ {"NONE"}
      BY Zenon DEF Codes
    <3> QED
      BY <1>5, <3>1, ResponseFacts
  <2>3. /\ Ctl!Response(m, "ERROR", 0, <<>>) \in Replies
        /\ Ctl!Response(m, "ERROR", 0, <<>>).req = m
        /\ AnswerOK(Ctl!Response(m, "ERROR", 0, <<>>), eid', last)
    <3>1. "ERROR" \in Codes \ {"NONE"}
      BY Zenon DEF Codes
    <3>2. PICK cc \in Codes \ {"NONE"} : cc = "ERROR" /\ cc # "SUCCESS"
      BY <3>1, Zenon
    <3>3. eid' \in Nat \ {0}
      BY <1>5, Zenon
    <3>4. /\ Ctl!Response(m, cc, 0, <<>>) \in Replies
          /\ Ctl!Response(m, cc, 0, <<>>).req = m
          /\ AnswerOK(Ctl!Response(m, cc, 0, <<>>), eid', last)
      BY <1>2, <3>2, <3>3, ResponseFacts, Zenon
    <3> QED
      BY <3>2, <3>4, Zenon
  <2> QED
    BY <2>1, <2>2, <2>3, Zenon
<1>6. {"ERROR", "INVALID_LENGTH", "INVALID_DATA", "VERSIONS_NOT_SUPPORTED", "UNSUPPORTED_CMD"}
        \subseteq Codes \ {"NONE", "SUCCESS"}
  BY Zenon DEF Codes
<1> HIDE DEF Good
<1>7. CASE reply' = <<>> /\ UNCHANGED eid
  BY <1>1, <1>3, <1>7, Zenon DEF Good
<1>8. CASE m.cmd = Ctl!SET_ENDPOINT_ID /\ Ctl!mctp_ctrl_set_endpoint_id(m)
  <2>1. CASE UNCHANGED eid /\ (Ctl!reply_error(m, "INVALID_LENGTH") \/ Ctl!reply_error(m, "INVALID_DATA"))
    BY <1>1, <1>3, <1>4, <1>6, <2>1, Zenon DEF Good
  <2>2. CASE Ctl!mctp_bus_set_eid_ok(m.arg) /\ eid' = m.arg /\ Ctl!Answer(m, m.arg, <<>>)
    <3>1. eid' \in Nat \ {0}
      BY <1>1, <2>2 DEF Ctl!mctp_bus_set_eid_ok
    <3> QED
      BY <1>1, <1>2, <1>3, <1>5, <2>2, <3>1, Zenon DEF Good
  <2> QED
    BY <1>8, <2>1, <2>2, Zenon DEF Ctl!mctp_ctrl_set_endpoint_id
<1>9. CASE m.cmd = Ctl!GET_ENDPOINT_ID /\ Ctl!mctp_ctrl_get_endpoint_id(m)
  <2>1. m.cmd # Ctl!SET_ENDPOINT_ID /\ UNCHANGED eid
    BY <1>9 DEF Ctl!GET_ENDPOINT_ID, Ctl!SET_ENDPOINT_ID, Ctl!mctp_ctrl_get_endpoint_id
  <2>2. Ctl!reply_error(m, "INVALID_LENGTH") \/ Ctl!Answer(m, eid, <<>>)
    BY <1>9, Zenon DEF Ctl!mctp_ctrl_get_endpoint_id
  <2> QED
    BY <1>1, <1>2, <1>3, <1>4, <1>5, <1>6, <2>1, <2>2, Zenon DEF Good
<1>10. CASE m.cmd = Ctl!GET_VERSION_SUPPORT /\ Ctl!mctp_ctrl_get_version(m)
  <2>1. m.cmd # Ctl!SET_ENDPOINT_ID /\ UNCHANGED eid
    BY <1>10 DEF Ctl!GET_VERSION_SUPPORT, Ctl!SET_ENDPOINT_ID, Ctl!mctp_ctrl_get_version
  <2>2. \/ Ctl!reply_error(m, "INVALID_LENGTH") \/ Ctl!reply_error(m, "VERSIONS_NOT_SUPPORTED")
        \/ Ctl!Answer(m, 0, <<>>)
    BY <1>10, Zenon DEF Ctl!mctp_ctrl_get_version
  <2> QED
    BY <1>1, <1>2, <1>3, <1>4, <1>5, <1>6, <2>1, <2>2, Zenon DEF Good
<1>11. CASE m.cmd = Ctl!GET_MESSAGE_TYPE_SUPPORT /\ Ctl!mctp_ctrl_get_types(m)
  <2>1. m.cmd # Ctl!SET_ENDPOINT_ID /\ UNCHANGED eid
    BY <1>11 DEF Ctl!GET_MESSAGE_TYPE_SUPPORT, Ctl!SET_ENDPOINT_ID, Ctl!mctp_ctrl_get_types
  <2>2. Ctl!reply_error(m, "INVALID_LENGTH") \/ Ctl!Answer(m, 0, msg_types)
    BY <1>11, Zenon DEF Ctl!mctp_ctrl_get_types
  <2> QED
    BY <1>1, <1>2, <1>3, <1>4, <1>5, <1>6, <2>1, <2>2, Zenon DEF Good
<1>12. CASE UNCHANGED eid /\ Ctl!reply_error(m, "UNSUPPORTED_CMD")
  BY <1>1, <1>3, <1>4, <1>6, <1>12, Zenon DEF Good
<1> QED
  BY <1>7, <1>8, <1>9, <1>10, <1>11, <1>12, Zenon DEF Ctl!mctp_rx, Ctl!mctp_control_handler

-----------------------------------------------------------------------------
\* The messages of a queue without its first, or with one more.
LEMMA ItemsFacts ==
  ASSUME NEW S, NEW s \in Seq(S)
  PROVE  /\ Items(s) \subseteq S
         /\ s # <<>> => Items(Tail(s)) \subseteq Items(s) /\ s[1] \in Items(s)
         /\ \A x \in S : Items(Append(s, x)) = Items(s) \cup {x}
<1>1. Items(s) \subseteq S
  BY DEF Items
<1>2. ASSUME s # <<>> PROVE Items(Tail(s)) \subseteq Items(s) /\ s[1] \in Items(s)
  <2>1. PICK n \in Nat \ {0} : n = Len(s)
    BY <1>2, TailFacts, Zenon
  <2>2. \A i \in 1..(n - 1) : i + 1 \in 1..n
    OBVIOUS
  <2>3. 1 \in 1..n
    OBVIOUS
  <2>4. Len(Tail(s)) = n - 1 /\ \A i \in 1..(n - 1) : Tail(s)[i] = s[i + 1]
    BY <1>2, <2>1, TailFacts, Zenon
  <2> QED
    BY <2>1, <2>2, <2>3, <2>4, Zenon DEF Items
<1>3. ASSUME NEW x \in S PROVE Items(Append(s, x)) = Items(s) \cup {x}
  <2>1. PICK n \in Nat : n = Len(s)
    OBVIOUS
  <2>2. PICK t : t = Append(s, x)
    BY Zenon
  <2>3. Len(t) = n + 1 /\ t[n + 1] = x /\ \A i \in 1..n : t[i] = s[i]
    BY <2>1, <2>2, AppendFacts
  <2>4. /\ \A i \in 1..(n + 1) : i \in 1..n \/ i = n + 1
        /\ \A i \in 1..n : i \in 1..(n + 1)
        /\ n + 1 \in 1..(n + 1)
    OBVIOUS
  <2>5. Items(t) = Items(s) \cup {x}
    BY <2>1, <2>3, <2>4, Zenon DEF Items
  <2> QED
    BY <2>2, <2>5, Zenon
<1> QED
  BY <1>1, <1>2, <1>3, Zenon

\* The requests in flight are requests, and have been numbered.
LEMMA FlightTypes ==
  ASSUME NEW rq \in Seq(Sent), NEW rs \in Seq(Replies), NEW last, NEW n,
         IdsOK(rq, rs, last, n), NEW r \in InFlight(rq, rs)
  PROVE  r \in Sent /\ r.id \in Nat \ {0} /\ r.at \in Nat /\ r.dest \in Nat /\ r.id <= n
<1>1. CASE r \in Items(rq)
  <2>1. PICK i \in 1..Len(rq) : r = rq[i]
    BY <1>1, Zenon DEF Items
  <2> QED
    BY <2>1, RequestTypes, Zenon DEF IdsOK
<1>2. CASE r \in {a.req : a \in Items(rs)} /\ r.id # 0
  <2>1. PICK k \in 1..Len(rs) : r = rs[k].req
    BY <1>2, Zenon DEF Items
  <2>2. r \in Sent
    BY <1>2, <2>1, ReplyTypes DEF NoRequest
  <2> QED
    BY <2>1, <2>2, Zenon DEF IdsOK, Sent
<1> QED
  BY <1>1, <1>2, Zenon DEF InFlight

\* What was said stays true, or the responder's EID has been changed since.
LEMMA AnswerStays ==
  ASSUME NEW a, NEW e, NEW last \in Nat, AnswerOK(a, e, last), NEW e2, NEW last2 \in Nat,
         a.req.id \in Nat, (e2 = e /\ last2 = last) \/ last2 > a.req.id
  PROVE  AnswerOK(a, e2, last2)
BY DEF AnswerOK

\* The tags while time passes and slots are cleared.
LEMMA TagsStay ==
  ASSUME ConversationTypes, TagsOK, now' \in Nat, now <= now',
         \A i \in Req!TagSlots : req_tags'[i] = req_tags[i] \/ req_tags'[i] = Req!SpareTag
  PROVE  TagsOK'
<1>1. \A i \in Req!TagSlots : Req!Live(i)' => Req!Live(i) /\ req_tags'[i] = req_tags[i]
  <2> SUFFICES ASSUME NEW i \in Req!TagSlots, Req!Live(i)'
               PROVE  Req!Live(i) /\ req_tags'[i] = req_tags[i]
    BY Zenon
  <2>1. req_tags'[i].local # 0 /\ ~(req_tags'[i].expiry < now')
    BY Zenon DEF Req!Live, Req!IsSpare
  <2>2. req_tags'[i] = req_tags[i]
    BY <2>1 DEF Req!SpareTag
  <2>3. req_tags[i].expiry \in Nat /\ now \in Nat
    BY Zenon DEF ConversationTypes, SlotType
  <2> QED
    BY <2>1, <2>2, <2>3 DEF Req!Live, Req!IsSpare
<1>2. \A i \in Req!TagSlots : req_tags'[i].local # 0 => req_tags'[i] = req_tags[i]
  BY DEF Req!SpareTag
<1>3. Req!TagSlots' = Req!TagSlots
  BY Zenon DEF Req!TagSlots
<1> QED
  BY <1>1, <1>2, <1>3, Zenon DEF TagsOK

\* A tag that is taken was free.
LEMMA TagsOfRequest ==
  ASSUME ConversationTypes, TagsOK, NEW i \in Req!TagSlots, NEW tag \in Req!Tags,
         NEW remote \in Nat, Req!TakeTag(i, tag, remote), now' = now
  PROVE  TagsOK'
<1>1. ~Req!Live(i) /\ tag \notin Req!Used(req_eid, remote)
  BY Zenon DEF Req!TakeTag, Req!TakenSlot, Req!FirstFree
<1>2. PICK new : /\ new = [local |-> req_eid, remote |-> remote, tag |-> tag,
                           expiry |-> now + TagTimeout, at |-> now]
                 /\ req_tags' = [req_tags EXCEPT ![i] = new]
  BY Zenon DEF Req!TakeTag
<1>3. req_tags'[i] = new /\ \A j \in Req!TagSlots \ {i} : req_tags'[j] = req_tags[j]
  BY <1>2, Zenon DEF ConversationTypes
<1>4. \A j \in Req!TagSlots \ {i} : Req!Live(j)' => Req!Live(j)
  BY <1>3, Zenon DEF Req!Live, Req!IsSpare
<1>5. ASSUME NEW j \in Req!TagSlots, Req!Live(j)
      PROVE  ~(req_tags[j].remote = remote /\ req_tags[j].tag = tag)
  <2>1. req_tags[j].local = req_eid
    BY <1>5, Zenon DEF Req!Live, Req!IsSpare, ConversationTypes, SlotType
  <2> QED
    BY <1>1, <1>5, <2>1, Zenon DEF Req!Used
<1>6. \A j \in Req!TagSlots : req_tags'[j].local # 0 =>
        req_tags'[j].expiry = req_tags'[j].at + TagTimeout
  BY <1>2, <1>3 DEF TagsOK
<1>7. ASSUME NEW j \in Req!TagSlots, NEW k \in Req!TagSlots, Req!Live(j)', Req!Live(k)',
             req_tags'[j].remote = req_tags'[k].remote, req_tags'[j].tag = req_tags'[k].tag
      PROVE  j = k
  <2>1. CASE j # i /\ k # i
    BY <1>3, <1>4, <1>7, <2>1, Zenon DEF TagsOK
  <2>2. CASE j = i /\ k # i
    BY <1>2, <1>3, <1>4, <1>5, <1>7, <2>2
  <2>3. CASE j # i /\ k = i
    BY <1>2, <1>3, <1>4, <1>5, <1>7, <2>3
  <2> QED
    BY <2>1, <2>2, <2>3, Zenon
<1>8. Req!TagSlots' = Req!TagSlots
  BY Zenon DEF Req!TagSlots
<1> QED
  BY <1>6, <1>7, <1>8, Zenon DEF TagsOK

\* The slots of requests in flight, while time passes and fewer are in flight.
LEMMA OwnersStay ==
  ASSUME ConversationTypes, NEW F, OwnersOK(F), NEW G, G \subseteq F,
         \A r \in F : r.at \in Nat,
         now' \in Nat, now <= now', UNCHANGED <<req_tags, owner, mismatched>>
  PROVE  OwnersOK(G)'
<1>1. \A r \in G : now' <= r.at + TagTimeout => now <= r.at + TagTimeout
  <2> SUFFICES ASSUME NEW r \in G, now' <= r.at + TagTimeout PROVE now <= r.at + TagTimeout
    BY Zenon
  <2>1. r.at \in Nat /\ now \in Nat /\ TagTimeout \in Nat
    BY ConversationAssumption, Zenon DEF ConversationTypes
  <2> QED
    BY <2>1
<1>2. \A r, i : Owns(i, r)' <=> Owns(i, r)
  BY Zenon DEF Owns
<1>3. \A r \in G, i \in Req!TagSlots : Owns(i, r)' =>
        req_tags'[i].remote = r.dest /\ req_tags'[i].tag = r.tag /\ req_tags'[i].at = r.at
  BY <1>2, Zenon DEF OwnersOK
<1>4. ~mismatched' =>
        \A r \in G : now' <= r.at + TagTimeout => \E i \in Req!TagSlots : Owns(i, r)'
  BY <1>1, <1>2, Zenon DEF OwnersOK
<1> QED
  BY <1>3, <1>4, Zenon DEF OwnersOK, Owns, Req!TagSlots

\* mctp_message_tx_request: slot i becomes that of the new request.
LEMMA OwnersOfRequest ==
  ASSUME ConversationTypes, TagsOK, NEW F, OwnersOK(F),
         \A r \in F : r.id \in Nat \ {0} /\ r.id <= requested /\ r.at \in Nat,
         NEW i \in Req!TagSlots, NEW tag \in Req!Tags, NEW m,
         m.id = requested + 1, m.tag = tag, m.at = now, m.dest \in Nat,
         Req!TakeTag(i, tag, m.dest), now' = now,
         owner' = [owner EXCEPT ![i] = requested + 1], mismatched' = mismatched,
         NEW G, G \subseteq F \cup {m}
  PROVE  OwnersOK(G)'
<1>1. ~Req!Live(i)
  BY Zenon DEF Req!TakeTag, Req!TakenSlot
<1>2. /\ req_tags'[i] = [local |-> req_eid, remote |-> m.dest, tag |-> tag,
                         expiry |-> now + TagTimeout, at |-> now]
      /\ \A j \in Req!TagSlots \ {i} : req_tags'[j] = req_tags[j]
  BY Zenon DEF Req!TakeTag, ConversationTypes
<1>3. owner'[i] = requested + 1 /\ \A j \in Req!TagSlots \ {i} : owner'[j] = owner[j]
  BY Zenon DEF ConversationTypes
<1>4. requested \in Nat /\ \A j \in Req!TagSlots : owner[j] \in Nat /\ owner[j] <= requested
  BY Zenon DEF ConversationTypes
<1>5. req_eid # 0
  BY ConversationAssumption DEF ConversationTypes
<1>6. \A r \in F, j \in Req!TagSlots : Owns(j, r)' <=> j # i /\ Owns(j, r)
  <2> SUFFICES ASSUME NEW r \in F, NEW j \in Req!TagSlots PROVE Owns(j, r)' <=> j # i /\ Owns(j, r)
    BY Zenon
  <2>1. CASE j # i
    BY <1>2, <1>3, <2>1, Zenon DEF Owns
  <2>2. CASE j = i
    <3>1. requested + 1 # r.id
      BY <1>4
    <3> QED
      BY <1>3, <2>2, <3>1, Zenon DEF Owns
  <2> QED
    BY <2>1, <2>2, Zenon
<1>7. \A j \in Req!TagSlots : Owns(j, m)' <=> j = i
  <2> SUFFICES ASSUME NEW j \in Req!TagSlots PROVE Owns(j, m)' <=> j = i
    BY Zenon
  <2>1. CASE j # i
    <3>1. owner[j] # requested + 1
      BY <1>4
    <3> QED
      BY <1>3, <2>1, <3>1, Zenon DEF Owns
  <2>2. CASE j = i
    BY <1>2, <1>3, <1>5, <2>2 DEF Owns
  <2> QED
    BY <2>1, <2>2, Zenon
<1>8. ASSUME NEW r \in G, NEW j \in Req!TagSlots, Owns(j, r)'
      PROVE  req_tags'[j].remote = r.dest /\ req_tags'[j].tag = r.tag /\ req_tags'[j].at = r.at
  <2>1. CASE r = m
    BY <1>2, <1>7, <1>8, <2>1
  <2>2. CASE r \in F
    <3>1. j # i /\ Owns(j, r)
      BY <1>6, <1>8, <2>2, Zenon
    <3>2. req_tags[j].remote = r.dest /\ req_tags[j].tag = r.tag /\ req_tags[j].at = r.at
      BY <2>2, <3>1, Zenon DEF OwnersOK
    <3>3. req_tags'[j] = req_tags[j]
      BY <1>2, <3>1, Zenon
    <3> QED
      BY <3>2, <3>3, Zenon
  <2> QED
    BY <2>1, <2>2, Zenon
<1>9. ASSUME ~mismatched', NEW r \in G, now' <= r.at + TagTimeout
      PROVE  \E j \in Req!TagSlots : Owns(j, r)'
  <2>1. CASE r = m
    BY <1>7, <2>1, Zenon
  <2>2. CASE r \in F
    <3>1. PICK j \in Req!TagSlots : Owns(j, r)
      BY <1>9, <2>2, Zenon DEF OwnersOK
    <3>2. req_tags[j].local # 0 /\ req_tags[j].expiry = r.at + TagTimeout
      BY <2>2, <3>1, Zenon DEF OwnersOK, TagsOK, Owns
    <3>3. Req!Live(j)
      <4>1. r.at \in Nat /\ now \in Nat /\ TagTimeout \in Nat
        BY <2>2, ConversationAssumption, Zenon DEF ConversationTypes
      <4> QED
        BY <1>9, <3>2, <4>1 DEF Req!Live, Req!IsSpare
    <3> QED
      BY <1>1, <1>6, <2>2, <3>1, <3>3, Zenon
  <2> QED
    BY <2>1, <2>2, Zenon
<1> QED
  BY <1>8, <1>9, Zenon DEF OwnersOK, Owns, Req!TagSlots

\* mctp_rx in the requester: slot i is cleared, and a request in flight that it
\* belonged to is noticed.
LEMMA OwnersOfReceive ==
  ASSUME ConversationTypes, TagsOK, NEW F, OwnersOK(F), \A r \in F : r.at \in Nat,
         NEW i \in Req!TagSlots, req_tags[i].local # 0,
         req_tags' = [req_tags EXCEPT ![i] = Req!SpareTag],
         now' = now, owner' = owner, NEW id, NEW G, G \subseteq F, \A r \in G : r.id # id,
         mismatched' = (mismatched \/ \E j \in Req!TagSlots :
                          Req!Waiting(j) /\ Clears(j) /\ owner[j] # id)
  PROVE  OwnersOK(G)'
<1>1. req_tags'[i] = Req!SpareTag /\ \A j \in Req!TagSlots \ {i} : req_tags'[j] = req_tags[j]
  BY Zenon DEF ConversationTypes
<1>2. \A r, j : j \in Req!TagSlots => (Owns(j, r)' <=> j # i /\ Owns(j, r))
  BY <1>1 DEF Owns, Req!SpareTag
<1>3. ASSUME NEW r \in G, NEW j \in Req!TagSlots, Owns(j, r)'
      PROVE  req_tags'[j].remote = r.dest /\ req_tags'[j].tag = r.tag /\ req_tags'[j].at = r.at
  BY <1>1, <1>2, <1>3 DEF OwnersOK
<1>4. ASSUME ~mismatched', NEW r \in G, now' <= r.at + TagTimeout
      PROVE  \E j \in Req!TagSlots : Owns(j, r)'
  <2>1. PICK j \in Req!TagSlots : Owns(j, r)
    BY <1>4, Zenon DEF OwnersOK
  <2>2. ASSUME j = i PROVE FALSE
    <3>1. Req!Waiting(i) /\ owner[i] # id
      BY <1>4, <2>1, <2>2, Zenon DEF Req!Waiting, Owns, OwnersOK
    <3>2. Clears(i)
      BY <1>1 DEF Clears, Req!SpareTag
    <3> QED
      BY <1>4, <3>1, <3>2, Zenon
  <2> QED
    BY <1>2, <2>1, <2>2, Zenon
<1> QED
  BY <1>3, <1>4, Zenon DEF OwnersOK, Owns, Req!TagSlots

-----------------------------------------------------------------------------
\* What the invariant says of the requests in flight.
LEMMA FlightFacts ==
  ASSUME ConversationInv
  PROVE  \A r \in InFlight(requests, responses) :
           /\ r \in Sent /\ r.id \in Nat \ {0} /\ r.id <= requested
           /\ r.at \in Nat /\ r.dest \in Nat
BY FlightTypes, Zenon DEF ConversationInv, ConversationTypes

\* The invariant of the owners after a step, with the requests then in flight.
LEMMA OwnersPrimed ==
  ASSUME NEW G, G = InFlight(requests', responses'), OwnersOK(G)'
  PROVE  OwnersOK(InFlight(requests, responses))'
BY Zenon DEF OwnersOK, Owns, Req!TagSlots, InFlight, Items

\* mctp_message_tx_request keeps the invariant.
LEMMA RequestStep ==
  ASSUME ConversationInv, NEW q \in AllRequests, mctp_message_tx_request(q)
  PROVE  ConversationInv'
<1>1. PICK i \in Req!TagSlots, tag \in Req!Tags :
        /\ Req!mctp_alloc_tag(i, tag, q.dest)
        /\ owner' = [owner EXCEPT ![i] = requested + 1]
        /\ requests' \in {requests, Append(requests, Message(q, tag))}
  BY Zenon DEF mctp_message_tx_request
<1>2. /\ requested' = requested + 1 /\ now' = now /\ req_eid' = req_eid
      /\ eid' = eid /\ msg_types' = msg_types /\ supported' = supported
      /\ responses' = responses /\ lastSet' = lastSet /\ mismatched' = mismatched
  BY Zenon DEF mctp_message_tx_request, controlVars
<1>3. ConversationTypes /\ TagsOK /\ ListInv
  BY Zenon DEF ConversationInv
<1>4. q \in Contents
  <2>1. requested + 1 \in 1..Len(Requests) /\ q \in Requests[requested + 1]
    BY <1>3, ConversationAssumption DEF mctp_message_tx_request, ConversationTypes
  <2> QED
    BY <2>1, ConversationAssumption
<1>5. PICK m : m = Message(q, tag)
  BY Zenon
<1>6. /\ m \in Sent /\ m.id = requested + 1 /\ m.tag = tag /\ m.at = now
      /\ m.dest = q.dest /\ m.dest \in Nat
  <2>1. requested + 1 \in Nat \ {0} /\ now \in Nat /\ req_eid = RequesterEid
    BY <1>3 DEF ConversationTypes
  <2>2. (requested + 1) % 32 \in Nat
    BY <2>1
  <2> QED
    BY <1>4, <1>5, <2>1, <2>2, Zenon DEF Message, Sent, Contents
<1>7. Req!TakeTag(i, tag, m.dest)
  BY <1>1, <1>6, Zenon DEF Req!mctp_alloc_tag
<1>8. ListInv'
  BY <1>2, <1>3, Zenon DEF ListInv, Ctl!TypesAreSupported
<1>9. ConversationTypes'
  <2>1. req_tags' \in [Req!TagSlots -> SlotType]
    <3>1. PICK new : /\ new = [local |-> req_eid, remote |-> m.dest, tag |-> tag,
                               expiry |-> now + TagTimeout, at |-> now]
                     /\ req_tags' = [req_tags EXCEPT ![i] = new]
      BY <1>7, Zenon DEF Req!TakeTag
    <3>2. new \in SlotType
      BY <1>3, <1>6, <3>1, ConversationAssumption DEF ConversationTypes, SlotType
    <3> QED
      BY <1>3, <3>1, <3>2, Zenon DEF ConversationTypes
  <2>2. requests' \in Seq(Sent)
    <3>1. PICK S : S = Sent /\ requests \in Seq(S) /\ m \in S
      BY <1>3, <1>6, Zenon DEF ConversationTypes
    <3>2. Append(requests, m) \in Seq(S)
      BY <3>1, AppendFacts, Zenon
    <3> QED
      BY <1>1, <1>5, <3>1, <3>2, Zenon
  <2>3. owner' \in [Req!TagSlots -> Nat] /\ \A j \in Req!TagSlots : owner'[j] <= requested'
    BY <1>1, <1>2, <1>3 DEF ConversationTypes
  <2>4. Req!TagSlots' = Req!TagSlots
    BY Zenon DEF Req!TagSlots
  <2> QED
    BY <1>2, <1>3, <2>1, <2>2, <2>3, <2>4
       DEF ConversationTypes, SlotType, Sent, Replies, Req!Tags
<1>10. TagsOK'
  BY <1>2, <1>3, <1>6, <1>7, TagsOfRequest, Zenon
<1>11. IdsOK(requests', responses', lastSet', requested')
  BY <1>1, <1>2, <1>3, <1>5, <1>6, IdsOfRequest DEF ConversationInv, ConversationTypes
<1>12. \A a \in Items(responses') : AnswerOK(a, eid', lastSet')
  BY <1>2, Zenon DEF ConversationInv
<1>13. OwnersOK(InFlight(requests, responses))'
  <2>1. PICK F, G : F = InFlight(requests, responses) /\ G = InFlight(requests', responses')
    BY Zenon
  <2>2. G \subseteq F \cup {m}
    <3>1. Items(Append(requests, m)) = Items(requests) \cup {m}
      BY <1>3, <1>6, ItemsFacts, Zenon DEF ConversationTypes
    <3>2. Items(requests') \subseteq Items(requests) \cup {m}
      BY <1>1, <1>5, <3>1, Zenon
    <3> QED
      BY <1>2, <2>1, <3>2, Zenon DEF InFlight
  <2>3. OwnersOK(F) /\ \A r \in F : r.id \in Nat \ {0} /\ r.id <= requested /\ r.at \in Nat
    BY <2>1, FlightFacts, Zenon DEF ConversationInv
  <2>4. OwnersOK(G)'
    BY <1>1, <1>2, <1>3, <1>6, <1>7, <2>2, <2>3, OwnersOfRequest, Zenon
  <2> QED
    BY <2>1, <2>4, OwnersPrimed, Zenon
<1> QED
  BY <1>8, <1>9, <1>10, <1>11, <1>12, <1>13, Zenon DEF ConversationInv, IdsOK, AnswerOK, Items

\* Steps that leave the table of tags alone.
LEMMA QueueStep ==
  ASSUME ConversationInv, UNCHANGED <<req_tags, req_eid, requested, owner, mismatched>>,
         now' \in Nat, now <= now', ListInv', eid' \in Nat \ {0}, lastSet' \in Nat,
         requests' \in Seq(Sent), responses' \in Seq(Replies),
         IdsOK(requests', responses', lastSet', requested),
         \A a \in Items(responses') : AnswerOK(a, eid', lastSet'),
         InFlight(requests', responses') \subseteq InFlight(requests, responses)
  PROVE  ConversationInv'
<1>1. ConversationTypes /\ TagsOK
  BY Zenon DEF ConversationInv
<1>2. ConversationTypes'
  BY <1>1, Zenon DEF ConversationTypes, SlotType, Sent, Replies, Req!Tags, Req!TagSlots
<1>3. TagsOK'
  BY <1>1, TagsStay, Zenon
<1>4. OwnersOK(InFlight(requests, responses))'
  <2>1. PICK F, G : F = InFlight(requests, responses) /\ G = InFlight(requests', responses')
    BY Zenon
  <2>2. OwnersOK(F) /\ G \subseteq F /\ \A r \in F : r.at \in Nat
    BY <2>1, FlightFacts, Zenon DEF ConversationInv
  <2>3. OwnersOK(G)'
    BY <1>1, <2>2, OwnersStay, Zenon
  <2> QED
    BY <2>1, <2>3, OwnersPrimed, Zenon
<1> QED
  BY <1>2, <1>3, <1>4, Zenon DEF ConversationInv, IdsOK, AnswerOK, Items

\* mctp_rx in the responder keeps the invariant.
LEMMA ServeStep ==
  ASSUME ConversationInv, Serve
  PROVE  ConversationInv'
<1>1. /\ requests # <<>> /\ requests' = Tail(requests) /\ responses' = responses \o reply'
      /\ UNCHANGED <<req_tags, req_eid, requested, owner, mismatched, now>>
  BY Zenon DEF Serve, tagVars
<1>2. PICK rq \in Seq(Sent), rs \in Seq(Replies) : rq = requests /\ rs = responses
  BY Zenon DEF ConversationInv, ConversationTypes
<1>3. /\ ConversationTypes /\ ListInv /\ now \in Nat /\ lastSet \in Nat /\ requested \in Nat
      /\ IdsOK(rq, rs, lastSet, requested)
  BY <1>2, Zenon DEF ConversationInv, ConversationTypes
<1>4. PICK m \in Sent : m = rq[1] /\ m = Head(requests) /\ m.id \in Nat \ {0}
  <2>1. rq[1] \in Sent /\ Head(requests) = rq[1]
    BY <1>1, <1>2, TailFacts, Zenon
  <2> QED
    BY <2>1, Zenon DEF Sent
<1>5. /\ m.id <= requested /\ lastSet < m.id
      /\ \A i \in 1..Len(Tail(rq)) : m.id < Tail(rq)[i].id
      /\ \A k \in 1..Len(rs) : rs[k].req.id < m.id
      /\ IdsOK(Tail(rq), rs, m.id, requested)
  BY <1>1, <1>2, <1>3, <1>4, IdsOfHead, Zenon
<1>6. PICK last \in Nat : /\ last = IF eid' # eid THEN m.id ELSE lastSet
                          /\ lastSet' = last
  BY <1>3, <1>4, Zenon DEF Serve
<1>7. /\ eid' \in Nat \ {0} /\ UNCHANGED <<msg_types, supported>>
      /\ \/ reply' = <<>>
         \/ \E a \in Replies : reply' = <<a>> /\ a.req = m /\ AnswerOK(a, eid', last)
  BY <1>3, <1>4, <1>5, <1>6, ServeFacts, Zenon DEF Serve
<1>8. Tail(rq) \in Seq(Sent) /\ Items(Tail(rq)) \subseteq Items(rq) /\ m \in Items(rq)
  <2>1. PICK S : S = Sent /\ rq \in Seq(S) /\ rq # <<>>
    BY <1>1, <1>2, Zenon
  <2> QED
    BY <1>4, <2>1, TailFacts, ItemsFacts, Zenon
<1>9. IdsOK(Tail(rq), rs, last, requested)
  <2>1. IdsOK(Tail(rq), rs, lastSet, requested)
    BY <1>1, <1>2, <1>3, IdsOfTails, Zenon
  <2> QED
    BY <1>5, <1>6, <2>1, Zenon
<1>10. \A a \in Items(rs) : AnswerOK(a, eid', last)
  <2> SUFFICES ASSUME NEW a \in Items(rs) PROVE AnswerOK(a, eid', last)
    BY Zenon
  <2>1. PICK k \in 1..Len(rs) : a = rs[k]
    BY Zenon DEF Items
  <2>2. a.req.id \in Nat /\ a.req.id < m.id
    BY <1>5, <2>1, ReplyTypes, Zenon
  <2>3. AnswerOK(a, eid, lastSet)
    BY <1>2, Zenon DEF ConversationInv
  <2>4. (eid' = eid /\ last = lastSet) \/ last > a.req.id
    BY <1>4, <1>6, <2>2, Zenon
  <2> QED
    BY <1>3, <2>2, <2>3, <2>4, AnswerStays, Zenon
<1>11. ListInv'
  BY <1>3, <1>7, Zenon DEF ListInv, Ctl!TypesAreSupported
<1>12. CASE reply' = <<>>
  <2>1. responses' = rs
    BY <1>1, <1>2, <1>12
  <2>2. InFlight(requests', responses') \subseteq InFlight(requests, responses)
    BY <1>1, <1>2, <1>8, <2>1, Zenon DEF InFlight
  <2> QED
    BY <1>1, <1>2, <1>3, <1>6, <1>7, <1>8, <1>9, <1>10, <1>11, <2>1, <2>2, QueueStep
<1>13. CASE reply' # <<>>
  <2>1. PICK a \in Replies : reply' = <<a>> /\ a.req = m /\ AnswerOK(a, eid', last)
    BY <1>7, <1>13, Zenon
  <2>2. /\ responses' = Append(rs, a) /\ responses' \in Seq(Replies)
        /\ Items(responses') = Items(rs) \cup {a}
    <3>1. PICK S : S = Replies /\ rs \in Seq(S) /\ a \in S
      BY <1>2, <2>1, Zenon
    <3>2. rs \o <<a>> = Append(rs, a) /\ Append(rs, a) \in Seq(S)
      BY <3>1, AppendFacts
    <3>3. Items(Append(rs, a)) = Items(rs) \cup {a}
      BY <3>1, ItemsFacts, Zenon
    <3> QED
      BY <1>1, <1>2, <2>1, <3>1, <3>2, <3>3, Zenon
  <2>3. IdsOK(requests', responses', last, requested)
    <3>1. PICK q \in Seq(Sent) : q = Tail(rq)
      BY <1>8, Zenon
    <3>2. IdsOK(q, Append(rs, a), last, requested)
      BY <1>3, <1>5, <1>9, <2>1, <3>1, IdsOfReply, Zenon
    <3> QED
      BY <1>1, <1>2, <2>2, <3>1, <3>2, Zenon
  <2>4. InFlight(requests', responses') \subseteq InFlight(requests, responses)
    BY <1>1, <1>2, <1>8, <2>1, <2>2, Zenon DEF InFlight
  <2>5. \A x \in Items(responses') : AnswerOK(x, eid', last)
    BY <1>10, <2>1, <2>2, Zenon
  <2> QED
    BY <1>1, <1>2, <1>3, <1>6, <1>7, <1>8, <1>11, <2>2, <2>3, <2>4, <2>5, QueueStep
<1> QED
  BY <1>12, <1>13, Zenon

\* The empty sequence is one of any elements.
LEMMA EmptyFacts ==
  ASSUME NEW S
  PROVE  <<>> \in Seq(S)
OBVIOUS

\* A message that mctp_mmbi_send sends has the type of a response.
LEMMA PlainIsReply ==
  ASSUME eid \in Nat \ {0}
  PROVE  PlainMessage \in Replies
<1>1. PICK T : T = Seq(Types \cup {Ctl!ControlType}) /\ <<>> \in T
  BY EmptyFacts, Zenon
<1>2. "NONE" \in Codes
  BY Zenon DEF Codes
<1>3. PICK R : R = Sent \cup {NoRequest} /\ NoRequest \in R
  BY Zenon
<1> QED
  BY <1>1, <1>2, <1>3, Zenon DEF PlainMessage, Replies

\* mctp_mmbi_send of the responder keeps the invariant.
LEMMA PlainStep ==
  ASSUME ConversationInv, mctp_mmbi_send
  PROVE  ConversationInv'
<1>1. /\ responses' = Append(responses, PlainMessage)
      /\ UNCHANGED <<req_tags, req_eid, requested, owner, mismatched, now, requests, lastSet,
                     eid, msg_types, supported>>
  BY Zenon DEF mctp_mmbi_send, tagVars, controlVars
<1>2. PICK rq \in Seq(Sent), rs \in Seq(Replies) : rq = requests /\ rs = responses
  BY Zenon DEF ConversationInv, ConversationTypes
<1>3. /\ ListInv /\ now \in Nat /\ lastSet \in Nat /\ requested \in Nat
      /\ eid \in Nat \ {0} /\ IdsOK(rq, rs, lastSet, requested)
  BY <1>2, Zenon DEF ConversationInv, ConversationTypes
<1>4. PICK a \in Replies : a = PlainMessage /\ a.req.id = 0 /\ AnswerOK(a, eid, lastSet)
  <2>1. PlainMessage \in Replies
    BY <1>3, PlainIsReply, Zenon
  <2>2. PlainMessage.req.id = 0 /\ AnswerOK(PlainMessage, eid, lastSet)
    BY Zenon DEF PlainMessage, NoRequest, AnswerOK
  <2> QED
    BY <2>1, <2>2, Zenon
<1>5. /\ responses' = Append(rs, a) /\ responses' \in Seq(Replies)
      /\ Items(responses') = Items(rs) \cup {a}
  <2>1. PICK S : S = Replies /\ rs \in Seq(S) /\ a \in S
    BY <1>4, Zenon
  <2>2. Append(rs, a) \in Seq(S)
    BY <2>1, AppendFacts, Zenon
  <2>3. Items(Append(rs, a)) = Items(rs) \cup {a}
    BY <2>1, ItemsFacts, Zenon
  <2> QED
    BY <1>1, <1>2, <1>4, <2>1, <2>2, <2>3, Zenon
<1>6. IdsOK(rq, Append(rs, a), lastSet, requested)
  <2>1. \A i \in 1..Len(rq) : a.req.id < rq[i].id
    <3>1. \A i \in 1..Len(rq) : rq[i].id \in Nat \ {0}
      BY RequestTypes, Zenon
    <3> QED
      BY <1>4, <3>1
  <2> QED
    BY <1>3, <1>4, <2>1, IdsOfReply
<1>7. InFlight(requests', responses') \subseteq InFlight(requests, responses)
  BY <1>1, <1>2, <1>4, <1>5, Zenon DEF InFlight
<1>8. \A x \in Items(responses') : AnswerOK(x, eid', lastSet')
  BY <1>1, <1>2, <1>4, <1>5, Zenon DEF ConversationInv
<1>9. ListInv'
  BY <1>1, <1>3, Zenon DEF ListInv, Ctl!TypesAreSupported
<1> QED
  BY <1>1, <1>2, <1>3, <1>5, <1>6, <1>7, <1>8, <1>9, QueueStep

\* Steps that change the list of types, the time, or nothing.
LEMMA QuietStep ==
  ASSUME ConversationInv, ListInv', now' \in Nat, now <= now',
         UNCHANGED <<req_tags, req_eid, requested, owner, mismatched, requests, responses,
                     lastSet, eid>>
  PROVE  ConversationInv'
<1>1. /\ lastSet' \in Nat /\ eid' \in Nat \ {0} /\ requests' \in Seq(Sent)
      /\ responses' \in Seq(Replies) /\ IdsOK(requests', responses', lastSet', requested)
  BY Zenon DEF ConversationInv, ConversationTypes
<1>2. \A a \in Items(responses') : AnswerOK(a, eid', lastSet')
  BY Zenon DEF ConversationInv
<1>3. InFlight(requests', responses') \subseteq InFlight(requests, responses)
  BY Zenon
<1> QED
  BY <1>1, <1>2, <1>3, QueueStep, Zenon

\* A message is lost.
LEMMA LoseStep ==
  ASSUME ConversationInv, Lose
  PROVE  ConversationInv'
<1>1. /\ \/ requests # <<>> /\ requests' = Tail(requests) /\ responses' = responses
         \/ responses # <<>> /\ responses' = Tail(responses) /\ requests' = requests
      /\ UNCHANGED <<req_tags, req_eid, requested, owner, mismatched, now, lastSet,
                     eid, msg_types, supported>>
  BY Zenon DEF Lose, tagVars, controlVars
<1>2. PICK rq \in Seq(Sent), rs \in Seq(Replies) : rq = requests /\ rs = responses
  BY Zenon DEF ConversationInv, ConversationTypes
<1>3. /\ ListInv /\ now \in Nat /\ lastSet \in Nat /\ requested \in Nat
      /\ eid \in Nat \ {0} /\ IdsOK(rq, rs, lastSet, requested)
  BY <1>2, Zenon DEF ConversationInv, ConversationTypes
<1>4. requests' \in Seq(Sent) /\ Items(requests') \subseteq Items(rq)
  <2>1. PICK S : S = Sent /\ rq \in Seq(S)
    BY Zenon
  <2>2. rq # <<>> => Tail(rq) \in Seq(S) /\ Items(Tail(rq)) \subseteq Items(rq)
    BY <2>1, TailFacts, ItemsFacts, Zenon
  <2> QED
    BY <1>1, <1>2, <2>1, <2>2, Zenon
<1>5. responses' \in Seq(Replies) /\ Items(responses') \subseteq Items(rs)
  <2>1. PICK S : S = Replies /\ rs \in Seq(S)
    BY Zenon
  <2>2. rs # <<>> => Tail(rs) \in Seq(S) /\ Items(Tail(rs)) \subseteq Items(rs)
    BY <2>1, TailFacts, ItemsFacts, Zenon
  <2> QED
    BY <1>1, <1>2, <2>1, <2>2, Zenon
<1>6. IdsOK(requests', responses', lastSet', requested)
  BY <1>1, <1>2, <1>3, IdsOfTails, Zenon
<1>7. InFlight(requests', responses') \subseteq InFlight(requests, responses)
  BY <1>2, <1>4, <1>5, Zenon DEF InFlight
<1>8. \A x \in Items(responses') : AnswerOK(x, eid', lastSet')
  BY <1>1, <1>2, <1>5, Zenon DEF ConversationInv
<1>9. ListInv'
  BY <1>1, <1>3, Zenon DEF ListInv, Ctl!TypesAreSupported
<1> QED
  BY <1>1, <1>3, <1>4, <1>5, <1>6, <1>7, <1>8, <1>9, QueueStep

\* The message that is received is none of those still on their way.
LEMMA ReceivedIsGone ==
  ASSUME NEW rq \in Seq(Sent), NEW rs \in Seq(Replies), NEW last, NEW n,
         IdsOK(rq, rs, last, n), rs # <<>>
  PROVE  \A r \in InFlight(rq, Tail(rs)) : r.id # rs[1].req.id
<1> SUFFICES ASSUME NEW r \in InFlight(rq, Tail(rs)) PROVE r.id # rs[1].req.id
  BY Zenon
<1>1. PICK l \in Nat \ {0} : l = Len(rs)
  BY TailFacts, Zenon
<1>2. 1 \in 1..Len(rs) /\ rs[1].req.id \in Nat
  BY <1>1, ReplyTypes
<1>3. CASE r \in Items(rq)
  <2>1. PICK i \in 1..Len(rq) : r = rq[i]
    BY <1>3, Zenon DEF Items
  <2>2. r.id \in Nat /\ rs[1].req.id < r.id
    BY <1>2, <2>1, RequestTypes, Zenon DEF IdsOK
  <2> QED
    BY <1>2, <2>2
<1>4. CASE r \in {a.req : a \in Items(Tail(rs))} /\ r.id # 0
  <2>1. Len(Tail(rs)) = l - 1 /\ \A i \in 1..(l - 1) : Tail(rs)[i] = rs[i + 1]
    BY <1>1, TailFacts, Zenon
  <2>2. PICK i \in 1..(l - 1) : r = Tail(rs)[i].req
    BY <1>4, <2>1, Zenon DEF Items
  <2>3. PICK j \in 1..Len(rs) : j = i + 1 /\ 1 < j /\ r = rs[j].req
    BY <1>1, <2>1, <2>2
  <2>4. rs[j].req.id \in Nat
    BY ReplyTypes, Zenon
  <2>5. rs[1].req.id # 0 => rs[1].req.id < rs[j].req.id
    BY <1>2, <1>4, <2>3, Zenon DEF IdsOK
  <2> QED
    BY <1>2, <1>4, <2>3, <2>4, <2>5
<1> QED
  BY <1>3, <1>4, Zenon DEF InFlight

\* mctp_rx in the requester keeps the invariant.
LEMMA ReceiveStep ==
  ASSUME ConversationInv, Receive
  PROVE  ConversationInv'
<1>1. /\ responses # <<>> /\ responses' = Tail(responses)
      /\ UNCHANGED <<req_eid, requested, owner, now, requests, lastSet, eid, msg_types, supported>>
  BY Zenon DEF Receive, controlVars, Req!RxResponse
<1>2. PICK rq \in Seq(Sent), rs \in Seq(Replies) : rq = requests /\ rs = responses
  BY Zenon DEF ConversationInv, ConversationTypes
<1>3. /\ ListInv /\ ConversationTypes /\ TagsOK /\ now \in Nat /\ lastSet \in Nat
      /\ requested \in Nat /\ IdsOK(rq, rs, lastSet, requested)
  BY <1>2, Zenon DEF ConversationInv, ConversationTypes
<1>4. /\ Tail(rs) \in Seq(Replies) /\ Items(Tail(rs)) \subseteq Items(rs)
      /\ Head(responses) = rs[1] /\ rs[1] \in Replies
  <2>1. PICK S : S = Replies /\ rs \in Seq(S) /\ rs # <<>>
    BY <1>1, <1>2, Zenon
  <2> QED
    BY <1>2, <2>1, TailFacts, ItemsFacts, Zenon
<1>5. PICK a \in Replies : a = rs[1] /\ a = Head(responses)
  BY <1>4, Zenon
<1>6. a.dest = RequesterEid /\ RequesterEid # 0
  BY ConversationAssumption DEF Replies
<1>7. IdsOK(requests', responses', lastSet', requested')
  BY <1>1, <1>2, <1>3, IdsOfTails, Zenon
<1>8. \A x \in Items(responses') : AnswerOK(x, eid', lastSet')
  BY <1>1, <1>2, <1>4, Zenon DEF ConversationInv
<1>9. ListInv'
  BY <1>1, <1>3, Zenon DEF ListInv, Ctl!TypesAreSupported
<1>10. mismatched' = (mismatched \/ \E i \in Req!TagSlots :
                        Req!Waiting(i) /\ Clears(i) /\ owner[i] # a.req.id)
  BY <1>5, Zenon DEF Receive
<1>11. InFlight(requests', responses') \subseteq InFlight(requests, responses)
  BY <1>1, <1>2, <1>4, Zenon DEF InFlight
<1>12. CASE UNCHANGED req_tags
  <2>1. mismatched' = mismatched
    BY <1>3, <1>10, <1>12, Zenon DEF Clears, ConversationTypes
  <2>2. /\ lastSet' \in Nat /\ eid' \in Nat \ {0} /\ requests' \in Seq(Sent)
        /\ responses' \in Seq(Replies) /\ now' \in Nat /\ now <= now'
    BY <1>1, <1>2, <1>3, <1>4 DEF ConversationTypes
  <2>3. IdsOK(requests', responses', lastSet', requested)
    BY <1>1, <1>7, Zenon
  <2> QED
    BY <1>1, <1>8, <1>9, <1>11, <1>12, <2>1, <2>2, <2>3, QueueStep, Zenon
<1>13. ASSUME NEW i \in Req!TagSlots, Req!Matches(req_tags[i], a.dest, a.src, a.tag),
              req_tags' = [req_tags EXCEPT ![i] = Req!SpareTag]
       PROVE  ConversationInv'
  <2>1. req_tags[i].local # 0
    BY <1>6, <1>13, Zenon DEF Req!Matches
  <2>2. Req!SpareTag \in SlotType
    BY ConversationAssumption DEF Req!SpareTag, SlotType, Req!Tags
  <2>3. mismatched' \in BOOLEAN
    BY <1>10, Zenon
  <2>4. ConversationTypes'
    <3>1. req_tags' \in [Req!TagSlots -> SlotType]
      BY <1>3, <1>13, <2>2, Zenon DEF ConversationTypes
    <3> QED
      BY <1>1, <1>2, <1>3, <1>4, <2>3, <3>1, Zenon
         DEF ConversationTypes, SlotType, Sent, Replies, Req!Tags, Req!TagSlots
  <2>5. TagsOK'
    <3>1. \A j \in Req!TagSlots : req_tags'[j] = req_tags[j] \/ req_tags'[j] = Req!SpareTag
      BY <1>3, <1>13, Zenon DEF ConversationTypes
    <3>2. now' \in Nat /\ now <= now'
      BY <1>1, <1>3
    <3> QED
      BY <1>3, <3>1, <3>2, TagsStay, Zenon
  <2>6. OwnersOK(InFlight(requests, responses))'
    <3>1. PICK F, G : F = InFlight(requests, responses) /\ G = InFlight(requests', responses')
      BY Zenon
    <3>2. OwnersOK(F) /\ G \subseteq F /\ \A r \in F : r.at \in Nat
      BY <1>11, <3>1, FlightFacts, Zenon DEF ConversationInv
    <3>3. PICK id : id = a.req.id
      BY Zenon
    <3>4. \A r \in G : r.id # id
      BY <1>1, <1>2, <1>3, <1>5, <3>1, <3>3, ReceivedIsGone, Zenon
    <3>5. OwnersOK(G)'
      BY <1>1, <1>3, <1>10, <1>13, <2>1, <3>2, <3>3, <3>4, OwnersOfReceive, Zenon
    <3> QED
      BY <3>1, <3>5, OwnersPrimed, Zenon
  <2> QED
    BY <1>7, <1>8, <1>9, <2>4, <2>5, <2>6, Zenon DEF ConversationInv, IdsOK, AnswerOK, Items
<1> QED
  BY <1>5, <1>12, <1>13 DEF Receive, Req!RxResponse, Req!mctp_dealloc_tag

\* The invariant holds of a fresh table, an empty link and a new bus.
LEMMA InitOK ==
  Init => ConversationInv
<1> SUFFICES ASSUME Init PROVE ConversationInv
  BY Zenon
<1>1. /\ req_tags = [i \in Req!TagSlots |-> Req!SpareTag] /\ now = 0 /\ req_eid = RequesterEid
      /\ eid = InitialEid /\ msg_types = <<Ctl!ControlType>> /\ supported = {Ctl!ControlType}
      /\ requests = <<>> /\ responses = <<>> /\ requested = 0 /\ lastSet = 0
      /\ owner = [i \in Req!TagSlots |-> 0] /\ mismatched = FALSE
  BY Zenon DEF Init, Req!TagsInit, Ctl!Init
<1>2. /\ requests \in Seq(Sent) /\ responses \in Seq(Replies)
      /\ Items(requests) = {} /\ Items(responses) = {}
  BY <1>1 DEF Items
<1>3. ListInv
  BY <1>1, ConversationAssumption DEF ListInv, Ctl!TypesAreSupported, Ctl!ControlType
<1>4. ConversationTypes
  <2>1. Req!SpareTag \in SlotType
    BY ConversationAssumption DEF Req!SpareTag, SlotType, Req!Tags
  <2>2. InitialEid \in Nat \ {0}
    BY ConversationAssumption
  <2>3. req_tags \in [Req!TagSlots -> SlotType]
    BY <1>1, <2>1, Zenon
  <2>4. owner \in [Req!TagSlots -> Nat] /\ \A i \in Req!TagSlots : owner[i] <= requested
    BY <1>1
  <2> QED
    BY <1>1, <1>2, <2>2, <2>3, <2>4, Zenon DEF ConversationTypes
<1>5. TagsOK
  BY <1>1, Zenon DEF TagsOK, Req!Live, Req!IsSpare, Req!SpareTag
<1>6. IdsOK(requests, responses, lastSet, requested)
  BY <1>1 DEF IdsOK
<1>7. OwnersOK(InFlight(requests, responses))
  <2>1. InFlight(requests, responses) = {}
    BY <1>2, Zenon DEF InFlight
  <2> QED
    BY <2>1, Zenon DEF OwnersOK
<1> QED
  BY <1>2, <1>3, <1>4, <1>5, <1>6, <1>7, Zenon DEF ConversationInv

\* Every step keeps the invariant.
LEMMA NextOK ==
  ConversationInv /\ [Next]_vars => ConversationInv'
<1> SUFFICES ASSUME ConversationInv, [Next]_vars PROVE ConversationInv'
  BY Zenon
<1>1. ListInv /\ now \in Nat
  BY Zenon DEF ConversationInv, ConversationTypes
<1>2. CASE ChangeTypes
  <2>1. PICK t \in Types : Ctl!mctp_control_add_type(t) \/ Ctl!mctp_control_remove_type(t)
    BY <1>2, Zenon DEF ChangeTypes
  <2>2. ListInv'
    BY <1>1, <2>1, AddPreserves, RemovePreserves, Zenon
  <2>3. /\ now' = now /\ eid' = eid
        /\ UNCHANGED <<req_tags, req_eid, requested, owner, mismatched, requests, responses,
                       lastSet>>
    BY <1>2, <2>1, Zenon DEF ChangeTypes, tagVars, Ctl!mctp_control_add_type,
                      Ctl!mctp_control_remove_type
  <2> QED
    BY <1>1, <2>2, <2>3, QuietStep
<1>3. CASE Tick
  <2>1. /\ now' = now + 1 /\ UNCHANGED <<msg_types, supported>>
        /\ UNCHANGED <<req_tags, req_eid, requested, owner, mismatched, requests, responses,
                       lastSet, eid>>
    BY <1>3, Zenon DEF Tick, Req!Tick, controlVars
  <2>2. ListInv'
    BY <1>1, <2>1, Zenon DEF ListInv, Ctl!TypesAreSupported
  <2> QED
    BY <1>1, <2>1, <2>2, QuietStep
<1>4. CASE UNCHANGED vars
  <2>1. /\ now' = now /\ UNCHANGED <<msg_types, supported>>
        /\ UNCHANGED <<req_tags, req_eid, requested, owner, mismatched, requests, responses,
                       lastSet, eid>>
    BY <1>4, Zenon DEF vars, tagVars, controlVars
  <2>2. ListInv'
    BY <1>1, <2>1, Zenon DEF ListInv, Ctl!TypesAreSupported
  <2> QED
    BY <1>1, <2>1, <2>2, QuietStep
<1> QED
  BY <1>2, <1>3, <1>4, RequestStep, ServeStep, PlainStep, ReceiveStep, LoseStep, Zenon DEF Next

\* The invariant holds of every conversation.
LEMMA ConversationInvariant ==
  Spec => []ConversationInv
BY InitOK, NextOK, PTL DEF Spec

-----------------------------------------------------------------------------
\* A message from the EID that was asked answers a request in flight.
LEMMA AnswerFacts ==
  ASSUME ConversationInv, responses # <<>>, NEW a, a = Head(responses), ~Foreign(a)
  PROVE  /\ a \in Replies /\ a.req \in InFlight(requests, responses)
         /\ a.tag = a.req.tag /\ a.req.at \in Nat
<1>1. PICK S : S = Replies /\ responses \in Seq(S)
  BY Zenon DEF ConversationInv, ConversationTypes
<1>2. PICK l \in Nat \ {0} : l = Len(responses) /\ a = responses[1] /\ a \in S
  BY <1>1, TailFacts
<1>3. a \in Items(responses) /\ a \in Replies
  BY <1>1, <1>2 DEF Items
<1>4. AnswerOK(a, eid, lastSet)
  BY <1>3, Zenon DEF ConversationInv
<1>5. a.req.id # 0
  BY <1>3, <1>4 DEF AnswerOK, Foreign, NoRequest, Replies
<1>6. a.req \in InFlight(requests, responses)
  BY <1>3, <1>5, Zenon DEF InFlight
<1> QED
  BY <1>3, <1>4, <1>5, <1>6, FlightFacts, Zenon DEF AnswerOK

\* A slot whose request still waits is one that mctp_alloc_tag must not take.
LEMMA WaitingIsLive ==
  ASSUME ConversationInv, NEW i \in Req!TagSlots, Req!Waiting(i)
  PROVE  Req!Live(i) /\ req_tags[i].local = RequesterEid
<1>1. req_tags[i] \in SlotType /\ now \in Nat
  BY Zenon DEF ConversationInv, ConversationTypes
<1>2. req_tags[i].local # 0 /\ req_tags[i].expiry = req_tags[i].at + TagTimeout
  BY Zenon DEF ConversationInv, TagsOK, Req!Waiting
<1>3. PICK e \in Nat : e = req_tags[i].expiry /\ now <= e
  BY <1>1, <1>2, Zenon DEF Req!Waiting, SlotType
<1> QED
  BY <1>1, <1>2, <1>3 DEF Req!Live, Req!IsSpare, SlotType

\* Only mctp_dealloc_tag clears a slot, and the one that matches the message.
LEMMA OnlyReceiveClears ==
  ASSUME ConversationInv, [Next]_vars, NEW i \in Req!TagSlots, Clears(i)
  PROVE  Receive /\ Req!Matches(req_tags[i], Head(responses).dest, Head(responses).src,
                                Head(responses).tag)
<1>1. req_tags' # req_tags /\ req_tags \in [Req!TagSlots -> SlotType] /\ req_eid # 0
  <2>1. RequesterEid # 0
    BY RequesterIsSet, Zenon
  <2> QED
    BY <2>1, Zenon DEF Clears, ConversationInv, ConversationTypes
<1>2. ASSUME NEW q \in AllRequests, mctp_message_tx_request(q) PROVE FALSE
  <2>1. PICK j \in Req!TagSlots, tag \in Req!Tags : Req!mctp_alloc_tag(j, tag, q.dest)
    BY <1>2, Zenon DEF mctp_message_tx_request
  <2>2. PICK r : r.local = req_eid /\ req_tags' = [req_tags EXCEPT ![j] = r]
    BY <2>1, Zenon DEF Req!mctp_alloc_tag, Req!TakeTag
  <2>3. req_tags'[i] = IF i = j THEN r ELSE req_tags[i]
    BY <1>1, <2>2, Zenon
  <2> QED
    BY <1>1, <2>2, <2>3 DEF Clears, Req!SpareTag
<1>3. Receive
  BY <1>1, <1>2, Zenon DEF Next, Serve, mctp_mmbi_send, ChangeTypes, Lose, Tick, Req!Tick, vars, tagVars
<1>4. PICK j \in Req!TagSlots :
        /\ Req!Matches(req_tags[j], Head(responses).dest, Head(responses).src,
                       Head(responses).tag)
        /\ req_tags' = [req_tags EXCEPT ![j] = Req!SpareTag]
  BY <1>1, <1>3, Zenon DEF Receive, Req!RxResponse, Req!mctp_dealloc_tag
<1>5. i = j
  BY <1>1, <1>4, Zenon DEF Clears
<1> QED
  BY <1>3, <1>4, <1>5, Zenon

\* What an answer in time from the EID that was asked releases is its own tag.
LEMMA ReleaseStep ==
  ASSUME ConversationInv, [Next]_vars, NEW i \in Req!TagSlots, Req!Waiting(i), Clears(i),
         ~mismatched, NEW a, a = Head(responses), ~Late(a), ~Foreign(a)
  PROVE  owner[i] = a.req.id
<1>1. Receive /\ Req!Matches(req_tags[i], a.dest, a.src, a.tag)
  BY OnlyReceiveClears, Zenon
<1>2. /\ a \in Replies /\ a.req \in InFlight(requests, responses)
      /\ a.tag = a.req.tag /\ a.req.at \in Nat
  BY <1>1, AnswerFacts, Zenon DEF Receive
<1>3. PICK F, r : r \in F /\ F = InFlight(requests, responses) /\ r = a.req /\ OwnersOK(F)
  BY <1>2, Zenon DEF ConversationInv
<1>4. now <= r.at + TagTimeout /\ now \in Nat
  <2>1. now \in Nat
    BY Zenon DEF ConversationInv, ConversationTypes
  <2> QED
    BY <1>2, <1>3, <2>1, ConversationAssumption DEF Late
<1>5. PICK j \in Req!TagSlots : Owns(j, r)
  BY <1>3, <1>4, Zenon DEF OwnersOK
<1>6. req_tags[j].remote = r.dest /\ req_tags[j].tag = r.tag /\ req_tags[j].at = r.at
  BY <1>3, <1>5, Zenon DEF OwnersOK
<1>7. Req!Live(j) /\ Req!Live(i)
  BY <1>4, <1>5, <1>6, WaitingIsLive, Zenon DEF Owns, Req!Waiting
<1>8. i = j
  BY <1>1, <1>2, <1>3, <1>6, <1>7, Zenon DEF ConversationInv, TagsOK, Req!Matches, Foreign
<1> QED
  BY <1>3, <1>5, <1>8, Zenon DEF Owns

\* Only an expired entry earlier in the table keeps the tag from being released.
LEMMA AnswerStep ==
  ASSUME ConversationInv, Receive, NEW a, a = Head(responses), NEW i \in Req!TagSlots,
         owner[i] = a.req.id, Req!Waiting(i), ~Foreign(a), ~Clears(i)
  PROVE  \E j \in Req!TagSlots :
           j < i /\ ~Req!Live(j) /\ Req!Matches(req_tags[j], a.dest, a.src, a.tag)
<1>1. /\ a \in Replies /\ a.req \in InFlight(requests, responses)
      /\ a.tag = a.req.tag /\ a.req.at \in Nat
  BY AnswerFacts, Zenon DEF Receive
<1>2. PICK F, r : r \in F /\ F = InFlight(requests, responses) /\ r = a.req /\ OwnersOK(F)
  BY <1>1, Zenon DEF ConversationInv
<1>3. Owns(i, r)
  BY <1>2, Zenon DEF Owns, Req!Waiting
<1>4. req_tags[i].remote = r.dest /\ req_tags[i].tag = r.tag
  BY <1>2, <1>3, Zenon DEF OwnersOK
<1>5. Req!Live(i) /\ req_tags[i].local = RequesterEid /\ RequesterEid # 0
  <2>1. RequesterEid # 0
    BY RequesterIsSet, Zenon
  <2> QED
    BY <2>1, WaitingIsLive, Zenon
<1>6. Req!Matches(req_tags[i], a.dest, a.src, a.tag)
  BY <1>1, <1>2, <1>4, <1>5, Zenon DEF Req!Matches, Foreign, Replies
<1>7. PICK j \in Req!TagSlots :
        /\ Req!Matches(req_tags[j], a.dest, a.src, a.tag)
        /\ \A k \in Req!TagSlots : k < j => ~Req!Matches(req_tags[k], a.dest, a.src, a.tag)
        /\ req_tags' = [req_tags EXCEPT ![j] = Req!SpareTag]
  BY <1>1, <1>5, <1>6, Zenon DEF Receive, Req!RxResponse, Req!mctp_dealloc_tag, Replies
<1>8. j # i
  <2>1. req_tags \in [Req!TagSlots -> SlotType]
    BY Zenon DEF ConversationInv, ConversationTypes
  <2>2. req_tags[i] # Req!SpareTag
    BY <1>5 DEF Req!SpareTag
  <2>3. j = i => req_tags'[i] = Req!SpareTag
    BY <1>7, <2>1, Zenon
  <2> QED
    BY <2>2, <2>3, Zenon DEF Clears
<1>9. j < i
  <2>1. ~(i < j)
    BY <1>6, <1>7, Zenon
  <2>2. i \in Nat /\ j \in Nat
    BY ConversationAssumption DEF Req!TagSlots
  <2> QED
    BY <1>8, <2>1, <2>2
<1>10. ~Req!Live(j)
  BY <1>5, <1>6, <1>7, <1>8, Zenon DEF ConversationInv, TagsOK, Req!Matches
<1> QED
  BY <1>7, <1>9, <1>10, Zenon

-----------------------------------------------------------------------------
\* mctp_control_add_type and mctp_control_remove_type keep the list right, for every
\* set of types and every length of the list, whatever requests are served.
THEOREM ListedTypes == Spec => []TypesAreSupported
<1>1. ConversationInv => TypesAreSupported
  BY Zenon DEF ConversationInv, ListInv, TypesAreSupported
<1> QED
  BY <1>1, ConversationInvariant, PTL

\* What a response on its way says of the responder's EID and of the request it
\* answers is so, for every series of requests: the control handler reports the EID
\* it comes from, and a request that was refused changed nothing.
THEOREM ResponsesAreTrue == Spec => []AnswersAreTrue
<1>1. ConversationInv => AnswersAreTrue
  <2> SUFFICES ASSUME ConversationInv, NEW k \in DOMAIN responses
               PROVE  AnswerOK(responses[k], eid, lastSet)
    BY Zenon DEF AnswersAreTrue, AnswerOK
  <2>1. responses[k] \in Items(responses)
    BY DEF Items, ConversationInv, ConversationTypes
  <2> QED
    BY <2>1, Zenon DEF ConversationInv
<1> QED
  BY <1>1, ConversationInvariant, PTL

\* mctp_dealloc_tag: until a late or foreign message has released the tag of another
\* request, an answer in time from the EID that was asked releases no other tag, for
\* every size of the table, number of tags and timeout.
THEOREM OwnAnswersRelease == Spec => ReleasedByOwnAnswer
<1>1. ConversationInv /\ [Next]_vars =>
        [\A i \in Req!TagSlots :
           Req!Waiting(i) /\ Clears(i) /\ ~mismatched =>
             LET a == Head(responses)
             IN  owner[i] = a.req.id \/ Late(a) \/ Foreign(a)]_vars
  BY ReleaseStep, Zenon
<1> QED
  BY <1>1, ConversationInvariant, PTL DEF Spec, ReleasedByOwnAnswer

\* mctp_dealloc_tag: an answer in time from the EID that was asked releases the tag
\* of its request, or finds an expired entry like it earlier in the table.
THEOREM AnswersRelease == Spec => AnswerReleasesTag
<1>1. ConversationInv /\ [Next]_vars =>
        [Receive =>
           LET a == Head(responses) IN
           \A i \in Req!TagSlots :
             owner[i] = a.req.id /\ Req!Waiting(i) /\ ~Foreign(a) =>
               \/ Clears(i)
               \/ \E j \in Req!TagSlots :
                    j < i /\ ~Req!Live(j)
                          /\ Req!Matches(req_tags[j], a.dest, a.src, a.tag)]_vars
  BY AnswerStep, Zenon
<1> QED
  BY <1>1, ConversationInvariant, PTL DEF Spec, AnswerReleasesTag
====
