------------------------------ MODULE MctpTags ------------------------------
(***************************************************************************)
(* The table of outbound request tags (src/core.c): mctp_alloc_tag, called *)
(* by mctp_message_tx_request, and mctp_dealloc_tag, called by mctp_rx for *)
(* every message without the tag owner bit.                                *)
(*                                                                         *)
(* A response can be lost, late or duplicated, so its arrival is a step    *)
(* that any tag, from any peer, may take at any time.  The field at of a   *)
(* slot, the time of its request, and last_tag are history: the code has   *)
(* only expiry, and no definition that models the code reads them.         *)
(***************************************************************************)
EXTENDS Naturals

CONSTANTS
  NumSlots,      \* MCTP_REQ_TAGS, 16
  NumTags,       \* tags per pair of endpoints, 8 (MCTP_HDR_TAG_MASK + 1)
  TagTimeout,    \* MCTP_TAG_TIMEOUT, 6000 ms
  Locals,        \* the EIDs the bus may have, never 0
  Remotes,       \* the EIDs requests are sent to
  MaxTime        \* bound on the clock

ASSUME TagsAssumption ==
  /\ NumSlots \in Nat /\ NumTags \in Nat \ {0} /\ TagTimeout \in Nat
  /\ MaxTime \in Nat
  /\ Locals \subseteq Nat \ {0} /\ Remotes \subseteq Nat

TagSlots == 1..NumSlots
Tags == 0..(NumTags - 1)

VARIABLES
  req_tags,          \* the table
  tag_round_robin,
  now,               \* what mctp_now returns
  bus_eid,           \* bus->eid
  last_tag           \* the tag allocated last, NumTags if none

tagsVars == <<req_tags, tag_round_robin, now, bus_eid, last_tag>>

SpareTag == [local |-> 0, remote |-> 0, tag |-> 0, expiry |-> 0, at |-> 0]

-----------------------------------------------------------------------------
\* (Faulty variant for mutation checks: a tag expires one tick early.)
SpareEarly(r) == r.local = 0 \/ r.expiry <= now

\* A slot mctp_alloc_tag may take: unused, or its tag has expired.
IsSpare(r) == r.local = 0 \/ r.expiry < now

Live(i) == ~IsSpare(req_tags[i])

\* The slot it does take, the last one of the scan.
TakenSlot(i) == ~Live(i) /\ \A j \in TagSlots : j > i => Live(j)

\* (Faulty variant: the endpoints of the pair are swapped.)
UsedSwapped(local, remote) ==
  {req_tags[i].tag : i \in {j \in TagSlots : /\ Live(j)
                                             /\ req_tags[j].local = remote
                                             /\ req_tags[j].remote = local}}

Used(local, remote) ==
  {req_tags[i].tag : i \in {j \in TagSlots : /\ Live(j)
                                             /\ req_tags[j].local = local
                                             /\ req_tags[j].remote = remote}}

Rotated(t) == (t + tag_round_robin) % NumTags

\* The first tag, from tag_round_robin on, that the pair does not use.
FirstFree(tag, used) ==
  \E t \in Tags : /\ tag = Rotated(t)
                  /\ tag \notin used
                  /\ \A s \in Tags : s < t => Rotated(s) \in used

TakeTag(i, tag, remote) ==
  /\ TakenSlot(i)
  /\ FirstFree(tag, Used(bus_eid, remote))
  /\ last_tag' = tag
  /\ req_tags' = [req_tags EXCEPT ![i] =
       [local |-> bus_eid, remote |-> remote, tag |-> tag,
        expiry |-> now + TagTimeout, at |-> now]]

\* (Faulty variants: tag_round_robin does not wrap, or is not advanced.)
AllocNoWrap(i, tag, remote) ==
  TakeTag(i, tag, remote) /\ tag_round_robin' = tag + 1
AllocNoAdvance(i, tag, remote) ==
  TakeTag(i, tag, remote) /\ UNCHANGED tag_round_robin

\* mctp_alloc_tag succeeds with tag in slot i.
mctp_alloc_tag(i, tag, remote) ==
  /\ TakeTag(i, tag, remote)
  /\ tag_round_robin' = (tag + 1) % NumTags

\* The tag stays allocated whatever mctp_message_tx_alloced then returns; with
\* no spare slot, or every tag of the pair in use, the request is refused
\* (-EBUSY) and nothing changes.
mctp_message_tx_request(remote) ==
  /\ \E i \in TagSlots, tag \in Tags : mctp_alloc_tag(i, tag, remote)
  /\ UNCHANGED <<now, bus_eid>>

Matches(r, local, remote, tag) ==
  r.local = local /\ r.remote = remote /\ r.tag = tag

\* The first slot that matches is cleared, expired or not.
mctp_dealloc_tag(local, remote, tag) ==
  \/ /\ local # 0
     /\ \E i \in TagSlots :
          /\ Matches(req_tags[i], local, remote, tag)
          /\ \A j \in TagSlots : j < i => ~Matches(req_tags[j], local, remote, tag)
          /\ req_tags' = [req_tags EXCEPT ![i] = SpareTag]
  \/ /\ \/ local = 0
        \/ \A i \in TagSlots : ~Matches(req_tags[i], local, remote, tag)
     /\ UNCHANGED req_tags

\* mctp_rx of a message without the tag owner bit, sent to the bus EID, the
\* null EID or the broadcast EID.
RxResponse(dest, remote, tag) ==
  /\ dest \in {bus_eid, 0, 255}
  /\ mctp_dealloc_tag(dest, remote, tag)
  /\ UNCHANGED <<tag_round_robin, now, bus_eid, last_tag>>

\* mctp_bus_set_eid.
SetEid(e) ==
  /\ e >= 8 /\ e # 255
  /\ bus_eid' = e
  /\ UNCHANGED <<req_tags, tag_round_robin, now, last_tag>>

\* Time passes; the clock never goes back.
Tick ==
  /\ now < MaxTime
  /\ now' = now + 1
  /\ UNCHANGED <<req_tags, tag_round_robin, bus_eid, last_tag>>

TagsInit ==
  /\ req_tags = [i \in TagSlots |-> SpareTag]
  /\ tag_round_robin = 0
  /\ now = 0
  /\ bus_eid \in Locals
  /\ last_tag = NumTags

TagsNext ==
  \/ \E remote \in Remotes : mctp_message_tx_request(remote)
  \/ \E dest \in Locals \cup {0, 255}, remote \in Remotes, tag \in Tags :
       RxResponse(dest, remote, tag)
  \/ \E e \in Locals : SetEid(e)
  \/ Tick

TagsSpec == TagsInit /\ [][TagsNext]_tagsVars
-----------------------------------------------------------------------------
\* Every variable holds a value of its type.
TagTypes ==
  /\ req_tags \in [TagSlots -> [local : Nat, remote : Nat, tag : Tags,
                                expiry : Nat, at : Nat]]
  /\ tag_round_robin \in Tags
  /\ now \in Nat
  /\ bus_eid \in Locals
  /\ last_tag \in 0..NumTags

\* Slot i was given to a request that has neither been answered nor waited
\* longer than the timeout.
Waiting(i) == req_tags[i].local # 0 /\ now <= req_tags[i].at + TagTimeout

SamePair(r, s) == r.local = s.local /\ r.remote = s.remote

\* mctp_alloc_tag never gives one pair of endpoints the same tag twice while
\* the first request still waits: a response in time has one request it can
\* belong to.
WaitingTagsUnique ==
  \A i, j \in TagSlots :
    Waiting(i) /\ Waiting(j) /\ SamePair(req_tags[i], req_tags[j])
               /\ req_tags[i].tag = req_tags[j].tag => i = j

\* The slot of a request that still waits is left alone or cleared; no other
\* request takes it over and no EID change alters it, up to and including the
\* last millisecond of the timeout.  (Which messages clear it is the subject of
\* ReleasedByOwnAnswer in MctpConversation.)
WaitingTagsKept ==
  [][\A i \in TagSlots : Waiting(i) => req_tags'[i] \in {req_tags[i], SpareTag}]_tagsVars

\* tag_round_robin: the tag handed out last is handed out again only to a pair
\* that waits on all the others, so that a late answer seldom meets a new
\* request with its tag.
LastTagNotReused ==
  [][\A i \in TagSlots :
       LET r == req_tags'[i] IN
       r # req_tags[i] /\ r.local # 0 /\ r.tag = last_tag =>
         \A t \in Tags \ {r.tag} :
           \E j \in TagSlots : /\ Waiting(j) /\ req_tags[j].tag = t
                               /\ SamePair(req_tags[j], r)]_tagsVars

=============================================================================
