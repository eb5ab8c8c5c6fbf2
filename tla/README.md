# TLA+ models of libmctp with the MMBI binding

libmctp implements the MCTP base protocol: it cuts messages into packets, puts
packets together again, pairs requests with responses, answers control requests
and can bridge two busses. This version adds a binding for the memory-mapped BMC
interface (MMBI) on Windows, and a kernel driver that simulates the hardware with
two ring buffers. Paths below are those of the repository.

## The system

| Part | Code | Model |
|---|---|---|
| Reassembly: `mctp_bus_rx` and 16 contexts | `src/core.c` | `MctpReassembly` |
| Transmission: one pending message per bus, bus states, send queue | `src/core.c` | `MctpTx` |
| Request tags: allocation, expiry, release by responses | `src/core.c` | `MctpTags` |
| Two endpoints and the link between them, packet by packet | `src/core.c` | `MctpTransfer` (composition), `MessageChannel` (what it promises) |
| Control commands and the list of message types | `src/control.c` | `MctpControl` |
| Routing of whole messages: a requester and a responder | `src/core.c`, `src/control.c` | `MctpConversation` (composition of `MctpTags` and `MctpControl`) |
| Bridge: two busses, forwarding | `src/core.c` | `MctpBridge` (with the reassembly of `MctpReassembly`) |
| Kernel driver: two rings, read and write requests | `windows_driver/MmbiDriver.c` | `MmbiDriver`, `BoundedFifo` (what a ring promises) |
| MMBI binding over the driver: repeated writes, reads without boundaries | `src/mmbi.c` | `MmbiStream` (over `BoundedFifo`) |
| MMBI send and poll with their lock, over pipes | `src/mmbi.c` | `MmbiPipe` |
| Life cycle of contexts | `src/mmbi.c`, `src/transport.c` | `MmbiContext` |

An application gives a message to `mctp_message_tx`. The core takes it if no
other is pending and passes packets to the binding. The MMBI binding writes each
to a pipe or to the driver. On the other side a thread polls, hands packets to
`mctp_bus_rx`, and complete messages go through `mctp_rx` to the control handler,
to the application's callback, which may send in turn, or, in a bridge, to the
other bus.

`PROJECT.json` maps each definition to its lines of source and lists the hazards.
A definition whose comment calls it a faulty variant is a plausible mistake in
the code. No specification uses it: each stands in for the definition after it
when we check that a property can fail.

## Models

**MctpReassembly.** The state is the table of contexts, the bus EID and
`max_message_size`. One action per path of `mctp_bus_rx`; the failure of an
allocation is a choice. A packet is its header fields and size; a buffer is the
sequence of packets copied into it, so the model shows where every byte came
from. `rx` is the message the step gave to `mctp_rx`. The route policy is that of
an endpoint.

**MctpTags.** The table, the round robin counter, the clock and the bus EID. A
response may arrive at any time, from any peer, with any tag: lost, late and
repeated responses are all included. The fields `at` and `last_tag` are history.

**MctpTx.** One bus from registration to destruction. An iteration of
`mctp_send_tx_queue` is one step, by what `binding->tx` returns. `sending` says
that control is in the loop; in between only calls that a binding makes from its
`tx` function happen. A binding that enables transmission from inside `tx` is not
modelled. `wire`, `given`, `frees`, `spoilt` and `abandoned` are history.

**MctpTransfer.** `MctpTx` of one endpoint, which the module extends, and
`MctpReassembly` of the other, joined by a FIFO link that may lose packets.
`MaxLost` bounds the losses on the link, in a failing binding and for want of
memory together. The sender's bus is registered and enabled from the start.

**MctpControl.** The handler as `mctp_rx` calls it: one operator per command, with
its length and data checks in the order of the code, and the replies that fail for
want of memory or on a busy bus. The table of protocol versions is constant and is
left out. `supported` is history, and so is the request a response carries.

**MctpConversation.** A requester with its tag table and a responder with the
control handler, whose application also sends messages of its own and changes the
list of types. Messages are whole. Both directions keep their order, lose
messages and take any time, so a tag may expire while its answer is under way.

**MctpBridge.** Both busses, their bindings and their pending messages; packets
arrive in the order of their peer or are lost. `mctp_send_tx_queue` runs within
the step that calls it, with the number of packets the binding takes as a choice.
A context that is freed on a bridged bus ends the process, since
`mctp_msg_ctx_drop` follows a pointer `mctp_bridge_busses` does not set; `crashed`
records it, and nothing happens after. It is so at the end of a message of several
packets, when one is dropped half-way (`Drops`), and for a start packet that does
not fit its new context (`DropsNew`).

**MmbiDriver.** Each request handler runs under the global spin lock and is one
step. `CopyIn` and `CopyOut` are `RtlCopyMemory`.

**MmbiStream.** One direction of the binding over a ring of the driver. A step is
one attempt of `mctp_mmbi_tx`, which writes the packet from its first byte, or one
poll. The ring is the queue of `BoundedFifo`, which `MmbiDriver` is shown to
implement, so the two modules together cover binding and driver. Sender and reader
take their steps in any order: nothing in the code makes one wait for the other.

**MmbiPipe.** Two processes with a sending and a polling thread each. A step is
what a thread does between two points where it can block: the critical section,
`WriteFile`, `ReadFile`. A pipe holds a bounded number of packets, and a process
may exit at any time. Windows may serialise the calls on one synchronous handle;
that would only add waiting, and is left out. One thread polls in each process.

**MmbiContext.** Several calls of `mctp_mmbi_context_init` or
`mctp_transport_init` in one process, each with its attempts to open the device,
and any allocation may fail. `heap` has the blocks of each context that are in use,
with the packet buffer of every poll. Assertions are
compiled in, as in the Debug build of `build.bat`: the one on `tx_storage` in
`mctp_register_bus` ends the process. In a build without assertions a context
could be returned without packet storage at that point.

## Runs

Each row is a run of `PROJECT.json` with its configuration `MC*.cfg`.

| Run | Checks | States |
|---|---|---|
| `reassembly` | contexts hold consecutive packets of one key; only whole runs of packets are delivered; a packet changes, frees or takes over no context in use for another key, also when contexts run out | 10,492 |
| `tags` | waiting requests of a pair have different tags and keep them to the end of the timeout; round robin | 328,532 |
| `tx` | every message is freed once, pending, or abandoned by an unregistration; order and sequence numbers on the wire; a last packet means a whole message; with a binding that toggles, a pending message is released | 173,548 |
| `transfer` | refinement of `MessageChannel`, delivery, and containment of a loss | 39,290 |
| `conversation` | an answer says what is so of the responder; it releases the tag of its own request and of no other; the list of types is right | 610,606 |
| `bridge` | messages are forwarded in order and every one has a known fate; none is put together from packets of both busses | 179,370 |
| `driver` | indices, and refinement of `BoundedFifo` by both rings | 401,956 |
| `stream` | `mctp_mmbi_tx` reports success exactly when the packet is in the stream in one piece; no packet goes up twice, out of order or after an error; a poll hands up just one packet if and only if the ring held nothing else | 4,086 |
| `pipe` | packets are polled once and in order; the lock serialises senders; every send returns and everything written is polled | 34,534 |
| `context` | a context that is returned works; a failed init leaves no memory in use, and a destroyed context exactly what is listed; init returns | 145,128 |

Two runs show where the code and a comment or header disagree:

| Run | What it shows |
|---|---|
| `tx_mmbi` | After a failed packet the rest of a message stays pending. The MMBI binding never restarts the queue, so every later send gets `-EBUSY`. |
| `pipe_full_duplex` | Both sides wait in `WriteFile` with their lock held, and both pollers wait for the locks. |

### Bounds

- `reassembly`: two contexts and three keys, so contexts run out; all sequence
  numbers of one key; payloads of 0 to 2 bytes against maximum sizes of 2 and 3, so messages
  fit exactly and overflow.
- `tags`: three slots, two tags, a timeout of 2 and a clock up to 5: tags run out
  in one pair, slots run out across pairs, and tags expire and are allocated again.
- `tx`: messages of five packets (sequence numbers wrap), one full packet and no
  byte, and one whose tag is too large (`Mistagged`); two registrations.
- `transfer`: two messages of three packets with one tag and two single packets
  between them, the least that makes sequence numbers meet. One packet is lost at
  most.
- `conversation`: two slots and two tags, a timeout of 1 and a clock up to 2, three
  requests, two calls of the responder's application and a list of two types. So
  tags run out, expire with an answer under way and are given to another request.
- `bridge`: payloads of 4 and 2 bytes, so that one side cuts again what the other
  put together. Five packets on each side, among them empty, single and restarted
  messages, a broadcast source and a start packet over `max_message_size`. Messages of several packets have one destination and tag on
  both sides and different sources; two contexts.
- `driver`: rings of three bytes, writes of 0, 2 and 4, reads of 1 and 4: every
  wrap, partial, full and empty case. The proofs cover all sizes.
- `stream`: a ring of four bytes, packets of up to three, a header of one, three
  attempts and seven packets: packets merge, are cut, and are repeated.
- `pipe`: messages of two packets, two sends of each side and answers from the
  BMC's callback. The pipe to the BMC holds one packet, less than a message; the
  other holds all the BMC writes. In `pipe_full_duplex` both are small.
- `context`: two instances, three calls, three attempts to open, two packets.

Deadlock is not checked where the system may stop: callers have a finite number
of messages, and a destroyed instance or an exited process does nothing.

### Fairness

- `MctpTx`, `MctpTransfer`: the send queue runs on once entered (the code loops).
  A binding that was busy disables and enables transmission again, and is not
  busy for ever: the contract of asynchronous bindings. `tx_mmbi` has no toggling,
  as `src/mmbi.c` has none. The receiver polls for ever.
- `MmbiPipe`: weak fairness of each thread: one that can go on does.
- `MmbiContext`: weak fairness of the thread in an init function, which only
  sleeps between attempts and counts them.

## Proofs

TLAPS checks all proofs without further assumptions than the named `ASSUME`s of
the models: types of the constants, a ring of at least one byte that holds a
packet, at least one tag, EIDs of endpoints other than the null EID, a bound of
registrations that allows the one a transfer starts with. One is about
the environment: the packets a bridge is given are told apart
(`InboundAssumption`). It restricts no traffic: a packet is a record that may have
further fields, such as a number, and no step reads those or compares packets.
TLC evaluates each assumption on the run of its model. A proof module extends the
modules it is about, so these have different names for what they all have: `TagsInit`,
`TransferInit` and `PipeInit`, say, and `SetEid` for `mctp_bus_set_eid` in `MctpTags`.

- **MctpTablesProofs**, the tables of `src/core.c`. Of `MctpReassembly`: `TypeOK`,
  `OneContextPerKey`, `ContextsWellFormed` and `DeliveredWellFormed` for any number
  of contexts, packets and sizes. Their conjunction is inductive: what is delivered is well-formed because the context
  was, and appending to a context keeps it so because the sequence, size and
  capacity checks relate the new packet to the last. Unique keys make the first
  match of the lookup the only one. `ContextsAreNotStolen` and `OnlyOwnContext`
  follow by lemmas that each path of `mctp_bus_rx` writes one context at most, which
  is free or in use for the key of its packet.
  Of `MctpTags`: `TagTypes`, `WaitingTagsUnique`, `WaitingTagsKept` and
  `LastTagNotReused` for any number of slots, tags and endpoints and any timeout.
  The strengthening says that the expiry of a slot is the time of its request plus
  the timeout; so the slots `mctp_alloc_tag` sees in use are those of waiting
  requests. For the last property it also says that the round robin counter is one
  after the last tag (`AfterLast`), so that tag is the last one tried.
- **MctpTransferProofs**: all invariants of `MctpTx`, for any messages, packet sizes
  and calls, and the lemmas on `MctpTransfer` the next two modules share. For
  `TypeOK` and `Accounted` the inductive invariant `BusInv` adds that the send loop
  runs only on a registered bus and that the position stays within the message. For
  `WireOrder`, `EndMeansWhole` and `PositionMatchesWire`, `WireInv` ties the last
  packet on the wire to the state of the bus: a pending message goes on at the byte
  and sequence number after it, and a message at its beginning has nothing on the
  wire. `ReceiveOutcome` says what `mctp_bus_rx` makes of a packet of this sender: it
  is not taken, goes up alone, opens, extends or completes the one context of its
  tag, or has it freed. `LinkInv` and `ReceiverInv` carry this through every step.
  `At(k)` is the k-th place of the stream, a packet on the wire or what the sender
  sends next.
- **MctpLossProofs**: `LossIsContained`, for any number of losses and any messages of
  at most `max_message_size` bytes (`MessagesFit`; larger ones are dropped without a
  loss). `LossInv` counts: every message that was taken was delivered, is paid for by
  a lost packet, or is awaited. A message is awaited while none of its packets failed,
  some are still to come, and the receiver is ready for the next: its context has the
  sequence number, size and bytes before it (`Ready`). Each step takes at most one
  message from the awaited ones, and then one packet is lost or one message
  delivered. When all is read none is awaited.
- **MctpChannelProofs**: `ImplementsChannel`, the refinement of `MessageChannel`, for
  at most one loss, any messages and any sizes. `PhaseInv` has three phases. Nothing
  is lost and every context in use waits for the very next packet (`Live`); or a
  packet failed in the sender and the gap is still ahead on the link; or the loss is
  behind, and a context in use is `Live` or left over (`Gone`): what comes next is two
  after its last packet, a start, or of another tag. In none of these cases does a
  packet that passes the checks belong to another message. `OrderInv` says that
  messages leave in the order they were taken and nothing of one after its end,
  `DeliveredInv` that the end of what went up has been read; so a delivery lies
  behind all earlier ones.
- **MctpConversationProofs**: all properties of `MctpConversation`, for any table,
  number of tags, timeout, limit of the list and series of requests. None of the
  four is inductive. `ConversationInv` follows a request on its whole way. The
  numbers of requests grow along both queues, and what is on its way back is older
  than what is on its way there (`IdsOK`); so a later change of the EID is a change
  by a later request, and no message is answered twice. `AnswerOK` is the claim of
  one response. A slot that belongs to a request in flight has its addresses, tag
  and time, and while no message has released the tag of another request, every
  request in flight has its slot until the timeout (`OwnersOK`). So an answer in
  time meets its own slot, and since the tags in use of one pair differ (`TagsOK`),
  no other that waits.
- **MctpBridgeProofs**: all properties of `MctpBridge`, for any packets, packet
  sizes, number of contexts and bindings. `BridgeInv` states for each bus, of the
  messages that were received for it, that what left is in order (`InOrder`), that
  the pending message is one of them and goes on after the last packet on the
  wire (`PendingOK`), and that each has one fate (`FatesOK`). That a
  step on one bus leaves the fates of the other alone needs `HistoryOK`: every
  message ends with a packet that arrived on its bus, so no message is received
  twice or on both. `PutTogetherOnOneBus` has an invariant of its own over the shared
  contexts: the packets of a context whose key only one bus brings came on that bus,
  in order and before the next to arrive. A packet that is added has the key of the
  context, so it came on the same bus and after them.
- **MmbiDriverProofs**: `TypeOK`, `IndicesAgree` and `RingsAreFifos`, the
  refinement of `BoundedFifo`, for every ring size and requests of any length. The
  argument goes through lemmas that a write appends to the contents of a ring and
  a read removes from the front, on both sides of the wrap.
- **MmbiBindingProofs**: the safety of `MmbiStream`, `MmbiContext` and `MmbiPipe`.
  `OutcomeIsTrue`, `HandedOnce` and `WholeIfAlone` hold for every ring, packet size
  and number of attempts. For the first, the invariant says that the last byte of a
  packet is in the stream only if the packet was reported sent (`EndIsSent`): an
  attempt that is repeated has left a part that stops before it. For the second it
  follows these last bytes: in what was handed up, and after it in the ring, each is
  of a packet reported sent and they are in the order of the packets (`HandedEnds`,
  `RingEnds`); a packet that is handed up whole brings its last byte. The third
  follows from the length of a read, which no packet exceeds. `ReadyIsUsable` and
  `OnlyTheseAreLeft` hold for any number of contexts, attempts and packets; their
  invariant describes the blocks held at each point of an init function.
  Of `MmbiPipe`, `TypeOK`, `PollInOrder` and `BusyOnlyAfterFailure` hold for any
  capacities and message lengths. The invariant `PipeInv` says which thread holds
  the lock at which point, and that packets remain on the bus outside a send only
  after a failed write.

Only model-checked is liveness (`PendingIsReleased`, `EventuallyDelivered`,
`SendReturns`, `EverythingPolled`, `InitReturns`), which is outside the reach of
the prover. Every other property of a passing run is stated by a theorem.

## Known deviations

What the models show of the code besides the two runs above. The properties name
these cases as exceptions.

- `mctp_dealloc_tag` may clear an expired slot with the same key and leave the tag
  of the waiting request in use (`AnswerReleasesTag`).
- A message pending when its bus is unregistered is never freed (`abandoned` in
  `Accounted`).
- After two lost packets the two-bit sequence numbers can meet, and parts of two
  messages are delivered as one: `ImplementsChannel` fails with `MaxLost = 2`.
- The answer to a Set Endpoint ID comes from the new EID, and an answer to the null
  EID from the responder's. Neither releases the tag of its request, and a plain
  send of the MMBI binding, which has tag 0, may release one (`Foreign`).
- A Set Endpoint ID that finds no memory for its response has set the EID.
- A context that is freed on a bridged bus ends the process (`MctpBridge`).
- Two messages of one key that reach a bridge on different busses share a context
  and may be mixed (`OnOneBus` in `PutTogetherOnOneBus`).
- "Read exactly one packet at a time to prevent merging" (`src/mmbi.c:196`) is so over
  the driver only when the packet is alone in the ring: otherwise `mctp_mmbi_poll`
  hands up packets merged or cut, or loses what is too long for a packet buffer
  (`WholeIfAlone`).
- A destroyed context leaves its packet storage, the buffers of all packets it has
  polled, a pending message and the open device handle; a failed
  `mctp_transport_init` may leave a handle, too (`OnlyTheseAreLeft`). The headers say
  "free resources" (`mctp_transport.h:29`) and, of the packet given to `mctp_bus_rx`,
  "free()-ing it after use" (`libmctp.h:213`).

## Not modelled

- The memory-mapped path of `src/mmbi.c` (`mctp_mmbi_init_mem`,
  `mctp_mmbi_rx` and the branch of `mctp_mmbi_tx` without a device). It is sequential, without a protocol between
  the two sides. By reading: `mctp_pktbuf_alloc(len)` already sets `end`, and the
  push that follows appends behind it, so the header read is zero and the packet is
  dropped though the call returns 0; a packet of more than half the buffer is
  refused.
- Packet buffers beyond their sizes: `mctp_pktbuf_pop`, `mctp_pktbuf_alloc_start` and
  `mctp_pktbuf_alloc_end` are not called by the modelled code. That the packet
  buffers of `mctp_mmbi_poll` are not freed is in `MmbiContext`.
- Allocation hooks and logging: no state the properties depend on. Failing
  allocations are choices in the models.
- The table of protocol versions, the setters of callbacks, and the creation of the
  device in the driver: assignments at start.
- Two threads that poll in one process (they would share the static buffer of
  `mctp_mmbi_poll`) and a binding that enables transmission from inside `tx`: no
  caller in the repository does so.
- A context destroyed while another thread uses it, against which the code takes no
  measure. `tests/test_mmbi_full_duplex.c:164-169` allows it: the test waits two
  seconds at most for its polling thread and then destroys, whether the thread has
  ended or not.
- Builds without assertions.
