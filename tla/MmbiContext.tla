----------------------------- MODULE MmbiContext -----------------------------
(***************************************************************************)
(* The life of the contexts of a process: mctp_mmbi_context_init and       *)
(* _destroy (src/mmbi.c) and mctp_transport_init and _destroy              *)
(* (src/transport.c), with what sending and polling leave behind.  All     *)
(* contexts open one device, which gives each of its instances to one      *)
(* handle; its server may be slow to offer them.                           *)
(*                                                                         *)
(* heap has the blocks in use, by the context they were allocated for; a   *)
(* block is its kind and a number, which tells packet buffers apart and is *)
(* 0 for the others.  Any allocation may fail.                             *)
(***************************************************************************)
EXTENDS Naturals

CONSTANTS
  Contexts,      \* the calls of an init function
  MaxOpens,      \* retries in mctp_mmbi_context_init, 5
  MaxInstances,  \* bound on the instances of the device
  MaxPackets     \* bound on the packets a context polls

Apis == {"mmbi", "transport"}

ASSUME ContextAssumption ==
  MaxOpens \in Nat \ {0} /\ MaxInstances \in Nat /\ MaxPackets \in Nat

VARIABLES
  phase,         \* context -> "none", "opening", "ready", "null" or "destroyed"
  api,           \* context -> whose init function was called
  attempts,      \* context -> attempts to open the device that are left
  device_handle, \* context -> whether mmbi->device_handle is set
  handles,       \* context -> handles it has open
  heap,          \* context -> its blocks in use
  packets,       \* context -> packet buffers its polls have allocated so far
  offered,       \* instances of the device that wait for a client
  instances,     \* instances of the device so far
  aborted        \* an assertion has ended the process

contextVars == <<phase, api, attempts, device_handle, handles, heap, packets, offered,
          instances, aborted>>

Blocks(kinds) == kinds \X {0}
PacketBuffers(numbers) == {"packet"} \X numbers
Structs == {"ctx", "mctp", "mmbi"}

-----------------------------------------------------------------------------
Allocate(c, blocks) == [heap EXCEPT ![c] = @ \cup blocks]

\* (Faulty variant for mutation checks: mctp_destroy is left out.)
FreeAllButMctp(c) == [heap EXCEPT ![c] = @ \ Blocks({"ctx", "mmbi"})]

\* mctp_mmbi_destroy and mctp_destroy, which is the same after an error and at the
\* end: neither CloseHandle nor the packet storage is among it, and mctp_cleanup,
\* after mctp_unregister_bus, finds no bus whose message to free.
FreeContext(c) == [heap EXCEPT ![c] = @ \ Blocks(Structs \cup {"reassembly"})]

\* Up to the first attempt to open the device.  Without memory for one of the three
\* structures those before it are freed.
Begin(c) ==
  /\ ~aborted /\ phase[c] = "none"
  /\ \/ phase' = [phase EXCEPT ![c] = "null"] /\ UNCHANGED <<attempts, heap>>
     \/ /\ phase' = [phase EXCEPT ![c] = "opening"]
        /\ attempts' = [attempts EXCEPT ![c] = IF api[c] = "mmbi" THEN MaxOpens ELSE 1]
        /\ heap' = [heap EXCEPT ![c] = Blocks(Structs)]
  /\ UNCHANGED <<api, device_handle, handles, packets, offered, instances, aborted>>

\* mctp_mmbi_init_device cannot open the device: there is no instance to be had, or
\* CreateFile fails for another reason.
OpenFails(rc) ==
  /\ rc = "error"
  /\ UNCHANGED <<device_handle, handles, offered>>

\* It opens the device, and then finds memory for the packet storage or not.  A
\* handle that an earlier attempt has set is forgotten.
Opens(c, rc) ==
  /\ rc # "error" /\ offered > 0
  /\ offered' = offered - 1
  /\ handles' = [handles EXCEPT ![c] = @ + 1]
  /\ device_handle' = [device_handle EXCEPT ![c] = TRUE]

\* (Faulty variant: the init functions look at neither.)
FinishAnyway(c, rc) ==
  /\ phase' = [phase EXCEPT ![c] = "ready"]
  /\ heap' = IF rc = "ok" THEN Allocate(c, Blocks({"tx_storage"})) ELSE heap
  /\ UNCHANGED aborted

\* mctp_mmbi_context_init looks at the handle, mctp_transport_init at what
\* mctp_mmbi_init_device returned.
Failed(c, rc) == IF api[c] = "mmbi" THEN ~device_handle'[c] ELSE rc # "ok"

\* The rest of an init function.  mctp_register_bus asserts that there is packet
\* storage, which mctp_mmbi_init_device allocates last.
Finish(c, rc) ==
  \/ /\ Failed(c, rc)
     /\ phase' = [phase EXCEPT ![c] = "null"]
     /\ heap' = FreeContext(c)
     /\ UNCHANGED aborted
  \/ /\ ~Failed(c, rc) /\ rc = "ok"
     /\ phase' = [phase EXCEPT ![c] = "ready"]
     /\ heap' = Allocate(c, Blocks({"tx_storage"}))
     /\ UNCHANGED aborted
  \/ /\ ~Failed(c, rc) /\ rc # "ok"
     /\ aborted' = TRUE
     /\ UNCHANGED <<phase, heap>>

\* (Faulty variant: the attempts are not counted.)
TryForEver(c) ==
  /\ ~aborted /\ phase[c] = "opening"
  /\ \E rc \in {"ok", "ENOMEM", "error"} :
       /\ OpenFails(rc) \/ Opens(c, rc)
       /\ IF rc = "ok" THEN Finish(c, rc) ELSE UNCHANGED <<phase, heap, aborted>>
  /\ UNCHANGED <<api, attempts, packets, instances>>

mctp_mmbi_init_device(c) ==
  /\ ~aborted /\ phase[c] = "opening"
  /\ attempts' = [attempts EXCEPT ![c] = @ - 1]
  /\ \E rc \in {"ok", "ENOMEM", "error"} :
       /\ OpenFails(rc) \/ Opens(c, rc)
       /\ IF rc = "ok" \/ attempts[c] = 1
            THEN Finish(c, rc)
            ELSE UNCHANGED <<phase, heap, aborted>>
  /\ UNCHANGED <<api, packets, instances>>

\* A send whose binding fails leaves the rest of the message with the bus; any
\* other frees the message, also one that finds such a rest.
Send(c) ==
  /\ ~aborted /\ phase[c] = "ready"
  /\ heap' = Allocate(c, Blocks({"message"}))
  /\ UNCHANGED <<phase, api, attempts, device_handle, handles, packets, offered,
                 instances, aborted>>

\* mctp_mmbi_poll allocates a packet buffer, which neither it nor mctp_bus_rx frees;
\* the packet may begin or end a message in reassembly.
Poll(c) ==
  /\ ~aborted /\ phase[c] = "ready" /\ packets[c] < MaxPackets
  /\ packets' = [packets EXCEPT ![c] = @ + 1]
  /\ \E kept \in {heap[c], heap[c] \cup Blocks({"reassembly"}),
                   heap[c] \ Blocks({"reassembly"})} :
       heap' = [heap EXCEPT ![c] = kept \cup PacketBuffers({packets[c] + 1})]
  /\ UNCHANGED <<phase, api, attempts, device_handle, handles, offered, instances,
                 aborted>>

Destroy(c) ==
  /\ ~aborted /\ phase[c] = "ready"
  /\ phase' = [phase EXCEPT ![c] = "destroyed"]
  /\ heap' = FreeContext(c)
  /\ UNCHANGED <<api, attempts, device_handle, handles, packets, offered, instances,
                 aborted>>

\* The server of the device offers one more instance.
Offer ==
  /\ instances < MaxInstances
  /\ instances' = instances + 1
  /\ offered' = offered + 1
  /\ UNCHANGED <<phase, api, attempts, device_handle, handles, heap, packets, aborted>>

ContextInit ==
  /\ phase = [c \in Contexts |-> "none"]
  /\ api \in [Contexts -> Apis]
  /\ attempts = [c \in Contexts |-> 0] /\ handles = attempts /\ packets = attempts
  /\ device_handle = [c \in Contexts |-> FALSE]
  /\ heap = [c \in Contexts |-> {}]
  /\ offered = 0 /\ instances = 0 /\ aborted = FALSE

ContextNext ==
  \/ \E c \in Contexts : \/ Begin(c) \/ mctp_mmbi_init_device(c)
                         \/ Send(c) \/ Poll(c) \/ Destroy(c)
  \/ Offer

\* The thread that called an init function goes on.
ContextSpec ==
  /\ ContextInit /\ [][ContextNext]_contextVars
  /\ \A c \in Contexts : WF_contextVars(mctp_mmbi_init_device(c))

-----------------------------------------------------------------------------
\* A context that an init function returned can be used: its structures and packet
\* storage exist and its device is open, however many attempts that took and
\* whichever of them failed half-way.
ReadyIsUsable ==
  \A c \in Contexts : phase[c] = "ready" =>
    /\ Blocks(Structs \cup {"tx_storage"}) \subseteq heap[c]
    /\ device_handle[c] /\ handles[c] > 0

\* What a context leaves behind, exactly.  An init function that returns NULL leaves
\* no block; mctp_transport_init may leave a handle, mctp_mmbi_context_init does not.
\* A destroyed context leaves its packet storage, the buffer of every packet it has
\* polled, the message that was pending if there was one, and the open device: what
\* "free resources" (mctp_transport.h:29) and "free()-ing it after use"
\* (libmctp.h:213, of the packet) do not cover.
OnlyTheseAreLeft ==
  \A c \in Contexts :
    /\ phase[c] = "null" => heap[c] = {} /\ (handles[c] > 0 => api[c] = "transport")
    /\ phase[c] = "destroyed" =>
         /\ heap[c] \ Blocks({"message"}) =
              Blocks({"tx_storage"}) \cup PacketBuffers(1 .. packets[c])
         /\ handles[c] > 0

\* An init function returns, whether the device appears or not, unless the
\* assertion in mctp_register_bus ends the process.
InitReturns ==
  \A c \in Contexts : (phase[c] = "opening") ~> (phase[c] # "opening" \/ aborted)

=============================================================================
