------------------------------ MODULE MmbiPipe ------------------------------
(***************************************************************************)
(* Two processes that use the MMBI binding's context interface (mmbi.c)    *)
(* over named pipes, each with a thread that sends and a thread that       *)
(* polls.  A process has one critical section, which mctp_mmbi_send holds  *)
(* while it writes packets and mctp_mmbi_poll holds while it hands a       *)
(* packet to the core; the receive callback may send in turn, under the    *)
(* lock the poller already holds.  A step is what a thread does between    *)
(* two points where it can block: the lock, WriteFile and ReadFile.        *)
(*                                                                         *)
(* A packet is who sent it, of which message it is and which packet of     *)
(* that message.  Reassembly and packet contents are in MctpTransfer.      *)
(***************************************************************************)
EXTENDS Naturals, Sequences

CONSTANTS
  Packets,      \* packets of a message
  Capacity,     \* end -> packets the pipe to it holds before WriteFile blocks
  MaxSends,     \* end -> messages its application sends
  Answering,    \* the ends whose callback answers every message with a message
  MaxMessages,  \* bound on the messages of an end, answers included
  Exits         \* the ends whose process may exit

Ends == {"host", "bmc"}
Peer(e) == IF e = "host" THEN "bmc" ELSE "host"
Threads == {"sender", "poller"}

ASSUME PipeAssumption ==
  /\ Packets \in Nat \ {0} /\ MaxMessages \in Nat
  /\ Capacity \in [Ends -> Nat \ {0}]
  /\ MaxSends \in [Ends -> Nat]
  /\ Answering \subseteq Ends /\ Exits \subseteq Ends

VARIABLES
  pc,        \* end -> thread -> what the thread is doing
  lock,      \* end -> the thread in the critical section, or "free"
  tx_left,   \* end -> packets of bus->tx_msg not yet taken, 0 without tx_msg
  rx_buf,    \* end -> mctp_mmbi_poll's static buffer: a packet, <<>> at first
  pipe,      \* end -> the packets on their way to it
  alive,     \* end -> whether its process still runs
  sends,     \* end -> messages its application has sent so far
  messages,  \* end -> messages taken by the bus so far
  returned,  \* end -> what the last mctp_message_tx returned
  written,   \* history: end -> the packets it wrote
  polled,    \* history: end -> the packets it took from rx_buf
  failed     \* history: end -> whether a WriteFile of it failed for good

pipeVars == <<pc, lock, tx_left, rx_buf, pipe, alive, sends, messages, returned,
          written, polled, failed>>

Packet == [msg : 1..MaxMessages, k : 1..Packets]

-----------------------------------------------------------------------------
\* mctp_message_tx in thread t, which is in the critical section: the message is
\* copied and given to the bus.  A return leaves the critical section.
Returns(e, t) ==
  /\ pc' = [pc EXCEPT ![e][t] = "idle"]
  /\ lock' = [lock EXCEPT ![e] = "free"]

\* (Faulty variant for mutation checks: one packet too many.)
MessageTakenLong(e, t) ==
  /\ tx_left[e] = 0
  /\ messages[e] < MaxMessages
  /\ tx_left' = [tx_left EXCEPT ![e] = Packets + 1]
  /\ messages' = [messages EXCEPT ![e] = @ + 1]
  /\ pc' = [pc EXCEPT ![e][t] = "write"]
  /\ lock' = [lock EXCEPT ![e] = t]
  /\ UNCHANGED returned

MessageTaken(e, t) ==
  /\ tx_left[e] = 0
  /\ messages[e] < MaxMessages
  /\ tx_left' = [tx_left EXCEPT ![e] = Packets]
  /\ messages' = [messages EXCEPT ![e] = @ + 1]
  /\ pc' = [pc EXCEPT ![e][t] = "write"]
  /\ lock' = [lock EXCEPT ![e] = t]
  /\ UNCHANGED returned

MessageRefused(e, t) ==
  /\ \/ tx_left[e] > 0 /\ returned' = [returned EXCEPT ![e] = "EBUSY"]
     \/ returned' = [returned EXCEPT ![e] = "ENOMEM"]
  /\ Returns(e, t)
  /\ UNCHANGED <<tx_left, messages>>

mctp_message_tx(e, t) == MessageTaken(e, t) \/ MessageRefused(e, t)

\* (Faulty variant: the lock is not taken, as in mctp_transport_send.)
SendUnlocked(e) ==
  /\ alive[e] /\ pc[e]["sender"] = "idle" /\ sends[e] < MaxSends[e]
  /\ sends' = [sends EXCEPT ![e] = @ + 1]
  /\ mctp_message_tx(e, "sender")
  /\ UNCHANGED <<rx_buf, pipe, alive, written, polled, failed>>

\* The sending thread calls mctp_mmbi_send and gets the lock.
mctp_mmbi_send(e) ==
  /\ alive[e] /\ pc[e]["sender"] = "idle" /\ sends[e] < MaxSends[e]
  /\ lock[e] = "free"
  /\ sends' = [sends EXCEPT ![e] = @ + 1]
  /\ mctp_message_tx(e, "sender")
  /\ UNCHANGED <<rx_buf, pipe, alive, written, polled, failed>>

\* WriteFile in mctp_mmbi_tx: it waits for room in the pipe and writes one packet.
\* After the last one the send returns and, in the callback, the poll as well.
WriteFile(e, t) ==
  /\ alive[e] /\ pc[e][t] = "write"
  /\ alive[Peer(e)] /\ Len(pipe[Peer(e)]) < Capacity[Peer(e)]
  /\ LET p == [msg |-> messages[e], k |-> Packets - tx_left[e] + 1] IN
     /\ pipe' = [pipe EXCEPT ![Peer(e)] = Append(@, p)]
     /\ written' = [written EXCEPT ![e] = Append(@, p)]
  /\ tx_left' = [tx_left EXCEPT ![e] = @ - 1]
  /\ IF tx_left[e] = 1
       THEN Returns(e, t) /\ returned' = [returned EXCEPT ![e] = "ok"]
       ELSE UNCHANGED <<pc, lock, returned>>
  /\ UNCHANGED <<rx_buf, alive, sends, messages, polled, failed>>

\* The other process is gone: the three attempts of mctp_mmbi_tx fail and it
\* returns -EIO.  mctp_send_tx_queue drops the packet and stops; the rest of the
\* message stays with the bus, and the send still returns 0.
\* (In the faulty variant it tries for ever.)
WriteRetries(e, t) ==
  /\ alive[e] /\ pc[e][t] = "write"
  /\ ~alive[Peer(e)]
  /\ UNCHANGED pipeVars

WriteFileFails(e, t) ==
  /\ alive[e] /\ pc[e][t] = "write"
  /\ ~alive[Peer(e)]
  /\ tx_left' = [tx_left EXCEPT ![e] = @ - 1]
  /\ Returns(e, t)
  /\ returned' = [returned EXCEPT ![e] = "ok"]
  /\ failed' = [failed EXCEPT ![e] = TRUE]
  /\ UNCHANGED <<rx_buf, pipe, alive, sends, messages, written, polled>>

\* mctp_mmbi_poll up to EnterCriticalSection.  PeekNamedPipe finds a packet, and
\* ReadFile takes one message of the pipe.  With nothing there it returns 0, and
\* with nothing there and a broken pipe -EPIPE.
\* (In the faulty variant the poll waits for more than one packet.)
PeekTwo(e) ==
  /\ alive[e] /\ pc[e]["poller"] = "idle"
  /\ Len(pipe[e]) > 1
  /\ pc' = [pc EXCEPT ![e]["poller"] = "read"]
  /\ UNCHANGED <<lock, tx_left, rx_buf, pipe, alive, sends, messages, returned,
                 written, polled, failed>>

PeekNamedPipe(e) ==
  /\ alive[e] /\ pc[e]["poller"] = "idle"
  /\ pipe[e] # <<>>
  /\ pc' = [pc EXCEPT ![e]["poller"] = "read"]
  /\ UNCHANGED <<lock, tx_left, rx_buf, pipe, alive, sends, messages, returned,
                 written, polled, failed>>

\* (Faulty variant: a packet that is read while the lock is taken is lost.)
ReadUnlessLocked(e) ==
  /\ alive[e] /\ pc[e]["poller"] = "read" /\ pipe[e] # <<>>
  /\ rx_buf' = [rx_buf EXCEPT ![e] = <<Head(pipe[e])>>]
  /\ pipe' = [pipe EXCEPT ![e] = Tail(@)]
  /\ pc' = [pc EXCEPT ![e]["poller"] = IF lock[e] = "free" THEN "enter" ELSE "idle"]
  /\ UNCHANGED <<lock, tx_left, alive, sends, messages, returned, written, polled,
                 failed>>

ReadFile(e) ==
  /\ alive[e] /\ pc[e]["poller"] = "read" /\ pipe[e] # <<>>
  /\ rx_buf' = [rx_buf EXCEPT ![e] = <<Head(pipe[e])>>]
  /\ pipe' = [pipe EXCEPT ![e] = Tail(@)]
  /\ pc' = [pc EXCEPT ![e]["poller"] = "enter"]
  /\ UNCHANGED <<lock, tx_left, alive, sends, messages, returned, written, polled,
                 failed>>

\* The rest of mctp_mmbi_poll, in the critical section.  Without memory for a
\* packet buffer the packet is dropped.
Dropped(e) ==
  /\ Returns(e, "poller")
  /\ UNCHANGED <<tx_left, messages, returned>>

\* mctp_bus_rx; the last packet of a message runs the callback.
HandedUp(e) ==
  IF e \in Answering /\ rx_buf[e][1].k = Packets
    THEN mctp_message_tx(e, "poller")
    ELSE Returns(e, "poller") /\ UNCHANGED <<tx_left, messages, returned>>

PollReceives(e) ==
  /\ alive[e] /\ pc[e]["poller"] = "enter"
  /\ lock[e] = "free"
  /\ polled' = [polled EXCEPT ![e] = @ \o rx_buf[e]]
  /\ Dropped(e) \/ HandedUp(e)
  /\ UNCHANGED <<rx_buf, pipe, alive, sends, written, failed>>

\* The process ends, whatever its threads are doing.
Exit(e) ==
  /\ e \in Exits /\ alive[e]
  /\ alive' = [alive EXCEPT ![e] = FALSE]
  /\ UNCHANGED <<pc, lock, tx_left, rx_buf, pipe, sends, messages, returned,
                 written, polled, failed>>

\* mctp_mmbi_context_init has opened the pipes and enabled transmission.
PipeInit ==
  /\ pc = [e \in Ends |-> [t \in Threads |-> "idle"]]
  /\ lock = [e \in Ends |-> "free"]
  /\ tx_left = [e \in Ends |-> 0] /\ sends = tx_left /\ messages = tx_left
  /\ rx_buf = [e \in Ends |-> <<>>] /\ pipe = rx_buf /\ written = rx_buf /\ polled = rx_buf
  /\ alive = [e \in Ends |-> TRUE]
  /\ returned = [e \in Ends |-> "ok"]
  /\ failed = [e \in Ends |-> FALSE]

PipeNext ==
  \E e \in Ends :
    \/ mctp_mmbi_send(e)
    \/ \E t \in Threads : WriteFile(e, t) \/ WriteFileFails(e, t)
    \/ PeekNamedPipe(e) \/ ReadFile(e) \/ PollReceives(e)
    \/ Exit(e)

\* A thread that can go on does, a thread that waits for a free lock gets it, and
\* the polling loop never ends.
PipeFairness ==
  \A e \in Ends :
    /\ \A t \in Threads : /\ WF_pipeVars(WriteFile(e, t))
                          /\ WF_pipeVars(WriteFileFails(e, t))
    /\ WF_pipeVars(PeekNamedPipe(e)) /\ WF_pipeVars(ReadFile(e))
    /\ WF_pipeVars(PollReceives(e))
    /\ WF_pipeVars(mctp_mmbi_send(e))

PipeSpec == PipeInit /\ [][PipeNext]_pipeVars /\ PipeFairness

-----------------------------------------------------------------------------
\* Every variable holds a value of its type.
TypeOK ==
  /\ pc \in [Ends -> [Threads -> {"idle", "write", "read", "enter"}]]
  /\ lock \in [Ends -> Threads \cup {"free"}]
  /\ tx_left \in [Ends -> 0..Packets]
  /\ rx_buf \in [Ends -> Seq(Packet)]
  /\ pipe \in [Ends -> Seq(Packet)] /\ written \in [Ends -> Seq(Packet)]
  /\ polled \in [Ends -> Seq(Packet)]
  /\ \A e \in Ends : Len(pipe[e]) <= Capacity[e] /\ Len(rx_buf[e]) <= 1
  /\ alive \in [Ends -> BOOLEAN] /\ failed \in [Ends -> BOOLEAN]
  /\ returned \in [Ends -> {"ok", "EBUSY", "ENOMEM"}]
  /\ sends \in [Ends -> Nat] /\ messages \in [Ends -> 0..MaxMessages]

\* mctp_mmbi_poll hands over, or drops for want of memory, every packet written
\* by the other end exactly once and in the order written: the packets it has
\* dealt with, the one that waits in rx_buf for the lock and those in the pipe are
\* what was written.
PollInOrder ==
  \A e \in Ends :
    LET waiting == IF pc[e]["poller"] = "enter" THEN rx_buf[e] ELSE <<>>
    IN  written[Peer(e)] = polled[e] \o waiting \o pipe[e]

\* The lock serialises the senders of a process, the receive callback included:
\* a send is refused with -EBUSY only after a failed write has left a message
\* with the bus, never because another thread is in the middle of one.
BusyOnlyAfterFailure ==
  \A e \in Ends : returned[e] = "EBUSY" => failed[e]

\* Every message an application sends leaves mctp_mmbi_send again: whether it is
\* written, refused, or fails because the other process is gone.
SendReturns ==
  \A e \in Ends :
    (pc[e]["sender"] = "write") ~> (pc[e]["sender"] = "idle" \/ ~alive[e])

\* Whatever is written is dealt with in the end: again and again, all that was
\* written to an end that goes on polling has been taken from its pipe.
EverythingPolled ==
  \A e \in Ends : []<>(polled[e] = written[Peer(e)] \/ ~alive[e])

=============================================================================
