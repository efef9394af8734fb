----------------------------- MODULE SerialPorts -----------------------------
(* SerialPortsManager (src/ProtoConv/SerialPortsManager.cpp) at both ends of a *)
(* set of serial lines.  At the near end the messages to be written share the  *)
(* ports: a message goes to a port that is idle, or waits in a bounded queue   *)
(* until a port has finished its write; when the queue overflows the oldest    *)
(* waiting message is dropped.  At the far end every port is read by a loop    *)
(* of its own.  (Each manager does both; the two directions share nothing but  *)
(* the ports.)                                                                 *)
(*                                                                             *)
(* The queue and the list of idle ports belong to write_q_strand, each port to *)
(* a strand of its own, so the start of a write is a separate step from the    *)
(* decision which port takes it.  Messages are numbered in the order of the    *)
(* Write calls.                                                                *)
EXTENDS Integers, SequencesExt, FiniteSetsExt

CONSTANTS num_ports,    \* the number of serial devices
          MaxWriteQSz,  \* messages that may wait
          MaxMessages   \* bound: messages written in a behaviour

ASSUME SerialAssumption == {num_ports, MaxWriteQSz, MaxMessages} \subseteq Nat

VARIABLES
    idle_port_idx_q,  \* ports that have nothing to write
    write_q,          \* messages that wait for a port
    posted,           \* per port, the message whose write is queued on its strand
    writing,          \* per port, the message an async_write is sending
    line,             \* per port, what was sent and not yet read, in order
    reading,          \* per port, how far the read loop of the far end is
    open,             \* the ports that are open, of either end
    stopping,         \* the ports whose close is queued on their strand
    count,            \* history: number of Write calls
    failed,           \* history: messages lost by a port or a line
    dropped           \* history: messages dropped from the queue

writers == <<idle_port_idx_q, write_q, posted, writing>>
portVars == <<writers, line, reading, open, stopping, count, failed, dropped>>

Ports == 1..num_ports
Ends == {"near", "far"}

\* No message.
None == 0

\* The constructor opens the ports and lists them all as idle.
PortsInit ==
    /\ idle_port_idx_q = [p \in Ports |-> p]
    /\ write_q = <<>>
    /\ posted = [p \in Ports |-> None]
    /\ writing = [p \in Ports |-> None]
    /\ line = [p \in Ports |-> <<>>]
    /\ reading = [p \in Ports |-> "none"]
    /\ open = Ends \X Ports
    /\ stopping = {}
    /\ count = 0
    /\ failed = {}
    /\ dropped = {}

-----------------------------------------------------------------------------
(* write_q_strand *)

\* Write(pBuf, idx): the write is posted to the strand of the port.
PostWrite(p, m) == posted' = [posted EXCEPT ![p] = m]

\* Pushing one more message makes the queue longer than it may be.
FullQueue == Len(write_q) + 1 > MaxWriteQSz

\* What the queue keeps when it overflows.
DropOldest(q) == Tail(q)

\* Write(data) with a port idle.
WriteToIdle ==
    /\ idle_port_idx_q # <<>>
    /\ PostWrite(Head(idle_port_idx_q), count + 1)
    /\ idle_port_idx_q' = Tail(idle_port_idx_q)
    /\ UNCHANGED <<write_q, dropped>>

\* Write(data) with every port busy.
WriteToQueue ==
    /\ idle_port_idx_q = <<>>
    /\ LET q == Append(write_q, count + 1)
           kept == IF FullQueue THEN DropOldest(q) ELSE q
       IN  /\ write_q' = kept
           /\ dropped' = dropped \cup (ToSet(q) \ ToSet(kept))
    /\ UNCHANGED <<idle_port_idx_q, posted>>

Write ==
    /\ count < MaxMessages
    /\ count' = count + 1
    /\ WriteToIdle \/ WriteToQueue
    /\ UNCHANGED <<writing, line, reading, open, stopping, failed>>

MutIdleFirst(p) ==
    /\ idle_port_idx_q' = Append(idle_port_idx_q, p)
    /\ UNCHANGED <<write_q, posted>>
MutNoPop(p) ==
    /\ IF write_q # <<>> THEN PostWrite(p, Head(write_q)) /\ UNCHANGED idle_port_idx_q
                         ELSE idle_port_idx_q' = Append(idle_port_idx_q, p) /\ UNCHANGED posted
    /\ UNCHANGED write_q
\* The end of the completion handler of a write, successful or not: the port
\* takes the next waiting message or becomes idle.
TakeNext(p) ==
    \/ /\ write_q # <<>>
       /\ PostWrite(p, Head(write_q))
       /\ write_q' = Tail(write_q)
       /\ UNCHANGED idle_port_idx_q
    \/ /\ write_q = <<>>
       /\ idle_port_idx_q' = Append(idle_port_idx_q, p)
       /\ UNCHANGED <<write_q, posted>>

WriteDone(p) ==
    /\ writing[p] # None
    /\ <<"near", p>> \in open
    /\ line' = [line EXCEPT ![p] = Append(@, writing[p])]
    /\ writing' = [writing EXCEPT ![p] = None]
    /\ TakeNext(p)
    /\ UNCHANGED <<reading, open, stopping, count, failed, dropped>>

\* The device fails, or the port was closed: the error is logged, and the
\* message is not tried again.
WriteFails(p) ==
    /\ writing[p] # None
    /\ failed' = failed \cup {writing[p]}
    /\ writing' = [writing EXCEPT ![p] = None]
    /\ TakeNext(p)
    /\ UNCHANGED <<line, reading, open, stopping, count, dropped>>

-----------------------------------------------------------------------------
(* The strand of a port *)

\* The posted task starts the async_write.
WriteStarts(p) ==
    /\ posted[p] # None
    /\ writing' = [writing EXCEPT ![p] = posted[p]]
    /\ posted' = [posted EXCEPT ![p] = None]
    /\ UNCHANGED <<idle_port_idx_q, write_q, line, reading, open, stopping, count, failed,
                   dropped>>

\* Start, at the far end, sets the options of the ports and posts a Read to each.
Start ==
    /\ \A p \in Ports : reading[p] = "none"
    /\ reading' = [p \in Ports |-> "posted"]
    /\ UNCHANGED <<writers, line, open, stopping, count, failed, dropped>>

\* The read loop starts.
ReadStarts(p) ==
    /\ reading[p] = "posted"
    /\ reading' = [reading EXCEPT ![p] = "reading"]
    /\ UNCHANGED <<writers, line, open, stopping, count, failed, dropped>>

\* A message was read: ReadHandler gets it, and the loop goes on.
ReadDone(p) ==
    /\ reading[p] = "reading"
    /\ <<"far", p>> \in open
    /\ line[p] # <<>>
    /\ line' = [line EXCEPT ![p] = Tail(@)]
    /\ UNCHANGED <<writers, reading, open, stopping, count, failed, dropped>>

\* A read that ends in an error is not started again.
ReadFails(p) ==
    /\ reading[p] = "reading"
    /\ reading' = [reading EXCEPT ![p] = "failed"]
    /\ UNCHANGED <<writers, line, open, stopping, count, failed, dropped>>

\* Noise on the line spoils the message at its end.
Noise(p) ==
    /\ line[p] # <<>>
    /\ failed' = failed \cup {Last(line[p])}
    /\ line' = [line EXCEPT ![p] = Front(@)]
    /\ UNCHANGED <<writers, reading, open, stopping, count, dropped>>

\* Stop posts a close to every port of an end.
Stop(e) ==
    /\ \A p \in Ports : <<e, p>> \in open \ stopping
    /\ stopping' = stopping \cup ({e} \X Ports)
    /\ UNCHANGED <<writers, line, reading, open, count, failed, dropped>>

\* cancel() and close(), on the strand and so after a Read posted before: a read or
\* write under way will end in an error.
Close(e, p) ==
    /\ <<e, p>> \in stopping
    /\ e = "far" => reading[p] # "posted"
    /\ stopping' = stopping \ {<<e, p>>}
    /\ open' = open \ {<<e, p>>}
    /\ UNCHANGED <<writers, line, reading, count, failed, dropped>>

-----------------------------------------------------------------------------
PortsNext ==
    \/ Write \/ Start
    \/ \E p \in Ports : \/ WriteStarts(p) \/ WriteDone(p) \/ WriteFails(p) \/ Noise(p)
                        \/ ReadStarts(p) \/ ReadDone(p) \/ ReadFails(p)
    \/ \E e \in Ends : Stop(e) \/ \E p \in Ports : Close(e, p)

PortsSpec == PortsInit /\ [][PortsNext]_portVars

-----------------------------------------------------------------------------
(* Properties *)

Messages == 1..MaxMessages

\* Every variable has its type; the queue never exceeds its limit.
PortsTypeOK ==
    /\ idle_port_idx_q \in Seq(Ports)
    /\ write_q \in Seq(Messages) /\ Len(write_q) <= MaxWriteQSz
    /\ posted \in [Ports -> {None} \cup Messages]
    /\ writing \in [Ports -> {None} \cup Messages]
    /\ line \in [Ports -> Seq(Messages)]
    /\ reading \in [Ports -> {"none", "posted", "reading", "failed"}]
    /\ open \in SUBSET (Ends \X Ports) /\ stopping \in SUBSET (Ends \X Ports)
    /\ count \in 0..MaxMessages
    /\ failed \in SUBSET Messages /\ dropped \in SUBSET Messages

\* The port is listed as idle.
Idle(p) == p \in ToSet(idle_port_idx_q)

\* Every port is either listed as idle, once, or has exactly one write posted or
\* under way: no port is forgotten, and no async_write is started on a port
\* while another one is in progress there.  No message waits while a port is idle,
\* and the queue keeps to its limit.
PortsAccountedFor ==
    /\ PortsTypeOK
    /\ IsInjective(idle_port_idx_q)
    /\ \A p \in Ports :
         \/ Idle(p) /\ posted[p] = None /\ writing[p] = None
         \/ ~Idle(p) /\ posted[p] # None /\ writing[p] = None
         \/ ~Idle(p) /\ posted[p] = None /\ writing[p] # None
    /\ write_q # <<>> => idle_port_idx_q = <<>>
=============================================================================
