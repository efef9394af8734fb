----------------------------- MODULE SerialLink -----------------------------
(* Two ProtoConvs joined by serial lines, with delimited framing: the way of a *)
(* datagram from the UDP socket of one to the UDP socket of the other.         *)
(*                                                                             *)
(*   RcvUDP -> process_strand -> AddDelim -> SerialPorts -> lines              *)
(*          -> read loops -> DelimFragHandler -> WriteUDPHandler               *)
(*                                                                             *)
(* RcvUDP and RcvUDPHandler (src/ProtoConv/ProtoConv.cpp) are modelled here,   *)
(* the ports by SerialPorts; the far end's handler is the one of               *)
(* DelimFragHandler, whose specification this one implements: the link is a    *)
(* stream that overtakes and loses frames.                                     *)
EXTENDS SerialPorts

CONSTANTS
    SeqSize, SeqMaxQ, SeqMaxT,  \* as in DelimFragHandler
    MaxDelay,                  \* bound: ticks a frame may be at the top of the queue
    MaxBuffers,                \* bound: receive buffers
    MaxNoise                   \* bound: messages lost by an open port or a line

ASSUME LinkAssumption ==
    /\ {SeqMaxQ, SeqMaxT, MaxDelay, MaxNoise} \subseteq Nat /\ MaxBuffers \in Nat \ {0}
    /\ SeqSize \in Nat /\ SeqSize > 2

VARIABLES
    rcv_buf_q,   \* receive buffers that are free
    buffers,     \* buffers allocated so far
    receiving,   \* the buffer of the async_receive under way
    content,     \* per buffer, the number of the datagram in it
    process_q,   \* buffers whose RcvUDPHandler is queued on process_strand
    returning,   \* buffers on their way back to rcv_buf_q, on socket_strand
    datagrams,   \* datagrams received
    carried,     \* per message, the datagram in it
    DelimSeq, number,
    frame_q, expected_seq, last_top_seq, top_latency, written, early

udp == <<rcv_buf_q, buffers, receiving, content, process_q, returning, datagrams>>
sender == <<carried, DelimSeq, number>>
handler == <<frame_q, expected_seq, last_top_seq, top_latency, written, early>>
vars == <<portVars, udp, sender, handler>>

\* What is between AddDelim and HandleFrame.
OnLine(p) == ToSet(line[p])
WithPort(p) == {posted[p], writing[p]} \ {None}
InFlight == ToSet(write_q) \cup UNION {WithPort(p) \cup OnLine(p) : p \in Ports}

D == INSTANCE DelimFragHandler WITH
        inFlight <- InFlight, lost <- failed \cup dropped, sent <- count, first <- 0,
        channel <- [reorder |-> MaxMessages, delay |-> MaxDelay],
        restarts <- 0, ambiguous <- FALSE,
        FirstFrames <- {0}, MaxFrames <- MaxMessages, MaxInFlight <- MaxMessages,
        MaxLost <- MaxMessages, Reorders <- {MaxMessages}, Delays <- {MaxDelay},
        MaxRestarts <- 0

\* The first RcvUDP has allocated a buffer.
Init ==
    /\ PortsInit
    /\ rcv_buf_q = <<>> /\ buffers = 1 /\ receiving = 1
    /\ content = [b \in 1..MaxBuffers |-> None]
    /\ process_q = <<>> /\ returning = <<>> /\ datagrams = 0
    /\ carried = <<>> /\ DelimSeq = 0 /\ number = <<>>
    /\ frame_q = {} /\ expected_seq = 0 /\ last_top_seq = SeqSize - 1 /\ top_latency = 0
    /\ written = <<>> /\ early = FALSE

-----------------------------------------------------------------------------
(* The near end *)

MutSameBuffer == UNCHANGED <<receiving, rcv_buf_q, buffers>>
\* RcvUDP takes a free buffer, or allocates one.
RcvUDP ==
    \/ /\ rcv_buf_q # <<>>
       /\ receiving' = Head(rcv_buf_q)
       /\ rcv_buf_q' = Tail(rcv_buf_q)
       /\ UNCHANGED buffers
    \/ /\ rcv_buf_q = <<>>
       /\ buffers < MaxBuffers
       /\ buffers' = buffers + 1
       /\ receiving' = buffers'
       /\ UNCHANGED rcv_buf_q

\* async_receive completes, with a datagram or an error (an empty message then):
\* the buffer goes to process_strand, and the next receive starts.
Received ==
    /\ datagrams < MaxMessages
    /\ datagrams' = datagrams + 1
    /\ content' = [content EXCEPT ![receiving] = datagrams']
    /\ process_q' = Append(process_q, receiving)
    /\ RcvUDP
    /\ UNCHANGED <<portVars, returning, sender, handler>>

\* RcvUDPHandler: the datagram is copied, numbered by AddDelim and written; the
\* buffer goes back by way of socket_strand.
RcvUDPHandler ==
    /\ process_q # <<>>
    /\ carried' = Append(carried, content[Head(process_q)])
    /\ number' = Append(number, DelimSeq)
    /\ DelimSeq' = (DelimSeq + 1) % SeqSize
    /\ Write
    /\ process_q' = Tail(process_q)
    /\ returning' = Append(returning, Head(process_q))
    /\ UNCHANGED <<rcv_buf_q, buffers, receiving, content, datagrams, handler>>

BufferReturns ==
    /\ returning # <<>>
    /\ rcv_buf_q' = Append(rcv_buf_q, Head(returning))
    /\ returning' = Tail(returning)
    /\ UNCHANGED <<portVars, buffers, receiving, content, process_q, datagrams, sender, handler>>

-----------------------------------------------------------------------------
(* The ports, and the far end *)

\* A frame is read and handled.
ReadHandler(p) ==
    /\ ReadDone(p)
    /\ D!Handle(Head(line[p]), InFlight')
    /\ UNCHANGED <<udp, sender>>

Quiet(p) == WriteStarts(p) \/ WriteDone(p) \/ ReadStarts(p) \/ ReadFails(p)
Loses(p) == Cardinality(failed) < MaxNoise /\ (WriteFails(p) \/ Noise(p))
\* Once its port is closed a write cannot but fail.
FailsClosed(p) == <<"near", p>> \notin open /\ WriteFails(p)
\* Only one of the ends is stopped in a behaviour (a bound).
StopOne(e) == open = Ends \X Ports /\ stopping = {} /\ Stop(e)
Lifecycle == Start \/ \E e \in Ends : StopOne(e) \/ \E p \in Ports : Close(e, p)

PortStep ==
    /\ Lifecycle \/ \E p \in Ports : Quiet(p) \/ Loses(p) \/ FailsClosed(p)
    /\ UNCHANGED <<udp, sender, handler>>

Tick == D!Later /\ UNCHANGED <<portVars, udp, sender>>

Next ==
    \/ Received \/ RcvUDPHandler \/ BufferReturns
    \/ PortStep
    \/ \E p \in Ports : ReadHandler(p)
    \/ Tick

Spec == Init /\ [][Next]_vars

\* Queued tasks run; an async_write ends sooner or later, one way or the other; the
\* far end is started, and what is on a line is read unless the reading fails.
FairSpec ==
    /\ Spec
    /\ WF_vars(RcvUDPHandler)
    /\ WF_vars(Start /\ UNCHANGED <<udp, sender, handler>>)
    /\ \A p \in Ports :
         /\ WF_vars(WriteStarts(p) /\ UNCHANGED <<udp, sender, handler>>)
         /\ WF_vars((WriteDone(p) \/ WriteFails(p)) /\ UNCHANGED <<udp, sender, handler>>)
         /\ WF_vars(ReadStarts(p) /\ UNCHANGED <<udp, sender, handler>>)
         /\ WF_vars(ReadHandler(p) \/ (ReadFails(p) /\ UNCHANGED <<udp, sender, handler>>))

-----------------------------------------------------------------------------
(* Properties *)

\* Every datagram received is in one message, the one with its number, although the
\* buffers are used again and again; and every message is in exactly one place:
\* it waits, is with a port, on a line, held, written once, or was lost or dropped.
DatagramsConserved ==
    /\ carried = [m \in 1..count |-> m]
    /\ \A i \in DOMAIN process_q : content[process_q[i]] = count + i
    /\ datagrams = count + Len(process_q)
    /\ \A m \in 1..count :
         LET Once(b) == IF b THEN 1 ELSE 0
             At(s) == {i \in DOMAIN s : s[i] = m}
             Times(s) == Cardinality(At(s))
             TimesOnLines == Cardinality(UNION {{p} \X At(line[p]) : p \in Ports})
         IN  Times(write_q) + Times(posted) + Times(writing) + TimesOnLines + Times(written)
               + Once(m \in frame_q) + Once(m \in failed) + Once(m \in dropped) = 1

\* In the end every datagram that was received has been handed to the far end's
\* handler, was dropped or lost, or is on a line that nobody reads any more.
Settled(m) ==
    \/ m \in frame_q \cup ToSet(written) \cup failed \cup dropped
    \/ \E p \in Ports : m \in OnLine(p) /\ (reading[p] = "failed" \/ <<"far", p>> \notin open)
DatagramsSettle == \A m \in Messages : datagrams >= m ~> Settled(m)

\* The link behaves as DelimFragHandler assumes of the stream between the two ends:
\* it overtakes and loses frames, and nothing else.
LinkImplements == D!Spec
=============================================================================
