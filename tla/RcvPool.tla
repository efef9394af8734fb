------------------------------ MODULE RcvPool ------------------------------
(* The datagram path of MiniPlex (src/MiniPlex.cpp): Rcv, the pool of shared *)
(* receive buffers and their recycling, the hand-over to process_strand and  *)
(* the sends that Forward posts back to socket_strand.  One receive is       *)
(* outstanding at a time; a buffer is shared, without copying, by everything *)
(* that still has to read it, and its deleter puts it back into the pool.    *)
(*                                                                           *)
(* Which endpoints a datagram goes to is decided in MiniPlex.tla; here it is *)
(* any set of them, taken one by one.  The two strands are FIFO queues of    *)
(* which one task runs at a time; the socket sends in the order in which the *)
(* sends were started; completions run on any thread.                        *)
EXTENDS Naturals, SequencesExt

CONSTANTS
    Endpoints,     \* where datagrams may be forwarded to
    MaxProcessQ,   \* -Y: buffers that may be allocated
    MaxDatagrams,  \* bound: datagrams received in a behaviour
    Idle           \* process_strand runs nothing

ASSUME MaxProcessQAssumption == MaxProcessQ \in Nat \ {0}
ASSUME MaxDatagramsAssumption == MaxDatagrams \in Nat
ASSUME IdleAssumption == Idle \notin [buf : Nat, dgram : Nat, todo : SUBSET Endpoints]

VARIABLES
    rcv_buf_q,      \* buffers ready to be received into
    rcv_buf_count,  \* buffers allocated so far; they are named 1..rcv_buf_count
    rcv,            \* the outstanding receive or wait of the receive loop
    socket_q,       \* tasks queued on socket_strand
    process_q,      \* RcvHandler calls queued on process_strand
    proc,           \* the RcvHandler that runs, with the endpoints still to do
    sends,          \* async_send_to operations the socket has not performed yet
    completing,     \* performed sends whose completion handler still exists
    data,           \* history: which datagram a buffer holds
    received,       \* history: number of datagrams received
    sentUpTo        \* history: per endpoint, the last datagram sent to it

vars == <<rcv_buf_q, rcv_buf_count, rcv, socket_q, process_q, proc, sends,
          completing, data, received, sentUpTo>>

Buffers == 1..MaxProcessQ

\* The receive loop: a receive into a buffer, a wait for the socket to be
\* writable, or neither, a task that calls Rcv() being queued on the strand.
Receiving(b) == [op |-> "receive", buf |-> b]
WaitWrite == [op |-> "wait_write", buf |-> 0]
Queued == [op |-> "queued", buf |-> 0]

RcvTask == [kind |-> "Rcv"]
CompleteTask(b, d, err) == [kind |-> "Complete", buf |-> b, dgram |-> d, err |-> err]
SendTask(b, d, e) == [kind |-> "Send", buf |-> b, dgram |-> d, ep |-> e]
RecycleTask(b) == [kind |-> "Recycle", buf |-> b]

Init ==
    /\ rcv_buf_q = <<>>
    /\ rcv_buf_count = 0
    /\ rcv = Queued
    /\ socket_q = <<RcvTask>>
    /\ process_q = <<>>
    /\ proc = Idle
    /\ sends = <<>>
    /\ completing = {}
    /\ data = [b \in Buffers |-> 0]
    /\ received = 0
    /\ sentUpTo = [e \in Endpoints |-> 0]

-----------------------------------------------------------------------------
(* Shared ownership.  The tasks and operations given as arguments are those  *)
(* that still exist after a step.                                            *)

MutNobodyShares(b, pq, p, sq, out) == FALSE
\* A shared_ptr to buffer b, other than the pool's own, still exists.
Shared(b, pq, p, sq, out) ==
    \/ \E i \in DOMAIN pq : pq[i].buf = b
    \/ p # Idle /\ p.buf = b
    \/ \E i \in DOMAIN sq : sq[i].kind \in {"Send", "Complete"} /\ sq[i].buf = b
    \/ \E s \in out : s.buf = b

MutForgotten(b, pq, p, sq, out) == sq
\* Off socket_strand the recycler is posted to it when the last reference goes.
Released(b, pq, p, sq, out) ==
    IF Shared(b, pq, p, sq, out) THEN sq ELSE Append(sq, RecycleTask(b))

-----------------------------------------------------------------------------
(* socket_strand: the task at the front runs. *)

\* Another buffer may be allocated.
MayAllocate == rcv_buf_count < MaxProcessQ

\* Rcv(), called with the pool as given: take a buffer, allocating one if there
\* is none, and receive into it; or wait until the socket is writable.
Rcv ==
    \/ /\ rcv_buf_q # <<>>
       /\ rcv' = Receiving(Head(rcv_buf_q))
       /\ rcv_buf_q' = Tail(rcv_buf_q)
       /\ UNCHANGED rcv_buf_count
    \/ /\ rcv_buf_q = <<>>
       /\ MayAllocate
       /\ rcv_buf_count' = rcv_buf_count + 1
       /\ rcv' = Receiving(rcv_buf_count + 1)
       /\ UNCHANGED rcv_buf_q
    \/ /\ rcv_buf_q = <<>>
       /\ ~MayAllocate
       /\ rcv' = WaitWrite
       /\ UNCHANGED <<rcv_buf_q, rcv_buf_count>>

NextTask(kind) == socket_q # <<>> /\ Head(socket_q).kind = kind

RunRcv ==
    /\ NextTask("Rcv")
    /\ socket_q' = Tail(socket_q)
    /\ Rcv
    /\ UNCHANGED <<process_q, proc, sends, completing, data, received, sentUpTo>>

MutPushFront(t) == <<t>> \o process_q
\* process_strand.post(...).
ProcessPosted(t) == Append(process_q, t)

\* The completion of a receive: post RcvHandler, then Rcv() again.
RunComplete ==
    /\ NextTask("Complete")
    /\ socket_q' = Tail(socket_q)
    /\ process_q' = ProcessPosted(Head(socket_q))
    /\ Rcv
    /\ UNCHANGED <<proc, sends, completing, data, received, sentUpTo>>

\* The recycler: the buffer goes back into the pool.
RunRecycle ==
    /\ NextTask("Recycle")
    /\ socket_q' = Tail(socket_q)
    /\ rcv_buf_q' = Append(rcv_buf_q, Head(socket_q).buf)
    /\ UNCHANGED <<rcv_buf_count, rcv, process_q, proc, sends, completing, data,
                   received, sentUpTo>>

\* A posted send starts; the operation keeps the reference of the task.
RunSend ==
    /\ NextTask("Send")
    /\ socket_q' = Tail(socket_q)
    /\ sends' = Append(sends, Head(socket_q))
    /\ UNCHANGED <<rcv_buf_q, rcv_buf_count, rcv, process_q, proc, completing, data,
                   received, sentUpTo>>

\* The same, when the socket sends at once and another thread has run the
\* completion before the task ends: the task drops the last reference, and the
\* recycler, being on its strand already, runs within it.
RunSendInline ==
    /\ NextTask("Send")
    /\ sends = <<>>
    /\ LET s == Head(socket_q) IN
         /\ socket_q' = Tail(socket_q)
         /\ sentUpTo' = [sentUpTo EXCEPT ![s.ep] = data[s.buf]]
         /\ rcv_buf_q' = IF Shared(s.buf, process_q, proc, Tail(socket_q), completing)
                         THEN rcv_buf_q ELSE Append(rcv_buf_q, s.buf)
    /\ UNCHANGED <<rcv_buf_count, rcv, process_q, proc, sends, completing, data, received>>

-----------------------------------------------------------------------------
(* The socket. *)

\* A datagram arrives in the buffer that is being received into.
DatagramArrives ==
    /\ rcv.op = "receive"
    /\ received < MaxDatagrams
    /\ received' = received + 1
    /\ data' = [data EXCEPT ![rcv.buf] = received + 1]
    /\ socket_q' = Append(socket_q, CompleteTask(rcv.buf, received + 1, FALSE))
    /\ rcv' = Queued
    /\ UNCHANGED <<rcv_buf_q, rcv_buf_count, process_q, proc, sends, completing, sentUpTo>>

\* A receive ends with an error (an earlier send was refused, say).
ReceiveFails ==
    /\ rcv.op = "receive"
    /\ received < MaxDatagrams
    /\ received' = received + 1
    /\ socket_q' = Append(socket_q, CompleteTask(rcv.buf, 0, TRUE))
    /\ rcv' = Queued
    /\ UNCHANGED <<rcv_buf_q, rcv_buf_count, process_q, proc, sends, completing, data, sentUpTo>>

\* The socket is writable: the delayed Rcv() is queued.
Writable ==
    /\ rcv = WaitWrite
    /\ socket_q' = Append(socket_q, RcvTask)
    /\ rcv' = Queued
    /\ UNCHANGED <<rcv_buf_q, rcv_buf_count, process_q, proc, sends, completing, data,
                   received, sentUpTo>>

\* The socket performs the oldest send: only now is the buffer read.
SocketSends ==
    /\ sends # <<>>
    /\ LET s == Head(sends) IN
         /\ sentUpTo' = [sentUpTo EXCEPT ![s.ep] = data[s.buf]]
         /\ completing' = completing \cup {s}
    /\ sends' = Tail(sends)
    /\ UNCHANGED <<rcv_buf_q, rcv_buf_count, rcv, socket_q, process_q, proc, data, received>>

\* The completion handler of a send, which does nothing, is destroyed and its
\* reference with it, on whatever thread ran it.
SendCompletes(s) ==
    /\ s \in completing
    /\ completing' = completing \ {s}
    /\ socket_q' = Released(s.buf, process_q, proc, socket_q, ToSet(sends) \cup (completing \ {s}))
    /\ UNCHANGED <<rcv_buf_q, rcv_buf_count, rcv, process_q, proc, sends, data,
                   received, sentUpTo>>

-----------------------------------------------------------------------------
(* process_strand: RcvHandler. *)

\* The handler starts; the mode chooses any set of endpoints, or none.  On an
\* error it returns at once.
HandlerStarts(targets) ==
    /\ proc = Idle
    /\ process_q # <<>>
    /\ LET t == Head(process_q) IN
         /\ t.err => targets = {}
         /\ proc' = [buf |-> t.buf, dgram |-> t.dgram, todo |-> targets]
    /\ process_q' = Tail(process_q)
    /\ UNCHANGED <<rcv_buf_q, rcv_buf_count, rcv, socket_q, sends, completing, data,
                   received, sentUpTo>>

\* Forward posts the send to the next endpoint.
Forward(e) ==
    /\ proc # Idle
    /\ e \in proc.todo
    /\ socket_q' = Append(socket_q, SendTask(proc.buf, proc.dgram, e))
    /\ proc' = [proc EXCEPT !.todo = @ \ {e}]
    /\ UNCHANGED <<rcv_buf_q, rcv_buf_count, rcv, process_q, sends, completing, data,
                   received, sentUpTo>>

\* The handler ends and its reference to the buffer goes.
HandlerEnds ==
    /\ proc # Idle
    /\ proc.todo = {}
    /\ proc' = Idle
    /\ socket_q' = Released(proc.buf, process_q, Idle, socket_q, ToSet(sends) \cup completing)
    /\ UNCHANGED <<rcv_buf_q, rcv_buf_count, rcv, process_q, sends, completing, data,
                   received, sentUpTo>>

-----------------------------------------------------------------------------
Next ==
    \/ RunRcv \/ RunComplete \/ RunRecycle \/ RunSend \/ RunSendInline
    \/ DatagramArrives \/ ReceiveFails \/ Writable \/ SocketSends
    \/ \E s \in completing : SendCompletes(s)
    \/ \E targets \in SUBSET Endpoints : HandlerStarts(targets)
    \/ \E e \in Endpoints : Forward(e)
    \/ HandlerEnds

Spec == Init /\ [][Next]_vars

\* The io_context runs every queued task, and the socket performs what it is
\* asked to; nothing is assumed about the arrival of datagrams.
Fairness ==
    /\ WF_vars(RunRcv \/ RunComplete \/ RunRecycle \/ RunSend)
    /\ WF_vars(Writable)
    /\ WF_vars(SocketSends)
    /\ WF_vars(\E s \in completing : SendCompletes(s))
    /\ WF_vars(\E targets \in SUBSET Endpoints : HandlerStarts(targets))
    /\ WF_vars(HandlerEnds \/ \E e \in Endpoints : Forward(e))

FairSpec == Spec /\ Fairness

-----------------------------------------------------------------------------
(* Properties *)

Tasks == {RcvTask} \cup {CompleteTask(b, d, err) : b \in Buffers, d \in 0..MaxDatagrams,
                                                   err \in BOOLEAN}
                   \cup {SendTask(b, d, e) : b \in Buffers, d \in 1..MaxDatagrams, e \in Endpoints}
                   \cup {RecycleTask(b) : b \in Buffers}

\* Every variable has its type; in particular no more than MaxProcessQ buffers
\* are ever allocated.
TypeOK ==
    /\ rcv_buf_q \in Seq(Buffers)
    /\ rcv_buf_count \in 0..MaxProcessQ
    /\ rcv \in {Receiving(b) : b \in Buffers} \cup {WaitWrite, Queued}
    /\ \A i \in DOMAIN socket_q : socket_q[i] \in Tasks
    /\ \A i \in DOMAIN process_q : process_q[i] \in Tasks /\ process_q[i].kind = "Complete"
    /\ proc \in {Idle} \cup [buf : Buffers, dgram : 0..MaxDatagrams, todo : SUBSET Endpoints]
    /\ \A s \in ToSet(sends) \cup completing : s \in Tasks /\ s.kind = "Send"
    /\ data \in [Buffers -> 0..MaxDatagrams]
    /\ received \in 0..MaxDatagrams
    /\ sentUpTo \in [Endpoints -> 0..MaxDatagrams]

\* The sends that are queued, under way or not yet released.
SendsHeld ==
    {t \in ToSet(socket_q) : t.kind = "Send"} \cup ToSet(sends) \cup completing

\* Zero-copy is safe: a datagram that still has to be handled or sent is intact
\* in its buffer, and the buffer is not being received into.
BufferIntact ==
    /\ \A s \in SendsHeld : data[s.buf] = s.dgram /\ rcv # Receiving(s.buf)
    /\ \A t \in ToSet(process_q) : (~t.err => data[t.buf] = t.dgram) /\ rcv # Receiving(t.buf)
    /\ proc # Idle => (proc.todo # {} => data[proc.buf] = proc.dgram) /\ rcv # Receiving(proc.buf)

\* In how many of its possible places a buffer is.
Places(b) ==
    Cardinality({i \in DOMAIN rcv_buf_q : rcv_buf_q[i] = b})
      + Cardinality({i \in DOMAIN socket_q : socket_q[i] = RecycleTask(b)})
      + (IF rcv = Receiving(b) THEN 1 ELSE 0)
      + (IF Shared(b, process_q, proc, socket_q, ToSet(sends) \cup completing) THEN 1 ELSE 0)

\* No buffer is leaked and none is recycled twice: each allocated buffer is in
\* the pool, being received into, in use, or on its way back, and in one of
\* these places only; no more than MaxProcessQ are ever allocated.
NoLeakNoDoubleFree ==
    /\ TypeOK
    /\ \A b \in 1..rcv_buf_count : Places(b) = 1

\* Datagrams reach each endpoint in the order in which they were received.
SentInOrder ==
    [][\A e \in Endpoints : sentUpTo'[e] # sentUpTo[e] => sentUpTo'[e] > sentUpTo[e]]_vars

\* When the pool is exhausted reading is only delayed: the wait for processing
\* to catch up always ends in a new receive.
DelayEnds == (rcv = WaitWrite) ~> (rcv.op = "receive")
=============================================================================
