--------------------------- MODULE TCPSocketManager ---------------------------
(* TCPSocketManager (src/ProtoConv/TCPSocketManager.{h,cpp}) as ProtoConv    *)
(* uses it: one numeric address (so one end point), auto-open on, no         *)
(* throttling.  It keeps one TCP connection open, as client or as server,    *)
(* and writes messages to it, holding them while there is no connection.     *)
(*                                                                           *)
(* Everything runs on pSockStrand: what the code posts there waits its turn  *)
(* in `strand`; the completion of a socket operation, a resolution or a wait *)
(* of the timer is an action of its own, which runs the whole handler.       *)
(* A message is written as Pieces of it, so that a write can fail halfway.   *)
EXTENDS Integers, Sequences, FiniteSets

CONSTANTS
    Sockets,        \* sockets that can exist at a time
    NoSocket,
    Uses,           \* how the manager may be used: the calls of Open and Close, in
                    \* order, the number of messages written and -Q, the buffer_limit
    PatientUser,    \* Open is called only when what Close started is finished
    IsServer,       \* isServer
    min_retry_time, max_retry_time,  \* the back-off options
    RampMod,        \* ramp_time_ms is a uint16_t: it is kept modulo this
    Pieces,         \* pieces of a message
    MaxResolving,   \* bound: resolutions outstanding
    MaxPosted       \* bound: tasks waiting on the strand when something posts to it

ASSUME SocketsAssumption == NoSocket \notin Sockets /\ IsFiniteSet(Sockets)
ASSUME UsesAssumption ==
    \A u \in Uses : /\ u.calls \in Seq({"Open", "Close"})
                    /\ u.writes \in Nat
                    /\ u.buffer_limit \in Nat \ {0}
ASSUME ServerAssumption == {IsServer, PatientUser} \subseteq BOOLEAN
ASSUME NumbersAssumption ==
    /\ {min_retry_time, max_retry_time, MaxResolving, MaxPosted} \subseteq Nat
    /\ {RampMod, Pieces} \subseteq Nat \ {0}

VARIABLES
    use,              \* how the manager is used in this behaviour
    strand,           \* tasks posted to pSockStrand, oldest first
    calls,            \* Open and Close calls made
    manuallyClosed, isConnected, pending_read,
    pSock,            \* the last connection
    CandidatepSocks,  \* sockets that are being opened
    connecting,       \* sockets whose connect or accept handler is yet to run
    reads,            \* sockets with a read outstanding
    sendShut,         \* sockets whose sending side was shut down
    resolved,         \* EndpointIterator holds the end point
    resolving,        \* resolutions outstanding
    timers,           \* waits of pRetryTimer that will end without an error
    ramp_time_ms,
    queue_writebufs, dispatch_writebufs,
    pending_write,
    writing,          \* the write outstanding
    made,             \* messages given to Write
    sent,             \* history: how often each piece was written
    dropped,          \* history: messages (or the rest of one) dropped
    halfOpen          \* history: the connection was made during a write to the last one

opening == <<resolved, resolving, timers, ramp_time_ms>>
connection == <<manuallyClosed, isConnected, pending_read, pSock, CandidatepSocks,
                connecting, reads, sendShut>>
writes == <<queue_writebufs, dispatch_writebufs, pending_write, writing, sent, dropped, halfOpen>>
vars == <<use, strand, calls, made, connection, opening, writes>>

NoWrite == [kind |-> "none", sock |-> NoSocket, buf |-> <<>>]

Init ==
    /\ use \in Uses
    /\ strand = <<>>
    /\ calls = 0
    /\ manuallyClosed = TRUE /\ isConnected = FALSE /\ pending_read = FALSE
    /\ pSock = NoSocket /\ CandidatepSocks = {} /\ connecting = {} /\ reads = {} /\ sendShut = {}
    /\ resolved = FALSE /\ resolving = 0 /\ timers = {} /\ ramp_time_ms = 0
    /\ queue_writebufs = <<>> /\ dispatch_writebufs = <<>>
    /\ pending_write = FALSE /\ writing = NoWrite
    /\ made = 0 /\ sent = [x \in (1..use.writes) \X (1..Pieces) |-> 0]
    /\ dropped = {} /\ halfOpen = FALSE

-----------------------------------------------------------------------------
(* The strand *)

Task(t) == [task |-> t, buf |-> <<>>]
Posted(t) == \E i \in DOMAIN strand : strand[i].task = t

\* The head of the strand is taken, and what its handler posts goes behind the rest.
Take(t) == strand # <<>> /\ Head(strand).task = t
TakeAndPost(ts) == strand' = Tail(strand) \o ts
Post(ts) == Len(strand) + Len(ts) <= MaxPosted /\ strand' = strand \o ts

\* Open and Close, called from outside, post their work.
UserCall ==
    /\ calls < Len(use.calls)
    /\ PatientUser /\ use.calls[calls + 1] = "Open" => strand = <<>> /\ connecting = {}
    /\ calls' = calls + 1
    /\ Post(<<Task(use.calls[calls + 1])>>)
    /\ UNCHANGED <<use, made, connection, opening, writes>>

-----------------------------------------------------------------------------
(* Opening *)

\* pRetryTimer gets a new wait.  The one before ends with an error, unless it had
\* expired and its handler was on its way.  (Of two waits of one kind, one of them
\* expired, a single handler is kept: the other would only try once more, or reset what
\* is reset.)
SetTimer(kind) == timers' \in {{kind}, timers \cup {kind}}

MutBusy == isConnected \/ CandidatepSocks # {}
Busy == isConnected \/ CandidatepSocks # {} \/ pending_read

\* The sockets that are in use; the last connection, once it is closed and its read
\* and write have ended, is as good as a new one.
InUse == {writing.sock} \cup connecting \cup reads \cup (IF isConnected THEN {pSock} ELSE {})

\* The alternatives of Open(tracker): `result` is what it returns and `ts` what
\* it posts.  The end point is resolved afresh when there is none or it is old;
\* a server that cannot listen tries again.
OpenRefused(result, ts) ==
    /\ Busy
    /\ result = FALSE /\ ts = <<>>
    /\ UNCHANGED <<resolved, resolving, CandidatepSocks, connecting>>
OpenResolves(result, ts) ==
    /\ ~Busy
    /\ result = FALSE /\ ts = <<>>
    /\ resolving < MaxResolving
    /\ resolving' = resolving + 1
    /\ UNCHANGED <<resolved, CandidatepSocks, connecting>>
OpenTries(result, ts) ==
    /\ ~Busy /\ resolved
    /\ result = TRUE
    /\ \/ \E s \in Sockets \ InUse :
            /\ CandidatepSocks' = CandidatepSocks \cup {s}
            /\ connecting' = connecting \cup {s}
            /\ ts = <<>>
       \/ /\ IsServer
          /\ ts = <<Task("AutoOpen")>>
          /\ UNCHANGED <<CandidatepSocks, connecting>>
    /\ UNCHANGED <<resolved, resolving>>
Open(result, ts) ==
    /\ manuallyClosed' = FALSE
    /\ OpenRefused(result, ts) \/ OpenResolves(result, ts) \/ OpenTries(result, ts)
    /\ UNCHANGED <<isConnected, pending_read, pSock, reads, sendShut>>

Posts == {<<>>, <<Task("AutoOpen")>>}

RunOpen ==
    /\ Take("Open")
    /\ \E result \in BOOLEAN, ts \in Posts : Open(result, ts) /\ TakeAndPost(ts)
    /\ UNCHANGED <<use, calls, made, timers, ramp_time_ms, writes>>

\* The early return of AutoOpen (auto_reopen is on).
Refuses == manuallyClosed \/ Busy

\* The time to wait before the next try; 0 to try at once.
RampNow == IF min_retry_time = max_retry_time THEN min_retry_time % RampMod ELSE ramp_time_ms

RunAutoOpen ==
    /\ Take("AutoOpen")
    /\ \/ /\ Refuses
          /\ TakeAndPost(<<>>)
          /\ UNCHANGED <<connection, opening>>
       \/ /\ ~Refuses /\ RampNow = 0
          /\ \E result \in BOOLEAN, ts \in Posts :
               /\ Open(result, ts)
               /\ TakeAndPost(ts)
               /\ ramp_time_ms' = IF result THEN min_retry_time % RampMod ELSE RampNow
          /\ UNCHANGED timers
       \/ /\ ~Refuses /\ RampNow # 0
          /\ TakeAndPost(<<>>)
          /\ ramp_time_ms' = RampNow
          /\ SetTimer("retry")
          /\ UNCHANGED <<connection, resolved, resolving>>
    /\ UNCHANGED <<use, calls, made, writes>>

MutDoubled(r) == (r * 2) % RampMod
\* ramp_time_ms *= 2, capped afterwards.
Doubled(r) == LET d == (r * 2) % RampMod IN IF d > max_retry_time THEN max_retry_time % RampMod ELSE d

\* The wait before a try is over.
RetryHandler ==
    /\ "retry" \in timers
    /\ timers' = timers \ {"retry"}
    /\ \/ /\ manuallyClosed
          /\ UNCHANGED <<strand, connection, resolved, resolving, ramp_time_ms>>
       \/ /\ ~manuallyClosed
          /\ \E result \in BOOLEAN, ts \in Posts :
               /\ Open(result, ts)
               /\ Post(ts)
               /\ ramp_time_ms' = IF result THEN Doubled(ramp_time_ms) ELSE ramp_time_ms
    /\ UNCHANGED <<use, calls, made, writes>>

\* The connection has been up for min_established_time: the back-off starts
\* again, and the end point is resolved again before the next one.
EstablishedHandler ==
    /\ "established" \in timers
    /\ timers' = timers \ {"established"}
    /\ ramp_time_ms' = IF isConnected THEN 0 ELSE ramp_time_ms
    /\ resolved' = IF isConnected THEN FALSE ELSE resolved
    /\ UNCHANGED <<use, strand, calls, made, connection, resolving, writes>>

\* The resolution is finished, with an end point or an error.
ResolveHandler(ok) ==
    /\ resolving > 0
    /\ resolving' = resolving - 1
    /\ resolved' = IF ok /\ ~manuallyClosed THEN TRUE ELSE resolved
    /\ IF manuallyClosed THEN UNCHANGED strand ELSE Post(<<Task("AutoOpen")>>)
    /\ UNCHANGED <<use, calls, made, connection, timers, ramp_time_ms, writes>>

-----------------------------------------------------------------------------
(* Writing *)

\* A piece x is a message's number and its place in it.  The first n of the pieces
\* that a buffer holds; the buffer after += n.
PiecesLeft(buf) == Pieces + 1 - buf.from
Holds(buf, x) == buf.id = x[1] /\ buf.from <= x[2]
Among(buf, n, x) == Holds(buf, x) /\ x[2] < buf.from + n
Rest(buf, n) == [buf EXCEPT !.from = @ + n]

\* push_back, and erase the front when there are more than buffer_limit.
Queued(bufs, b) ==
    LET q == Append(bufs, b) IN IF Len(q) > use.buffer_limit THEN Tail(q) ELSE q
DroppedBy(bufs, b) ==
    IF Queued(bufs, b) = Append(bufs, b) THEN {} ELSE {Head(Append(bufs, b))}

MutRemainder(bufs, done, part) == IF done = Len(bufs) THEN <<>> ELSE bufs
\* What is left of dispatch_writebufs when the first `done` buffers were written and
\* so many pieces of the next: n is consumed buffer by buffer.
Remainder(bufs, done, part) ==
    IF done = Len(bufs) THEN <<>>
    ELSE <<Rest(bufs[done + 1], part)>> \o SubSeq(bufs, done + 2, Len(bufs))

\* WriteBuffer with q queued and d left over: what is left over goes first.
WriteBuffer(s, q, d) ==
    /\ dispatch_writebufs' = IF d = <<>> THEN q ELSE d
    /\ queue_writebufs' = IF d = <<>> THEN <<>> ELSE q
    /\ pending_write' = (dispatch_writebufs' # <<>>)
    /\ writing' = IF pending_write' THEN [kind |-> "buffer", sock |-> s, buf |-> <<>>] ELSE NoWrite

UserWrite ==
    /\ made < use.writes
    /\ made' = made + 1
    /\ Post(<<[task |-> "Write", buf |-> [id |-> made + 1, from |-> 1]]>>)
    /\ UNCHANGED <<use, calls, connection, opening, writes>>

\* write_execute: the message is queued, or written straight away.
RunWrite ==
    /\ Take("Write")
    /\ LET b == Head(strand).buf
       IN  \/ /\ ~isConnected \/ manuallyClosed \/ pending_write
              /\ queue_writebufs' = Queued(queue_writebufs, b)
              /\ dropped' = dropped \cup DroppedBy(queue_writebufs, b)
              /\ UNCHANGED <<pending_write, writing>>
           \/ /\ isConnected /\ ~manuallyClosed /\ ~pending_write
              /\ pending_write' = TRUE
              /\ writing' = [kind |-> "direct", sock |-> pSock, buf |-> b]
              /\ UNCHANGED <<queue_writebufs, dropped>>
    /\ TakeAndPost(<<>>)
    /\ UNCHANGED <<use, calls, made, connection, opening, dispatch_writebufs, sent, halfOpen>>

MutActive(s) == FALSE
\* The connection written to is still the active one.
Active(s) == s = pSock /\ isConnected /\ ~manuallyClosed

\* CheckLastWrite: writing goes on, or the socket is finished with.
CheckLastWrite(s, q, d) ==
    \/ /\ Active(s)
       /\ WriteBuffer(s, q, d)
       /\ halfOpen' = FALSE
       /\ UNCHANGED <<strand, sendShut>>
    \/ /\ ~Active(s)
       /\ pending_write' = FALSE /\ writing' = NoWrite
       /\ queue_writebufs' = q /\ dispatch_writebufs' = d
       /\ sendShut' = sendShut \cup {s}
       /\ Post(<<Task("AutoOpen")>>)
       /\ UNCHANGED halfOpen

\* The handler of a direct write of which n pieces were written: the rest is
\* queued again, behind what came in meanwhile.
DirectWriteHandler(n) ==
    /\ writing.kind = "direct"
    /\ LET b == writing.buf
           rest == Rest(b, n)
           failed == n < PiecesLeft(b)
       IN  /\ n <= PiecesLeft(b)
           /\ sent' = [x \in DOMAIN sent |-> sent[x] + (IF Among(b, n, x) THEN 1 ELSE 0)]
           /\ dropped' = IF failed THEN dropped \cup DroppedBy(queue_writebufs, rest) ELSE dropped
           /\ CheckLastWrite(writing.sock,
                             IF failed THEN Queued(queue_writebufs, rest) ELSE queue_writebufs,
                             dispatch_writebufs)
    /\ UNCHANGED <<use, calls, made, manuallyClosed, isConnected, pending_read, pSock,
                   CandidatepSocks, connecting, reads, opening>>

\* The handler of WriteBuffer's write, of which all of `done` buffers was written and
\* then a part of the next.
BufferWriteHandler(done, part) ==
    /\ writing.kind = "buffer"
    /\ IF done = Len(dispatch_writebufs) THEN part = 0
       ELSE part < PiecesLeft(dispatch_writebufs[done + 1])
    /\ sent' = [x \in DOMAIN sent |->
                  sent[x] + Cardinality({i \in 1..done : Holds(dispatch_writebufs[i], x)})
                    + (IF part > 0 /\ Among(dispatch_writebufs[done + 1], part, x) THEN 1 ELSE 0)]
    /\ CheckLastWrite(writing.sock, queue_writebufs, Remainder(dispatch_writebufs, done, part))
    /\ UNCHANGED <<use, calls, made, manuallyClosed, isConnected, pending_read, pSock,
                   CandidatepSocks, connecting, reads, opening, dropped>>

WriteHandler ==
    \/ \E n \in 0..Pieces : DirectWriteHandler(n)
    \/ \E done \in 0..Len(dispatch_writebufs), part \in 0..(Pieces - 1) :
         BufferWriteHandler(done, part)

-----------------------------------------------------------------------------
(* Connecting, reading, closing *)

\* A connect or accept failed.
ConnectFails(s) ==
    /\ s \in connecting
    /\ connecting' = connecting \ {s}
    /\ CandidatepSocks' = CandidatepSocks \ {s}
    /\ IF CandidatepSocks' = {} THEN Post(<<Task("AutoOpen")>>) ELSE UNCHANGED strand
    /\ UNCHANGED <<use, calls, made, manuallyClosed, isConnected, pending_read, pSock, reads,
                   sendShut, opening, writes>>

\* What is held is written to the new connection; but nothing is while a write to
\* the last one is outstanding.
BufferedGoesOut(s) ==
    IF manuallyClosed \/ pending_write
    THEN UNCHANGED <<queue_writebufs, dispatch_writebufs, pending_write, writing>>
    ELSE WriteBuffer(s, queue_writebufs, dispatch_writebufs)

\* ConnectCompletionHandler.  A connection that comes when there is one is
\* dropped; one that comes after Close is closed again.
Connects(s) ==
    /\ s \in connecting
    /\ connecting' = connecting \ {s}
    /\ CandidatepSocks' = CandidatepSocks \ {s}
    /\ \/ /\ isConnected
          /\ UNCHANGED <<strand, isConnected, pending_read, pSock, reads, sendShut, timers, writes>>
       \/ /\ ~isConnected
          /\ pSock' = s
          /\ isConnected' = TRUE
          /\ SetTimer("established")
          /\ pending_read' = TRUE
          /\ reads' = reads \cup {s}
          /\ sendShut' = sendShut \ {s}
          /\ Post(IF manuallyClosed THEN <<Task("AutoClose")>> ELSE <<>>)
          /\ BufferedGoesOut(s)
          /\ halfOpen' = pending_write
          /\ UNCHANGED <<sent, dropped>>
    /\ UNCHANGED <<use, calls, made, manuallyClosed, resolved, resolving, ramp_time_ms>>

MutAfterRead == <<Task("AutoClose")>>
AfterRead == <<Task("AutoClose"), Task("AutoOpen")>>
\* The read ends: the other side closed, or the connection is broken.  (A read
\* that brings data only hands it on and reads again.)
ReadFails(s) ==
    /\ s \in reads
    /\ reads' = reads \ {s}
    /\ pending_read' = FALSE
    /\ Post(AfterRead)
    /\ UNCHANGED <<use, calls, made, manuallyClosed, isConnected, pSock, CandidatepSocks,
                   connecting, sendShut, opening, writes>>

RunClose ==
    /\ Take("Close")
    /\ manuallyClosed' = TRUE
    /\ ramp_time_ms' = 0
    /\ timers' \in {{}, timers}
    /\ CandidatepSocks' = {}
    /\ TakeAndPost(<<Task("AutoClose")>>)
    /\ UNCHANGED <<use, calls, made, isConnected, pending_read, pSock, connecting, reads,
                   sendShut, resolved, resolving, writes>>

MutNeverShuts == FALSE
\* Auto-close shuts down the sending side itself, unless a write is outstanding.
ShutsNow == isConnected /\ ~pending_write

\* The socket's sending side is shut down here, or by the write handler.  (A write
\* that the other side keeps waiting is cancelled; its handler comes all the same.)
RunAutoClose ==
    /\ Take("AutoClose")
    /\ sendShut' = IF ShutsNow THEN sendShut \cup {pSock} ELSE sendShut
    /\ isConnected' = FALSE
    /\ TakeAndPost(<<>>)
    /\ UNCHANGED <<use, calls, made, manuallyClosed, pending_read, pSock, CandidatepSocks,
                   connecting, reads, opening, writes>>

-----------------------------------------------------------------------------
RunStrand == RunOpen \/ RunClose \/ RunAutoOpen \/ RunAutoClose \/ RunWrite

Next ==
    \/ UserCall \/ UserWrite
    \/ RunOpen \/ RunClose \/ RunAutoOpen \/ RunAutoClose \/ RunWrite
    \/ RetryHandler \/ EstablishedHandler
    \/ \E ok \in BOOLEAN : ResolveHandler(ok)
    \/ \E s \in Sockets : Connects(s) \/ ConnectFails(s) \/ ReadFails(s)
    \/ WriteHandler

Spec == Init /\ [][Next]_vars

\* It is opened; the strand runs, waits end, every socket operation and every
\* resolution ends; a try that is made again and again is made with a fresh end
\* point and succeeds at some time.
FairSpec ==
    /\ Spec
    /\ WF_vars(calls = 0 /\ UserCall)
    /\ WF_vars(RunStrand)
    /\ WF_vars(RetryHandler)
    /\ WF_vars(WriteHandler)
    /\ SF_vars(ResolveHandler(TRUE))
    /\ SF_vars((RunOpen \/ RunAutoOpen \/ RetryHandler) /\ connecting' \ connecting # {})
    /\ \A s \in Sockets : SF_vars(Connects(s)) /\ WF_vars(Connects(s) \/ ConnectFails(s))

-----------------------------------------------------------------------------
(* Properties *)

Bufs == [id : 1..use.writes, from : 1..Pieces]

\* Every variable has its type; the queue and what is being written stay within
\* buffer_limit each, whatever is queued again after a failed write.
TypeOK ==
    /\ \A i \in DOMAIN strand :
         strand[i].task \in {"Open", "Close", "AutoOpen", "AutoClose"} \/ strand[i].buf \in Bufs
    /\ use \in Uses /\ calls \in 0..Len(use.calls) /\ made \in 0..use.writes
    /\ {manuallyClosed, isConnected, pending_read, pending_write, resolved, halfOpen} \subseteq BOOLEAN
    /\ pSock \in Sockets \cup {NoSocket}
    /\ UNION {CandidatepSocks, connecting, reads, sendShut} \subseteq Sockets
    /\ resolving \in 0..MaxResolving
    /\ timers \subseteq {"retry", "established"}
    /\ ramp_time_ms \in 0..(RampMod - 1)
    /\ queue_writebufs \in Seq(Bufs) /\ Len(queue_writebufs) <= use.buffer_limit
    /\ dispatch_writebufs \in Seq(Bufs) /\ Len(dispatch_writebufs) <= use.buffer_limit
    /\ writing.sock \in Sockets \cup {NoSocket}
    /\ sent \in [(1..use.writes) \X (1..Pieces) -> Nat]
    /\ dropped \subseteq Bufs

\* Unless it was closed, the manager never rests without a connection: there is
\* one that is being read (so its loss will be noticed) or about to be closed,
\* or a try under way, posted or waiting for the timer.
KeepsTrying ==
    calls > 0 /\ ~Posted("Open") /\ ~manuallyClosed =>
        \/ pending_read
        \/ CandidatepSocks # {}
        \/ Posted("AutoOpen")
        \/ "retry" \in timers
        \/ resolving > 0

\* There is one read at a time, on the connection that is closed when it fails;
\* pending_read tells of it.
OneReader == /\ pending_read <=> reads # {}
             /\ reads \subseteq {pSock}

\* Every piece of every message was written once, or is held once, or was dropped
\* because the queue was full: no failure of a write, halfway or not, repeats or
\* loses data, and the queues keep to their limit.
PiecesConserved ==
    /\ TypeOK
    /\ \A m \in 1..made, p \in 1..Pieces :
         LET x == <<m, p>>
             Times(bufs) == Cardinality({i \in DOMAIN bufs : Holds(bufs[i], x)})
         IN  sent[x] + Times(queue_writebufs) + Times(dispatch_writebufs)
               + Cardinality({i \in DOMAIN strand :
                                strand[i].task = "Write" /\ Holds(strand[i].buf, x)})
               + (IF writing.kind = "direct" /\ Holds(writing.buf, x) THEN 1 ELSE 0)
               + Cardinality({b \in dropped : Holds(b, x)}) = 1

\* With a connection, data is held only while a write is outstanding, except after
\* a connection was made during a write to the last one.
HeldOnlyBehindWrite ==
    isConnected /\ ~manuallyClosed /\ ~pending_write /\ ~halfOpen
        => queue_writebufs = <<>> /\ dispatch_writebufs = <<>>

\* A connection that is given up is shut down by whoever is to do it, auto-close or
\* the handler of a write to it, so that the other side learns of it; except a
\* connection that was made during a write to the last one.
SendIsShut ==
    pSock # NoSocket /\ ~isConnected /\ ~halfOpen => pSock \in sendShut \/ writing.sock = pSock

\* The wait before a try never exceeds the limits the user set, and never gets shorter
\* but to start again at nothing, once the connection has been up long enough or the user
\* has closed it; or because the doubling does not fit in the bits of ramp_time_ms and
\* wraps round; or because it is set to a maximum that is below the minimum or does not
\* fit itself.
BackoffGrows ==
    [][/\ ramp_time_ms' <= min_retry_time \/ ramp_time_ms' <= max_retry_time
       /\ ramp_time_ms' < ramp_time_ms =>
            \/ ramp_time_ms' = 0 /\ (isConnected \/ manuallyClosed')
            \/ ramp_time_ms' = 2 * ramp_time_ms - RampMod
            \/ ramp_time_ms' = max_retry_time % RampMod]_vars

\* Whatever fails, a manager that was opened and not closed gets a connection
\* again.
Reconnects == []<>(isConnected \/ calls > 1)
=============================================================================
