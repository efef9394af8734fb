--------------------------- MODULE RcvPoolProofs ---------------------------
(* Proofs about the receive buffers of MiniPlex, for any endpoints, any limit  *)
(* on the buffers and any number of datagrams: no buffer is lost or recycled   *)
(* twice, none is received into while it is still to be sent, and the          *)
(* datagrams reach each endpoint in order.                                     *)
EXTENDS RcvPool, KeySequences, FiniteSetTheorems, TLAPS

-----------------------------------------------------------------------------
(* Queues *)

\* One element at most of the queue is in K.
AtMostOnce(q, K) == \A i, j \in DOMAIN q : q[i] \in K /\ q[j] \in K => i = j

\* Every element of the queue is related by R to those behind it.
InOrder(q, R) == \A i, j \in DOMAIN q : i < j => <<q[i], q[j]>> \in R

\* What is in a queue after an element was put at its end.
LEMMA QueueAppend ==
    ASSUME NEW S, NEW q \in Seq(S), NEW x \in S
    PROVE  /\ Append(q, x) \in Seq(S) /\ Append(q, x) # <<>>
           /\ ToSet(Append(q, x)) = ToSet(q) \cup {x}
<1> DEFINE t == Append(q, x)
<1>1. /\ t \in Seq(S) /\ Len(t) = Len(q) + 1
      /\ \A i \in 1..Len(q) : t[i] = q[i]
      /\ t[Len(q) + 1] = x
      /\ DOMAIN t = 1..Len(t) /\ DOMAIN q = 1..Len(q)
  OBVIOUS
<1> HIDE DEF t
<1>2. t # <<>>
  BY <1>1
<1>3. ToSet(t) \subseteq ToSet(q) \cup {x}
  BY <1>1 DEF ToSet
<1>4. ToSet(q) \cup {x} \subseteq ToSet(t)
  BY <1>1 DEF ToSet
<1> QED BY <1>1, <1>2, <1>3, <1>4 DEF t

\* What is in a queue, and after its head was taken.
LEMMA QueueTail ==
    ASSUME NEW S, NEW q \in Seq(S), q # <<>>
    PROVE  /\ Tail(q) \in Seq(S) /\ Head(q) \in S
           /\ ToSet(q) = {Head(q)} \cup ToSet(Tail(q))
<1> DEFINE t == Tail(q)
<1>1. /\ t \in Seq(S) /\ Len(t) = Len(q) - 1 /\ Len(q) \in Nat \ {0}
      /\ \A i \in 1..Len(t) : t[i] = q[i + 1]
      /\ Head(q) = q[1] /\ Head(q) \in S
      /\ DOMAIN t = 1..Len(t) /\ DOMAIN q = 1..Len(q)
  OBVIOUS
<1> HIDE DEF t
<1>2. ToSet(q) \subseteq {Head(q)} \cup ToSet(t)
  <2> SUFFICES ASSUME NEW i \in 1..Len(q) PROVE q[i] \in {Head(q)} \cup ToSet(t)
    BY <1>1 DEF ToSet
  <2>1. CASE i = 1
    BY <1>1, <2>1
  <2>2. CASE i # 1
    <3>1. i - 1 \in 1..Len(t) /\ t[i - 1] = q[i]
      BY <1>1, <2>2
    <3> QED BY <1>1, <3>1 DEF ToSet
  <2> QED BY <2>1, <2>2
<1>3. {Head(q)} \cup ToSet(t) \subseteq ToSet(q)
  BY <1>1 DEF ToSet
<1> QED BY <1>1, <1>2, <1>3 DEF t

\* The elements of a queue.
LEMMA QueueElements ==
    ASSUME NEW S, NEW q \in Seq(S)
    PROVE  ToSet(q) \subseteq S /\ (q = <<>> => ToSet(q) = {})
  BY DEF ToSet

\* Putting an element at the end keeps a kind at one, if there was none.
LEMMA OnceAppend ==
    ASSUME NEW S, NEW q \in Seq(S), NEW x \in S, NEW K,
           AtMostOnce(q, K), x \in K => \A y \in ToSet(q) : y \notin K
    PROVE  AtMostOnce(Append(q, x), K)
<1> DEFINE t == Append(q, x)
<1>1. /\ t \in Seq(S) /\ Len(t) = Len(q) + 1
      /\ \A i \in 1..Len(q) : t[i] = q[i]
      /\ t[Len(q) + 1] = x
      /\ DOMAIN t = 1..Len(t) /\ DOMAIN q = 1..Len(q)
  OBVIOUS
<1> HIDE DEF t
<1>2. x \in K => \A i \in 1..Len(q) : q[i] \notin K
  BY <1>1 DEF ToSet
<1>3. AtMostOnce(t, K)
  BY <1>1, <1>2 DEF AtMostOnce
<1> QED BY <1>3 DEF t

\* Taking the head leaves no other of its kind.
LEMMA OnceTail ==
    ASSUME NEW S, NEW q \in Seq(S), q # <<>>, NEW K, AtMostOnce(q, K)
    PROVE  /\ AtMostOnce(Tail(q), K)
           /\ Head(q) \in K => \A y \in ToSet(Tail(q)) : y \notin K
<1> DEFINE t == Tail(q)
<1>1. /\ t \in Seq(S) /\ Len(t) = Len(q) - 1 /\ Len(q) \in Nat \ {0}
      /\ \A i \in 1..Len(t) : t[i] = q[i + 1]
      /\ Head(q) = q[1]
      /\ DOMAIN t = 1..Len(t) /\ DOMAIN q = 1..Len(q)
  OBVIOUS
<1> HIDE DEF t
<1>2. AtMostOnce(t, K)
  <2> SUFFICES ASSUME NEW i \in 1..Len(t), NEW j \in 1..Len(t), t[i] \in K, t[j] \in K
               PROVE  i = j
    BY <1>1 DEF AtMostOnce
  <2>1. i + 1 \in DOMAIN q /\ j + 1 \in DOMAIN q /\ q[i + 1] \in K /\ q[j + 1] \in K
    BY <1>1
  <2>2. i + 1 = j + 1
    BY <2>1 DEF AtMostOnce
  <2> QED BY <2>2
<1>3. Head(q) \in K => \A i \in 1..Len(t) : t[i] \notin K
  BY <1>1 DEF AtMostOnce
<1>4. Head(q) \in K => \A y \in ToSet(t) : y \notin K
  BY <1>1, <1>3 DEF ToSet
<1> QED BY <1>2, <1>4 DEF t

\* Putting an element behind all that it may follow keeps the order.
LEMMA OrderAppend ==
    ASSUME NEW S, NEW q \in Seq(S), NEW x \in S, NEW R,
           InOrder(q, R), \A y \in ToSet(q) : <<y, x>> \in R
    PROVE  InOrder(Append(q, x), R)
<1> DEFINE t == Append(q, x)
<1>1. /\ t \in Seq(S) /\ Len(t) = Len(q) + 1
      /\ \A i \in 1..Len(q) : t[i] = q[i]
      /\ t[Len(q) + 1] = x
      /\ DOMAIN t = 1..Len(t) /\ DOMAIN q = 1..Len(q)
  OBVIOUS
<1> HIDE DEF t
<1>2. \A i \in 1..Len(q) : <<q[i], x>> \in R
  BY <1>1 DEF ToSet
<1>3. InOrder(t, R)
  BY <1>1, <1>2 DEF InOrder
<1> QED BY <1>3 DEF t

\* The head comes before all the others, which stay in order.
LEMMA OrderTail ==
    ASSUME NEW S, NEW q \in Seq(S), q # <<>>, NEW R, InOrder(q, R)
    PROVE  /\ InOrder(Tail(q), R)
           /\ \A y \in ToSet(Tail(q)) : <<Head(q), y>> \in R
<1> DEFINE t == Tail(q)
<1>1. /\ t \in Seq(S) /\ Len(t) = Len(q) - 1 /\ Len(q) \in Nat \ {0}
      /\ \A i \in 1..Len(t) : t[i] = q[i + 1]
      /\ Head(q) = q[1]
      /\ DOMAIN t = 1..Len(t) /\ DOMAIN q = 1..Len(q)
  OBVIOUS
<1> HIDE DEF t
<1>2. InOrder(t, R)
  <2> SUFFICES ASSUME NEW i \in 1..Len(t), NEW j \in 1..Len(t), i < j
               PROVE  <<t[i], t[j]>> \in R
    BY <1>1 DEF InOrder
  <2>1. i + 1 \in DOMAIN q /\ j + 1 \in DOMAIN q /\ i + 1 < j + 1
    BY <1>1
  <2>2. <<q[i + 1], q[j + 1]>> \in R
    BY <2>1 DEF InOrder
  <2> QED BY <1>1, <2>2
<1>3. \A i \in 1..Len(t) : <<Head(q), t[i]>> \in R
  BY <1>1 DEF InOrder
<1>4. \A y \in ToSet(t) : <<Head(q), y>> \in R
  BY <1>1, <1>3 DEF ToSet
<1> QED BY <1>2, <1>4 DEF t

USE MaxProcessQAssumption, MaxDatagramsAssumption

-----------------------------------------------------------------------------
(* The inductive invariant *)

OfKind(k) == {t \in Tasks : t.kind = k}
Handlers == [buf : Buffers, dgram : 0..MaxDatagrams, todo : SUBSET Endpoints]

Typed ==
    /\ rcv_buf_q \in Seq(Buffers)
    /\ rcv_buf_count \in 0..MaxProcessQ
    /\ rcv \in {Receiving(b) : b \in Buffers} \cup {WaitWrite, Queued}
    /\ socket_q \in Seq(Tasks)
    /\ process_q \in Seq(OfKind("Complete"))
    /\ proc \in {Idle} \cup Handlers
    /\ sends \in Seq(OfKind("Send"))
    /\ completing \subseteq OfKind("Send")
    /\ data \in [Buffers -> 0..MaxDatagrams]
    /\ received \in 0..MaxDatagrams
    /\ sentUpTo \in [Endpoints -> 0..MaxDatagrams]

\* The four places of a buffer: the pool, the way back, the receive, and use.
Pooled(b) == b \in ToSet(rcv_buf_q)
Returning(b) == RecycleTask(b) \in ToSet(socket_q)
Taken(b) == rcv = Receiving(b)
UsedBy(b, P, p, S, X) ==
    \/ \E t \in P : t.buf = b
    \/ p # Idle /\ p.buf = b
    \/ \E t \in S : t.kind \in {"Send", "Complete"} /\ t.buf = b
    \/ \E s \in X : s.buf = b
InUse(b) == UsedBy(b, ToSet(process_q), proc, ToSet(socket_q), ToSet(sends) \cup completing)

\* Each allocated buffer is in one place, the others in none.
OnePlace ==
    \A b \in Buffers :
        /\ b <= rcv_buf_count => Pooled(b) \/ Returning(b) \/ Taken(b) \/ InUse(b)
        /\ b > rcv_buf_count => ~Pooled(b) /\ ~Returning(b) /\ ~Taken(b) /\ ~InUse(b)
        /\ Pooled(b) => ~Returning(b) /\ ~Taken(b) /\ ~InUse(b)
        /\ Returning(b) => ~Taken(b) /\ ~InUse(b)
        /\ Taken(b) => ~InUse(b)

\* It is there once.
Single ==
    \A b \in Buffers : AtMostOnce(rcv_buf_q, {b}) /\ AtMostOnce(socket_q, {RecycleTask(b)})

\* There is one receive loop: while a task that goes on with it is queued, nothing
\* else does.
LoopTasks == OfKind("Rcv") \cup OfKind("Complete")
OneLoop ==
    /\ AtMostOnce(socket_q, LoopTasks)
    /\ (\E t \in ToSet(socket_q) : t \in LoopTasks) => rcv = Queued

\* The datagrams still to be handled, and what is still to be sent.
Waiting == {t \in ToSet(process_q) \cup ToSet(socket_q) : t.kind = "Complete" /\ ~t.err}
Upcoming == {t \in ToSet(sends) \cup ToSet(socket_q) : t.kind = "Send"}

\* What is in the buffers is what is to be handled or sent.
Intact ==
    /\ \A s \in Upcoming \cup completing : data[s.buf] = s.dgram
    /\ \A t \in Waiting : data[t.buf] = t.dgram /\ t.dgram > 0
    /\ proc # Idle /\ proc.todo # {} => data[proc.buf] = proc.dgram /\ proc.dgram > 0

PInv == Typed /\ OnePlace /\ Single /\ OneLoop /\ Intact

-----------------------------------------------------------------------------
(* Tasks and owners *)

\* The fields of a task.
LEMMA TaskFacts ==
    ASSUME NEW t \in Tasks
    PROVE  /\ t.kind \in {"Rcv", "Complete", "Send", "Recycle"}
           /\ t.kind = "Rcv" => t = RcvTask
           /\ t.kind = "Complete" => t.buf \in Buffers /\ t.dgram \in 0..MaxDatagrams
                                     /\ t.err \in BOOLEAN
           /\ t.kind = "Send" => t.buf \in Buffers /\ t.dgram \in 1..MaxDatagrams
                                 /\ t.ep \in Endpoints
           /\ t.kind = "Recycle" => t.buf \in Buffers /\ t = RecycleTask(t.buf)
<1> USE DEF RcvTask, CompleteTask, SendTask, RecycleTask
<1>1. CASE t = RcvTask
  BY <1>1
<1>2. ASSUME NEW b \in Buffers, NEW d \in 0..MaxDatagrams, NEW err \in BOOLEAN,
             t = CompleteTask(b, d, err)
      PROVE  t.kind = "Complete" /\ t.buf = b /\ t.dgram = d /\ t.err = err
  BY <1>2
<1>3. ASSUME NEW b \in Buffers, NEW d \in 1..MaxDatagrams, NEW e \in Endpoints,
             t = SendTask(b, d, e)
      PROVE  t.kind = "Send" /\ t.buf = b /\ t.dgram = d /\ t.ep = e
  BY <1>3
<1>4. ASSUME NEW b \in Buffers, t = RecycleTask(b)
      PROVE  t.kind = "Recycle" /\ t.buf = b
  BY <1>4
<1> QED BY <1>1, <1>2, <1>3, <1>4 DEF Tasks

\* The tasks there are.
LEMMA TasksMade ==
    /\ RcvTask \in OfKind("Rcv")
    /\ \A b \in Buffers, d \in 0..MaxDatagrams, err \in BOOLEAN :
         CompleteTask(b, d, err) \in OfKind("Complete")
    /\ \A b \in Buffers, d \in 1..MaxDatagrams, e \in Endpoints :
         SendTask(b, d, e) \in OfKind("Send")
    /\ \A b \in Buffers : RecycleTask(b) \in OfKind("Recycle")
<1>1. RcvTask \in Tasks /\ RcvTask.kind = "Rcv"
  BY DEF Tasks, RcvTask
<1>2. ASSUME NEW b \in Buffers, NEW d \in 0..MaxDatagrams, NEW err \in BOOLEAN
      PROVE  CompleteTask(b, d, err) \in Tasks /\ CompleteTask(b, d, err).kind = "Complete"
  BY DEF Tasks, CompleteTask
<1>3. ASSUME NEW b \in Buffers, NEW d \in 1..MaxDatagrams, NEW e \in Endpoints
      PROVE  SendTask(b, d, e) \in Tasks /\ SendTask(b, d, e).kind = "Send"
  BY DEF Tasks, SendTask
<1>4. ASSUME NEW b \in Buffers
      PROVE  RecycleTask(b) \in Tasks /\ RecycleTask(b).kind = "Recycle"
  BY DEF Tasks, RecycleTask
<1> QED BY <1>1, <1>2, <1>3, <1>4 DEF OfKind

\* The fields of the tasks that are made.
LEMMA TaskFields ==
    ASSUME NEW b, NEW d, NEW x
    PROVE  /\ CompleteTask(b, d, x).kind = "Complete" /\ CompleteTask(b, d, x).buf = b
           /\ CompleteTask(b, d, x).dgram = d /\ CompleteTask(b, d, x).err = x
           /\ SendTask(b, d, x).kind = "Send" /\ SendTask(b, d, x).buf = b
           /\ SendTask(b, d, x).dgram = d /\ SendTask(b, d, x).ep = x
           /\ RecycleTask(b).kind = "Recycle" /\ RecycleTask(b).buf = b
           /\ RcvTask.kind = "Rcv"
  BY DEF RcvTask, CompleteTask, SendTask, RecycleTask

\* The receive loop has one state at a time.
LEMMA ReceiveStates ==
    ASSUME NEW b, NEW c
    PROVE  /\ Receiving(b) # WaitWrite /\ Receiving(b) # Queued /\ WaitWrite # Queued
           /\ Receiving(b) = Receiving(c) => b = c
           /\ Receiving(b).op = "receive" /\ Receiving(b).buf = b
           /\ WaitWrite.op # "receive" /\ Queued.op # "receive"
  BY DEF Receiving, WaitWrite, Queued

\* A handler that runs is not Idle.
LEMMA HandlerRuns == \A h \in Handlers : h # Idle
<1>1. Handlers \subseteq [buf : Nat, dgram : Nat, todo : SUBSET Endpoints]
  BY DEF Handlers, Buffers
<1> QED BY <1>1, IdleAssumption

\* Who shares a buffer depends only on what is in the queues.
LEMMA SharedIs ==
    ASSUME NEW b, NEW pq, NEW p, NEW sq, NEW out
    PROVE  Shared(b, pq, p, sq, out) <=> UsedBy(b, ToSet(pq), p, ToSet(sq), out)
  BY DEF Shared, UsedBy, ToSet

\* What runs next on socket_strand.
LEMMA TaskTaken ==
    ASSUME Typed, NEW k, NextTask(k)
    PROVE  /\ Head(socket_q) \in OfKind(k)
           /\ Tail(socket_q) \in Seq(Tasks)
           /\ ToSet(socket_q) = {Head(socket_q)} \cup ToSet(Tail(socket_q))
           /\ ToSet(socket_q) \subseteq Tasks
<1>1. socket_q \in Seq(Tasks) /\ socket_q # <<>> /\ Head(socket_q).kind = k
  BY DEF Typed, NextTask
<1> QED BY <1>1, QueueTail, QueueElements DEF OfKind

\* The elements of the queues have their types.
LEMMA InQueues ==
    ASSUME Typed
    PROVE  /\ ToSet(rcv_buf_q) \subseteq Buffers
           /\ ToSet(socket_q) \subseteq Tasks
           /\ ToSet(process_q) \subseteq OfKind("Complete")
           /\ ToSet(sends) \subseteq OfKind("Send")
  BY QueueElements DEF Typed

-----------------------------------------------------------------------------
(* Ownership *)

\* Rcv moves a buffer of the pool, or a new one, into the receive; there was none.
LEMMA RcvKeeps ==
    ASSUME Typed, OnePlace, Single, Rcv, rcv = Queued,
           \A b \in Buffers : /\ Returning(b)' <=> Returning(b)
                              /\ InUse(b)' <=> InUse(b)
    PROVE  /\ OnePlace'
           /\ rcv_buf_q' \in Seq(Buffers) /\ rcv_buf_count' \in 0..MaxProcessQ
           /\ rcv' \in {Receiving(b) : b \in Buffers} \cup {WaitWrite, Queued}
           /\ \A b \in Buffers : AtMostOnce(rcv_buf_q', {b})
<1>1. \A b \in Buffers : ~Taken(b)
  BY ReceiveStates DEF Taken
<1>2. rcv_buf_q \in Seq(Buffers) /\ rcv_buf_count \in 0..MaxProcessQ
  BY DEF Typed
<1>3. CASE /\ rcv_buf_q # <<>> /\ rcv' = Receiving(Head(rcv_buf_q))
           /\ rcv_buf_q' = Tail(rcv_buf_q) /\ UNCHANGED rcv_buf_count
  <2> DEFINE h == Head(rcv_buf_q)
  <2>1. /\ h \in Buffers /\ Tail(rcv_buf_q) \in Seq(Buffers)
        /\ ToSet(rcv_buf_q) = {h} \cup ToSet(Tail(rcv_buf_q))
    BY <1>2, <1>3, QueueTail
  <2>2. \A b \in Buffers : AtMostOnce(Tail(rcv_buf_q), {b})
    BY <1>2, <1>3, OnceTail DEF Single
  <2>3. h \notin ToSet(Tail(rcv_buf_q))
    <3>1. AtMostOnce(rcv_buf_q, {h}) /\ Head(rcv_buf_q) \in {h}
      BY <2>1 DEF Single
    <3>2. \A y \in ToSet(Tail(rcv_buf_q)) : y \notin {h}
      BY <1>2, <1>3, <3>1, OnceTail
    <3> QED BY <3>2
  <2> HIDE DEF h
  <2>4. \A b \in Buffers : Pooled(b)' <=> Pooled(b) /\ b # h
    BY <1>3, <2>1, <2>3 DEF Pooled
  <2>5. \A b \in Buffers : Taken(b)' <=> b = h
    BY <1>3, ReceiveStates DEF Taken, h
  <2>6. Pooled(h)
    BY <2>1 DEF Pooled
  <2>7. OnePlace'
    BY <1>1, <1>2, <1>3, <2>1, <2>4, <2>5, <2>6 DEF OnePlace
  <2>8. rcv' \in {Receiving(b) : b \in Buffers}
    BY <1>3, <2>1 DEF h
  <2> QED BY <1>2, <1>3, <2>1, <2>2, <2>7, <2>8
<1>4. CASE /\ rcv_buf_q = <<>> /\ MayAllocate /\ rcv_buf_count' = rcv_buf_count + 1
           /\ rcv' = Receiving(rcv_buf_count + 1) /\ UNCHANGED rcv_buf_q
  <2>1. rcv_buf_count + 1 \in Buffers /\ rcv_buf_count' \in 0..MaxProcessQ
    BY <1>2, <1>4 DEF MayAllocate, Buffers
  <2>2. \A b \in Buffers : Pooled(b)' <=> Pooled(b)
    BY <1>4 DEF Pooled
  <2>3. \A b \in Buffers : Taken(b)' <=> b = rcv_buf_count + 1
    BY <1>4, ReceiveStates DEF Taken
  <2>4. OnePlace'
    BY <1>1, <1>2, <1>4, <2>1, <2>2, <2>3 DEF OnePlace, Buffers
  <2>5. rcv' \in {Receiving(b) : b \in Buffers}
    BY <1>4, <2>1
  <2> QED BY <1>2, <1>4, <2>1, <2>4, <2>5 DEF Single
<1>5. CASE /\ rcv_buf_q = <<>> /\ ~MayAllocate /\ rcv' = WaitWrite
           /\ UNCHANGED <<rcv_buf_q, rcv_buf_count>>
  <2>1. \A b \in Buffers : (Pooled(b)' <=> Pooled(b)) /\ ~Taken(b)'
    BY <1>5, ReceiveStates DEF Pooled, Taken
  <2>2. OnePlace'
    BY <1>1, <1>5, <2>1 DEF OnePlace
  <2> QED BY <1>2, <1>5, <2>2 DEF Single
<1> QED BY <1>3, <1>4, <1>5 DEF Rcv

\* While the receive loop's task is the next, there is no receive, and no other
\* task of the loop.
LEMMA LoopTaken ==
    ASSUME Typed, OneLoop, socket_q # <<>>, Head(socket_q) \in LoopTasks
    PROVE  /\ rcv = Queued
           /\ \A t \in ToSet(Tail(socket_q)) : t \notin LoopTasks
<1>1. socket_q \in Seq(Tasks)
  BY DEF Typed
<1>2. Head(socket_q) \in ToSet(socket_q)
  BY <1>1, QueueTail
<1>3. \A t \in ToSet(Tail(socket_q)) : t \notin LoopTasks
  BY <1>1, OnceTail DEF OneLoop
<1> QED BY <1>2, <1>3 DEF OneLoop

\* Intact is kept where nothing is received and nothing new is to be sent.
LEMMA IntactKept ==
    ASSUME Intact, data' = data, proc' = proc,
           Waiting' \subseteq Waiting,
           (Upcoming \cup completing)' \subseteq Upcoming \cup completing
    PROVE  Intact'
  BY DEF Intact

\* Taking the next task keeps what is unique on socket_strand unique.
LEMMA UniqueTail ==
    ASSUME Typed, Single, OneLoop, socket_q # <<>>
    PROVE  /\ AtMostOnce(Tail(socket_q), LoopTasks)
           /\ \A b \in Buffers : AtMostOnce(Tail(socket_q), {RecycleTask(b)})
  BY OnceTail DEF Typed, Single, OneLoop

\* The start of a receive, which takes or allocates a buffer, keeps the invariant.
LEMMA RunRcvKeeps == ASSUME PInv, RunRcv PROVE PInv'
<1> DEFINE h == Head(socket_q)
<1>1. /\ h \in OfKind("Rcv") /\ Tail(socket_q) \in Seq(Tasks) /\ socket_q # <<>>
      /\ ToSet(socket_q) = {h} \cup ToSet(Tail(socket_q))
      /\ socket_q' = Tail(socket_q)
  BY TaskTaken DEF PInv, RunRcv, NextTask
<1> HIDE DEF h
<1>2. rcv = Queued /\ \A t \in ToSet(Tail(socket_q)) : t \notin LoopTasks
  BY <1>1, LoopTaken DEF PInv, LoopTasks, h
<1>3. \A b \in Buffers : /\ Returning(b)' <=> Returning(b)
                         /\ InUse(b)' <=> InUse(b)
  <2>1. h.kind = "Rcv" /\ \A b : h # RecycleTask(b)
    BY <1>1, TaskFields DEF OfKind
  <2> QED BY <1>1, <2>1 DEF RunRcv, Returning, InUse, UsedBy
<1>4. /\ OnePlace' /\ rcv_buf_q' \in Seq(Buffers) /\ rcv_buf_count' \in 0..MaxProcessQ
      /\ rcv' \in {Receiving(b) : b \in Buffers} \cup {WaitWrite, Queued}
      /\ \A b \in Buffers : AtMostOnce(rcv_buf_q', {b})
  BY <1>2, <1>3, RcvKeeps DEF PInv, RunRcv
<1>5. Typed'
  BY <1>1, <1>4 DEF PInv, Typed, RunRcv
<1>6. Single' /\ OneLoop'
  <2>1. /\ AtMostOnce(Tail(socket_q), LoopTasks)
        /\ \A b \in Buffers : AtMostOnce(Tail(socket_q), {RecycleTask(b)})
    BY <1>1, UniqueTail DEF PInv
  <2> QED BY <1>1, <1>2, <1>4, <2>1 DEF Single, OneLoop
<1>7. Intact'
  BY <1>1, IntactKept DEF PInv, RunRcv, Waiting, Upcoming
<1> QED BY <1>4, <1>5, <1>6, <1>7 DEF PInv

\* So does the end of a receive, which passes the buffer on and starts the next.
LEMMA RunCompleteKeeps == ASSUME PInv, RunComplete PROVE PInv'
<1> DEFINE h == Head(socket_q)
<1>1. /\ h \in OfKind("Complete") /\ Tail(socket_q) \in Seq(Tasks) /\ socket_q # <<>>
      /\ ToSet(socket_q) = {h} \cup ToSet(Tail(socket_q))
      /\ socket_q' = Tail(socket_q)
  BY TaskTaken DEF PInv, RunComplete, NextTask
<1>2. /\ process_q' \in Seq(OfKind("Complete")) /\ ToSet(process_q') = ToSet(process_q) \cup {h}
  <2>1. process_q \in Seq(OfKind("Complete")) /\ process_q' = Append(process_q, h)
    BY DEF PInv, Typed, RunComplete, ProcessPosted
  <2> QED BY <1>1, <2>1, QueueAppend
<1> HIDE DEF h
<1>3. rcv = Queued /\ \A t \in ToSet(Tail(socket_q)) : t \notin LoopTasks
  BY <1>1, LoopTaken DEF PInv, LoopTasks, h
<1>4. \A b \in Buffers : /\ Returning(b)' <=> Returning(b)
                         /\ InUse(b)' <=> InUse(b)
  <2>1. h.kind = "Complete" /\ \A b : h # RecycleTask(b)
    BY <1>1, TaskFields DEF OfKind
  <2> QED BY <1>1, <1>2, <2>1 DEF RunComplete, Returning, InUse, UsedBy
<1>5. /\ OnePlace' /\ rcv_buf_q' \in Seq(Buffers) /\ rcv_buf_count' \in 0..MaxProcessQ
      /\ rcv' \in {Receiving(b) : b \in Buffers} \cup {WaitWrite, Queued}
      /\ \A b \in Buffers : AtMostOnce(rcv_buf_q', {b})
  BY <1>3, <1>4, RcvKeeps DEF PInv, RunComplete
<1>6. Typed'
  BY <1>1, <1>2, <1>5 DEF PInv, Typed, RunComplete
<1>7. Single' /\ OneLoop'
  <2>1. /\ AtMostOnce(Tail(socket_q), LoopTasks)
        /\ \A b \in Buffers : AtMostOnce(Tail(socket_q), {RecycleTask(b)})
    BY <1>1, UniqueTail DEF PInv
  <2> QED BY <1>1, <1>3, <1>5, <2>1 DEF Single, OneLoop
<1>8. Intact'
  <2>1. Waiting' = Waiting
    BY <1>1, <1>2 DEF Waiting
  <2>2. Upcoming' = Upcoming
    BY <1>1 DEF RunComplete, Upcoming, OfKind
  <2> QED BY <2>1, <2>2, IntactKept DEF PInv, RunComplete
<1> QED BY <1>5, <1>6, <1>7, <1>8 DEF PInv

\* The recycler puts a buffer that nobody has back into the pool.
LEMMA RunRecycleKeeps == ASSUME PInv, RunRecycle PROVE PInv'
<1> DEFINE h == Head(socket_q)
           x == h.buf
<1>1. /\ h \in OfKind("Recycle") /\ Tail(socket_q) \in Seq(Tasks) /\ socket_q # <<>>
      /\ ToSet(socket_q) = {h} \cup ToSet(Tail(socket_q))
      /\ socket_q' = Tail(socket_q)
  BY TaskTaken DEF PInv, RunRecycle, NextTask
<1>2. x \in Buffers /\ h = RecycleTask(x) /\ rcv_buf_q' = Append(rcv_buf_q, x)
  BY <1>1, TaskFacts DEF OfKind, RunRecycle
<1>3. h \notin ToSet(Tail(socket_q))
  <2>1. AtMostOnce(socket_q, {h}) /\ Head(socket_q) \in {h} /\ socket_q \in Seq(Tasks)
    BY <1>2 DEF PInv, Single, Typed
  <2>2. \A y \in ToSet(Tail(socket_q)) : y \notin {h}
    BY <1>1, <2>1, OnceTail
  <2> QED BY <2>2
<1> HIDE DEF h, x
<1>4. /\ rcv_buf_q' \in Seq(Buffers) /\ ToSet(rcv_buf_q') = ToSet(rcv_buf_q) \cup {x}
  BY <1>2, QueueAppend DEF PInv, Typed
<1>5. \A b \in Buffers : /\ Pooled(b)' <=> Pooled(b) \/ b = x
                         /\ Returning(b)' <=> Returning(b) /\ b # x
                         /\ InUse(b)' <=> InUse(b)
                         /\ Taken(b)' <=> Taken(b)
  <2>1. \A b : RecycleTask(b) = h <=> b = x
    BY <1>2, TaskFields
  <2>2. h.kind = "Recycle"
    BY <1>1 DEF OfKind
  <2>3. \A b \in Buffers : Pooled(b)' <=> Pooled(b) \/ b = x
    BY <1>4 DEF Pooled
  <2>4. \A b \in Buffers : Returning(b)' <=> Returning(b) /\ b # x
    BY <1>1, <1>3, <2>1 DEF Returning
  <2>5. \A b \in Buffers : InUse(b)' <=> InUse(b)
    BY <1>1, <2>2 DEF RunRecycle, InUse, UsedBy
  <2>6. \A b \in Buffers : Taken(b)' <=> Taken(b)
    BY DEF RunRecycle, Taken
  <2> QED BY <2>3, <2>4, <2>5, <2>6
<1>6. Returning(x)
  BY <1>1, <1>2 DEF Returning
<1>7. OnePlace'
  BY <1>2, <1>5, <1>6 DEF PInv, OnePlace, RunRecycle
<1>8. Typed'
  BY <1>1, <1>4 DEF PInv, Typed, RunRecycle
<1>9. Single' /\ OneLoop'
  <2>1. /\ AtMostOnce(Tail(socket_q), LoopTasks)
        /\ \A b \in Buffers : AtMostOnce(Tail(socket_q), {RecycleTask(b)})
    BY <1>1, UniqueTail DEF PInv
  <2>2. x \notin ToSet(rcv_buf_q)
    BY <1>2, <1>6 DEF PInv, OnePlace, Pooled
  <2>3. ASSUME NEW b \in Buffers PROVE AtMostOnce(rcv_buf_q', {b})
    <3>1. rcv_buf_q \in Seq(Buffers) /\ AtMostOnce(rcv_buf_q, {b})
      BY DEF PInv, Typed, Single
    <3>2. x \in {b} => \A y \in ToSet(rcv_buf_q) : y \notin {b}
      BY <2>2
    <3> QED BY <1>2, <3>1, <3>2, OnceAppend
  <2>4. (\E t \in ToSet(socket_q') : t \in LoopTasks) => rcv' = Queued
    BY <1>1 DEF PInv, OneLoop, RunRecycle
  <2> QED BY <1>1, <2>1, <2>3, <2>4 DEF Single, OneLoop
<1>10. Intact'
  BY <1>1, IntactKept DEF PInv, RunRecycle, Waiting, Upcoming
<1> QED BY <1>7, <1>8, <1>9, <1>10 DEF PInv

\* A send that starts keeps the buffer in use.
LEMMA RunSendKeeps == ASSUME PInv, RunSend PROVE PInv'
<1> DEFINE h == Head(socket_q)
<1>1. /\ h \in OfKind("Send") /\ Tail(socket_q) \in Seq(Tasks) /\ socket_q # <<>>
      /\ ToSet(socket_q) = {h} \cup ToSet(Tail(socket_q))
      /\ socket_q' = Tail(socket_q)
  BY TaskTaken DEF PInv, RunSend, NextTask
<1>2. sends' \in Seq(OfKind("Send")) /\ ToSet(sends') = ToSet(sends) \cup {h}
  BY <1>1, QueueAppend DEF PInv, Typed, RunSend
<1> HIDE DEF h
<1>3. h.kind = "Send" /\ \A b : h # RecycleTask(b)
  BY <1>1, TaskFields DEF OfKind
<1>4. OnePlace'
  <2>1. \A b \in Buffers : Pooled(b)' <=> Pooled(b)
    BY DEF RunSend, Pooled
  <2>2. \A b \in Buffers : Taken(b)' <=> Taken(b)
    BY DEF RunSend, Taken
  <2>3. \A b \in Buffers : Returning(b)' <=> Returning(b)
    BY <1>1, <1>3 DEF Returning
  <2>4. \A b \in Buffers : InUse(b)' <=> InUse(b)
    BY <1>1, <1>2, <1>3 DEF RunSend, InUse, UsedBy
  <2> QED BY <2>1, <2>2, <2>3, <2>4 DEF PInv, OnePlace, RunSend
<1>5. Typed'
  BY <1>1, <1>2 DEF PInv, Typed, RunSend
<1>6. Single' /\ OneLoop'
  <2>1. /\ AtMostOnce(Tail(socket_q), LoopTasks)
        /\ \A b \in Buffers : AtMostOnce(Tail(socket_q), {RecycleTask(b)})
    BY <1>1, UniqueTail DEF PInv
  <2> QED BY <1>1, <2>1 DEF PInv, RunSend, Single, OneLoop
<1>7. Intact'
  <2>1. Waiting' \subseteq Waiting
    BY <1>1 DEF Waiting, RunSend
  <2>2. Upcoming' = Upcoming
    BY <1>1, <1>2 DEF Upcoming
  <2> QED BY <2>1, <2>2, IntactKept DEF PInv, RunSend
<1> QED BY <1>4, <1>5, <1>6, <1>7 DEF PInv

\* A send that is over within its task puts the buffer back if it was the last to
\* use it.
LEMMA RunSendInlineKeeps == ASSUME PInv, RunSendInline PROVE PInv'
<1> DEFINE h == Head(socket_q)
           x == h.buf
           used == UsedBy(x, ToSet(process_q), proc, ToSet(Tail(socket_q)), completing)
<1>1. /\ h \in OfKind("Send") /\ Tail(socket_q) \in Seq(Tasks) /\ socket_q # <<>>
      /\ ToSet(socket_q) = {h} \cup ToSet(Tail(socket_q))
      /\ socket_q' = Tail(socket_q)
  BY TaskTaken DEF PInv, RunSendInline, NextTask
<1>2. /\ h.kind = "Send" /\ x \in Buffers /\ h.ep \in Endpoints /\ h.dgram \in 1..MaxDatagrams
      /\ \A b : h # RecycleTask(b)
  BY <1>1, TaskFacts, TaskFields DEF OfKind
<1>3. rcv_buf_q' = IF used THEN rcv_buf_q ELSE Append(rcv_buf_q, x)
  BY SharedIs DEF RunSendInline
<1>4. ToSet(sends) = {} /\ sends = <<>>
  BY DEF RunSendInline, ToSet
<1> HIDE DEF h, x, used
<1>5. \A b \in Buffers : /\ Returning(b)' <=> Returning(b)
                         /\ Taken(b)' <=> Taken(b)
                         /\ b # x => (InUse(b)' <=> InUse(b))
                         /\ b = x => (InUse(b)' <=> used)
  <2>1. \A b \in Buffers : Returning(b)' <=> Returning(b)
    BY <1>1, <1>2 DEF Returning
  <2>2. \A b \in Buffers : Taken(b)' <=> Taken(b)
    BY DEF RunSendInline, Taken
  <2>3. \A b \in Buffers : b # x => (InUse(b)' <=> InUse(b))
    BY <1>1, <1>2 DEF RunSendInline, InUse, UsedBy, x
  <2>4. ASSUME NEW b \in Buffers, b = x PROVE InUse(b)' <=> used
    <3>1. ToSet(sends) \cup completing = completing
      BY <1>4
    <3>2. /\ ToSet(process_q') = ToSet(process_q) /\ proc' = proc
          /\ ToSet(sends') \cup completing' = completing
      BY <3>1 DEF RunSendInline
    <3>3. InUse(b)' <=> UsedBy(b, ToSet(process_q'), proc', ToSet(socket_q'), ToSet(sends') \cup completing')
      BY DEF InUse
    <3> QED BY <1>1, <2>4, <3>2, <3>3 DEF used
  <2> QED BY <2>1, <2>2, <2>3, <2>4
<1>6. InUse(x)
  BY <1>1, <1>2 DEF InUse, UsedBy, x
<1>7. /\ rcv_buf_q' \in Seq(Buffers)
      /\ used => \A b \in Buffers : Pooled(b)' <=> Pooled(b)
      /\ ~used => \A b \in Buffers : Pooled(b)' <=> Pooled(b) \/ b = x
  <2>1. rcv_buf_q \in Seq(Buffers)
    BY DEF PInv, Typed
  <2>2. Append(rcv_buf_q, x) \in Seq(Buffers) /\ ToSet(Append(rcv_buf_q, x)) = ToSet(rcv_buf_q) \cup {x}
    BY <1>2, <2>1, QueueAppend
  <2> QED BY <1>3, <2>1, <2>2 DEF Pooled
<1>8. OnePlace'
  <2>1. CASE used
    BY <1>2, <1>5, <1>6, <1>7, <2>1 DEF PInv, OnePlace, RunSendInline
  <2>2. CASE ~used
    BY <1>2, <1>5, <1>6, <1>7, <2>2 DEF PInv, OnePlace, RunSendInline
  <2> QED BY <2>1, <2>2
<1>9. Typed'
  <2>1. data[x] \in 0..MaxDatagrams
    BY <1>2 DEF PInv, Typed
  <2>2. sentUpTo' \in [Endpoints -> 0..MaxDatagrams]
    BY <1>2, <2>1 DEF PInv, Typed, RunSendInline, x, h
  <2> QED BY <1>1, <1>7, <2>2 DEF PInv, Typed, RunSendInline
<1>10. Single' /\ OneLoop'
  <2>1. /\ AtMostOnce(Tail(socket_q), LoopTasks)
        /\ \A b \in Buffers : AtMostOnce(Tail(socket_q), {RecycleTask(b)})
    BY <1>1, UniqueTail DEF PInv
  <2>2. x \notin ToSet(rcv_buf_q)
    BY <1>2, <1>6 DEF PInv, OnePlace, Pooled
  <2>3. ASSUME NEW b \in Buffers PROVE AtMostOnce(rcv_buf_q', {b})
    <3>1. rcv_buf_q \in Seq(Buffers) /\ AtMostOnce(rcv_buf_q, {b})
      BY DEF PInv, Typed, Single
    <3>2. x \in {b} => \A y \in ToSet(rcv_buf_q) : y \notin {b}
      BY <2>2
    <3>3. AtMostOnce(Append(rcv_buf_q, x), {b})
      BY <1>2, <3>1, <3>2, OnceAppend
    <3> QED BY <1>3, <3>1, <3>3
  <2>4. (\E t \in ToSet(socket_q') : t \in LoopTasks) => rcv' = Queued
    BY <1>1 DEF PInv, OneLoop, RunSendInline
  <2> QED BY <1>1, <2>1, <2>3, <2>4 DEF Single, OneLoop
<1>11. Intact'
  BY <1>1, IntactKept DEF PInv, RunSendInline, Waiting, Upcoming
<1> QED BY <1>8, <1>9, <1>10, <1>11 DEF PInv

\* Posting to socket_strand keeps what is unique there unique.
LEMMA TaskPosted ==
    ASSUME Typed, Single, OneLoop, NEW t \in Tasks, socket_q' = Append(socket_q, t),
           t \in LoopTasks => \A y \in ToSet(socket_q) : y \notin LoopTasks,
           \A b \in Buffers : t = RecycleTask(b) => ~Returning(b)
    PROVE  /\ socket_q' \in Seq(Tasks)
           /\ ToSet(socket_q') = ToSet(socket_q) \cup {t}
           /\ AtMostOnce(socket_q', LoopTasks)
           /\ \A b \in Buffers : AtMostOnce(socket_q', {RecycleTask(b)})
<1>1. socket_q \in Seq(Tasks) /\ AtMostOnce(socket_q, LoopTasks)
  BY DEF Typed, OneLoop
<1>2. ASSUME NEW b \in Buffers PROVE AtMostOnce(Append(socket_q, t), {RecycleTask(b)})
  <2>1. AtMostOnce(socket_q, {RecycleTask(b)})
    BY DEF Single
  <2>2. t \in {RecycleTask(b)} => \A y \in ToSet(socket_q) : y \notin {RecycleTask(b)}
    BY DEF Returning
  <2> QED BY <1>1, <2>1, <2>2, OnceAppend
<1>3. AtMostOnce(Append(socket_q, t), LoopTasks)
  BY <1>1, OnceAppend
<1> QED BY <1>1, <1>2, <1>3, QueueAppend

\* A receive that ends hands its buffer over to the completion.
LEMMA ReceiveEnds ==
    ASSUME PInv, rcv.op = "receive", NEW d \in 0..MaxDatagrams, NEW err \in BOOLEAN,
           socket_q' = Append(socket_q, CompleteTask(rcv.buf, d, err)), rcv' = Queued,
           UNCHANGED <<rcv_buf_q, rcv_buf_count, process_q, proc, sends, completing>>
    PROVE  /\ OnePlace' /\ Single' /\ OneLoop'
           /\ rcv.buf \in Buffers /\ ~InUse(rcv.buf)
           /\ socket_q' \in Seq(Tasks)
           /\ ToSet(socket_q') = ToSet(socket_q) \cup {CompleteTask(rcv.buf, d, err)}
<1>1. PICK x \in Buffers : rcv = Receiving(x)
  BY ReceiveStates DEF PInv, Typed
<1>2. rcv.buf = x
  BY <1>1, ReceiveStates
<1> DEFINE t == CompleteTask(x, d, err)
<1>3. /\ t \in OfKind("Complete") /\ t.kind = "Complete" /\ t.buf = x
      /\ \A b : t # RecycleTask(b)
  <2>1. t \in OfKind("Complete")
    BY TasksMade
  <2>2. t.kind = "Complete" /\ t.buf = x
    BY DEF CompleteTask
  <2>3. \A b : RecycleTask(b).kind = "Recycle"
    BY DEF RecycleTask
  <2> HIDE DEF t
  <2> QED BY <2>1, <2>2, <2>3
<1> HIDE DEF t
<1>4. \A y \in ToSet(socket_q) : y \notin LoopTasks
  BY <1>1, ReceiveStates DEF PInv, OneLoop
<1>5. socket_q' = Append(socket_q, t)
  BY <1>2 DEF t
<1>6. /\ socket_q' \in Seq(Tasks)
      /\ ToSet(socket_q') = ToSet(socket_q) \cup {t}
      /\ AtMostOnce(socket_q', LoopTasks)
      /\ \A b \in Buffers : AtMostOnce(socket_q', {RecycleTask(b)})
  BY <1>3, <1>4, <1>5, TaskPosted DEF PInv, OfKind
<1>7. \A b \in Buffers : Pooled(b)' <=> Pooled(b)
  BY DEF Pooled
<1>8. \A b \in Buffers : Returning(b)' <=> Returning(b)
  BY <1>3, <1>6 DEF Returning
<1>9. \A b \in Buffers : ~Taken(b)' /\ (Taken(b) <=> b = x)
  BY <1>1, ReceiveStates DEF Taken
<1>10. \A b \in Buffers : InUse(b)' <=> InUse(b) \/ b = x
  BY <1>3, <1>6 DEF InUse, UsedBy
<1>11. OnePlace'
  BY <1>7, <1>8, <1>9, <1>10 DEF PInv, OnePlace
<1>12. ~InUse(x)
  BY <1>9 DEF PInv, OnePlace
<1> QED BY <1>2, <1>6, <1>11, <1>12 DEF PInv, Single, OneLoop, t

\* A datagram arrives in a buffer that nobody uses.
LEMMA DatagramArrivesKeeps == ASSUME PInv, DatagramArrives PROVE PInv'
<1> DEFINE x == rcv.buf
           n == received + 1
           t == CompleteTask(x, n, FALSE)
<1>1. n \in 0..MaxDatagrams /\ n > 0 /\ FALSE \in BOOLEAN
  BY DEF PInv, Typed, DatagramArrives
<1>2. /\ OnePlace' /\ Single' /\ OneLoop'
      /\ x \in Buffers /\ ~InUse(x)
      /\ socket_q' \in Seq(Tasks)
      /\ ToSet(socket_q') = ToSet(socket_q) \cup {t}
  BY <1>1, ReceiveEnds DEF DatagramArrives
<1>3. /\ t.kind = "Complete" /\ t.buf = x /\ t.dgram = n /\ t.err = FALSE
  BY DEF CompleteTask
<1>4. data' = [data EXCEPT ![x] = n] /\ received' = n /\ rcv' = Queued
  BY DEF DatagramArrives
<1> HIDE DEF x, n, t
<1>5. Typed'
  BY <1>1, <1>2, <1>4 DEF PInv, Typed, DatagramArrives
<1>6. Intact'
  <2>1. /\ \A s \in Upcoming \cup completing \cup Waiting : s.buf # x
        /\ proc # Idle => proc.buf # x
    BY <1>2 DEF InUse, UsedBy, Upcoming, Waiting
  <2>2. data'[x] = n /\ \A b : b # x => data'[b] = data[b]
    BY <1>2, <1>4 DEF PInv, Typed
  <2>3. Upcoming' = Upcoming /\ completing' = completing /\ proc' = proc
    BY <1>2, <1>3 DEF Upcoming, DatagramArrives
  <2>4. Waiting' = Waiting \cup {t}
    BY <1>2, <1>3 DEF Waiting, DatagramArrives
  <2>5. \A s \in Upcoming \cup completing : data'[s.buf] = s.dgram
    BY <2>1, <2>2 DEF PInv, Intact
  <2>6. \A s \in Waiting \cup {t} : data'[s.buf] = s.dgram /\ s.dgram > 0
    BY <1>1, <1>3, <2>1, <2>2 DEF PInv, Intact
  <2>7. proc # Idle /\ proc.todo # {} => data'[proc.buf] = proc.dgram /\ proc.dgram > 0
    BY <2>1, <2>2 DEF PInv, Intact
  <2> QED BY <2>3, <2>4, <2>5, <2>6, <2>7 DEF Intact
<1> QED BY <1>2, <1>5, <1>6 DEF PInv

\* A receive that failed leaves the buffers as they are.
LEMMA ReceiveFailsKeeps == ASSUME PInv, ReceiveFails PROVE PInv'
<1> DEFINE t == CompleteTask(rcv.buf, 0, TRUE)
<1>1. /\ OnePlace' /\ Single' /\ OneLoop'
      /\ socket_q' \in Seq(Tasks)
      /\ ToSet(socket_q') = ToSet(socket_q) \cup {t}
  <2>1. 0 \in 0..MaxDatagrams /\ TRUE \in BOOLEAN
    OBVIOUS
  <2> QED BY <2>1, ReceiveEnds DEF ReceiveFails
<1>2. t.kind = "Complete" /\ t.err = TRUE
  BY DEF CompleteTask
<1> HIDE DEF t
<1>3. Typed'
  <2>1. received' \in 0..MaxDatagrams
    BY DEF PInv, Typed, ReceiveFails
  <2> QED BY <1>1, <2>1 DEF PInv, Typed, ReceiveFails
<1>4. Intact'
  <2>1. Waiting' = Waiting
    BY <1>1, <1>2 DEF Waiting, ReceiveFails
  <2>2. Upcoming' = Upcoming
    BY <1>1, <1>2 DEF Upcoming, ReceiveFails
  <2> QED BY <2>1, <2>2, IntactKept DEF PInv, ReceiveFails
<1> QED BY <1>1, <1>3, <1>4 DEF PInv

\* After the wait the loop goes on, and had nothing else queued.
LEMMA WritableKeeps == ASSUME PInv, Writable PROVE PInv'
<1>1. RcvTask \in OfKind("Rcv") /\ RcvTask.kind = "Rcv" /\ \A b : RcvTask # RecycleTask(b)
  BY TasksMade, TaskFields
<1>2. \A y \in ToSet(socket_q) : y \notin LoopTasks
  BY ReceiveStates DEF PInv, OneLoop, Writable
<1>3. /\ socket_q' \in Seq(Tasks)
      /\ ToSet(socket_q') = ToSet(socket_q) \cup {RcvTask}
      /\ AtMostOnce(socket_q', LoopTasks)
      /\ \A b \in Buffers : AtMostOnce(socket_q', {RecycleTask(b)})
  BY <1>1, <1>2, TaskPosted DEF PInv, OfKind, Writable
<1>4. OnePlace'
  <2>1. \A b \in Buffers : Pooled(b)' <=> Pooled(b)
    BY DEF Pooled, Writable
  <2>2. \A b \in Buffers : Returning(b)' <=> Returning(b)
    BY <1>1, <1>3 DEF Returning
  <2>3. \A b \in Buffers : ~Taken(b)' /\ ~Taken(b)
    BY ReceiveStates DEF Taken, Writable
  <2>4. \A b \in Buffers : InUse(b)' <=> InUse(b)
    BY <1>1, <1>3 DEF InUse, UsedBy, Writable
  <2> QED BY <2>1, <2>2, <2>3, <2>4 DEF PInv, OnePlace, Writable
<1>5. Typed'
  BY <1>3 DEF PInv, Typed, Writable
<1>6. Single' /\ OneLoop'
  BY <1>3 DEF PInv, Single, OneLoop, Writable
<1>7. Intact'
  <2>1. Waiting' = Waiting
    BY <1>1, <1>3 DEF Waiting, Writable
  <2>2. Upcoming' = Upcoming
    BY <1>1, <1>3 DEF Upcoming, Writable
  <2> QED BY <2>1, <2>2, IntactKept DEF PInv, Writable
<1> QED BY <1>4, <1>5, <1>6, <1>7 DEF PInv

\* A send that was performed keeps the buffer until its handler is gone.
LEMMA SocketSendsKeeps == ASSUME PInv, SocketSends PROVE PInv'
<1> DEFINE s == Head(sends)
<1>1. /\ s \in OfKind("Send") /\ sends' \in Seq(OfKind("Send"))
      /\ ToSet(sends) = {s} \cup ToSet(sends') /\ completing' = completing \cup {s}
  BY QueueTail DEF PInv, Typed, SocketSends
<1> HIDE DEF s
<1>2. OnePlace'
  <2>1. \A b \in Buffers : /\ Pooled(b)' <=> Pooled(b)
                           /\ Returning(b)' <=> Returning(b)
                           /\ Taken(b)' <=> Taken(b)
    BY DEF Pooled, Returning, Taken, SocketSends
  <2>2. \A b \in Buffers : InUse(b)' <=> InUse(b)
    BY <1>1 DEF InUse, UsedBy, SocketSends
  <2> QED BY <2>1, <2>2 DEF PInv, OnePlace, SocketSends
<1>3. Typed'
  <2>1. s.buf \in Buffers /\ s.ep \in Endpoints
    BY <1>1, TaskFacts DEF OfKind
  <2>2. data[s.buf] \in 0..MaxDatagrams
    BY <2>1 DEF PInv, Typed
  <2>3. sentUpTo' \in [Endpoints -> 0..MaxDatagrams]
    BY <2>1, <2>2 DEF PInv, Typed, SocketSends, s
  <2> QED BY <1>1, <2>3 DEF PInv, Typed, SocketSends
<1>4. Single' /\ OneLoop'
  BY DEF PInv, Single, OneLoop, SocketSends
<1>5. Intact'
  <2>1. Waiting' = Waiting
    BY DEF Waiting, SocketSends
  <2>2. (Upcoming \cup completing)' \subseteq Upcoming \cup completing
    BY <1>1 DEF Upcoming, SocketSends, OfKind
  <2> QED BY <2>1, <2>2, IntactKept DEF PInv, SocketSends
<1> QED BY <1>2, <1>3, <1>4, <1>5 DEF PInv

\* A reference to buffer x goes: the recycler is posted if it was the last one.
LEMMA ReleaseKeeps ==
    ASSUME PInv, NEW x \in Buffers, InUse(x),
           UNCHANGED <<rcv_buf_q, rcv_buf_count, rcv>>,
           socket_q' = Released(x, process_q', proc', socket_q, ToSet(sends') \cup completing'),
           \A b \in Buffers : b # x =>
             (UsedBy(b, ToSet(process_q'), proc', ToSet(socket_q), ToSet(sends') \cup completing')
                <=> InUse(b))
    PROVE  /\ OnePlace' /\ Single' /\ OneLoop'
           /\ socket_q' \in Seq(Tasks)
           /\ ToSet(socket_q) \subseteq ToSet(socket_q')
           /\ \A t \in ToSet(socket_q') : t \in ToSet(socket_q) \/ t.kind = "Recycle"
<1> DEFINE Now(b) == UsedBy(b, ToSet(process_q'), proc', ToSet(socket_q), ToSet(sends') \cup completing')
           r == RecycleTask(x)
<1>1. socket_q' = IF Now(x) THEN socket_q ELSE Append(socket_q, r)
  BY SharedIs DEF Released
<1>2. r \in OfKind("Recycle") /\ r.kind = "Recycle" /\ r.buf = x
      /\ \A b : r = RecycleTask(b) <=> b = x
  <2>1. r \in OfKind("Recycle")
    BY TasksMade
  <2>2. \A b : RecycleTask(b).kind = "Recycle" /\ RecycleTask(b).buf = b
    BY DEF RecycleTask
  <2> QED BY <2>1, <2>2
<1>3. ~Returning(x) /\ ~Pooled(x) /\ ~Taken(x)
  BY DEF PInv, OnePlace
<1>4. \A b \in Buffers : (Pooled(b)' <=> Pooled(b)) /\ (Taken(b)' <=> Taken(b))
  BY DEF Pooled, Taken
<1>5. \A b \in Buffers : b # x => (Now(b) <=> InUse(b))
  OBVIOUS
<1>6. CASE Now(x)
  <2>1. socket_q' = socket_q
    BY <1>1, <1>6
  <2>2. \A b \in Buffers : InUse(b)' <=> Now(b)
    BY <2>1 DEF InUse
  <2>3. \A b \in Buffers : Returning(b)' <=> Returning(b)
    BY <2>1 DEF Returning
  <2> HIDE DEF Now, r
  <2>4. OnePlace'
    BY <1>4, <1>5, <1>6, <2>2, <2>3 DEF PInv, OnePlace
  <2> QED BY <2>1, <2>4 DEF PInv, Typed, Single, OneLoop
<1>7. CASE ~Now(x)
  <2>1. socket_q' = Append(socket_q, r)
    BY <1>1, <1>7
  <2>2. r \in Tasks /\ r \notin LoopTasks
    BY <1>2 DEF OfKind, LoopTasks
  <2>3. /\ socket_q' \in Seq(Tasks)
        /\ ToSet(socket_q') = ToSet(socket_q) \cup {r}
        /\ AtMostOnce(socket_q', LoopTasks)
        /\ \A b \in Buffers : AtMostOnce(socket_q', {RecycleTask(b)})
    <3>1. \A b \in Buffers : r = RecycleTask(b) => ~Returning(b)
      BY <1>2, <1>3
    <3> HIDE DEF r
    <3> QED BY <2>1, <2>2, <3>1, TaskPosted DEF PInv
  <2>4. \A b \in Buffers : Returning(b)' <=> Returning(b) \/ b = x
    BY <1>2, <2>3 DEF Returning
  <2>5. \A b \in Buffers : InUse(b)' <=> Now(b)
    BY <1>2, <2>3 DEF InUse, UsedBy
  <2> HIDE DEF Now, r
  <2>6. OnePlace'
    BY <1>3, <1>4, <1>5, <1>7, <2>4, <2>5 DEF PInv, OnePlace
  <2>7. Single' /\ OneLoop'
    BY <2>2, <2>3 DEF PInv, Single, OneLoop
  <2> QED BY <1>2, <2>3, <2>6, <2>7
<1> QED BY <1>6, <1>7

\* The handler of a send is destroyed.
LEMMA SendCompletesKeeps == ASSUME PInv, NEW s \in completing, SendCompletes(s) PROVE PInv'
<1> DEFINE x == s.buf
<1>1. s \in OfKind("Send") /\ x \in Buffers
  BY TaskFacts DEF PInv, Typed, OfKind
<1> HIDE DEF x
<1>2. InUse(x)
  BY DEF InUse, UsedBy, x
<1>3. /\ UNCHANGED <<rcv_buf_q, rcv_buf_count, rcv, process_q, proc, sends, data, received, sentUpTo>>
      /\ completing' = completing \ {s}
      /\ socket_q' = Released(x, process_q', proc', socket_q, ToSet(sends') \cup completing')
  BY DEF SendCompletes, x
<1>4. \A b \in Buffers : b # x =>
        (UsedBy(b, ToSet(process_q'), proc', ToSet(socket_q), ToSet(sends') \cup completing')
           <=> InUse(b))
  BY <1>3 DEF InUse, UsedBy, x
<1>5. /\ OnePlace' /\ Single' /\ OneLoop'
      /\ socket_q' \in Seq(Tasks)
      /\ ToSet(socket_q) \subseteq ToSet(socket_q')
      /\ \A t \in ToSet(socket_q') : t \in ToSet(socket_q) \/ t.kind = "Recycle"
  BY <1>1, <1>2, <1>3, <1>4, ReleaseKeeps
<1>6. Typed'
  BY <1>3, <1>5 DEF PInv, Typed
<1>7. Intact'
  <2>1. Waiting' \subseteq Waiting
    BY <1>3, <1>5 DEF Waiting
  <2>2. Upcoming' \subseteq Upcoming
    BY <1>3, <1>5 DEF Upcoming
  <2> QED BY <1>3, <2>1, <2>2, IntactKept DEF PInv
<1> QED BY <1>5, <1>6, <1>7 DEF PInv

\* The handler ends.
LEMMA HandlerEndsKeeps == ASSUME PInv, HandlerEnds PROVE PInv'
<1>1. PICK x : x = proc.buf
  OBVIOUS
<1>2. x \in Buffers /\ proc # Idle
  BY <1>1 DEF PInv, Typed, Handlers, HandlerEnds
<1>3. InUse(x)
  BY <1>1, <1>2 DEF InUse, UsedBy
<1>4. /\ UNCHANGED <<rcv_buf_q, rcv_buf_count, rcv, process_q, sends, completing, data,
                     received, sentUpTo>>
      /\ proc' = Idle
      /\ socket_q' = Released(x, process_q', proc', socket_q, ToSet(sends') \cup completing')
  BY <1>1 DEF HandlerEnds
<1>5. \A b \in Buffers : b # x =>
        (UsedBy(b, ToSet(process_q'), proc', ToSet(socket_q), ToSet(sends') \cup completing')
           <=> InUse(b))
  BY <1>1, <1>4 DEF InUse, UsedBy
<1>6. /\ OnePlace' /\ Single' /\ OneLoop'
      /\ socket_q' \in Seq(Tasks)
      /\ ToSet(socket_q) \subseteq ToSet(socket_q')
      /\ \A t \in ToSet(socket_q') : t \in ToSet(socket_q) \/ t.kind = "Recycle"
  BY <1>2, <1>3, <1>4, <1>5, ReleaseKeeps
<1>7. Typed'
  BY <1>4, <1>6 DEF PInv, Typed
<1>8. Intact'
  <2>1. Waiting' \subseteq Waiting
    BY <1>4, <1>6 DEF Waiting
  <2>2. Upcoming' \subseteq Upcoming
    BY <1>4, <1>6 DEF Upcoming
  <2> QED BY <1>4, <2>1, <2>2 DEF PInv, Intact
<1> QED BY <1>6, <1>7, <1>8 DEF PInv

\* The handler takes over the reference of its task.
LEMMA HandlerStartsKeeps ==
    ASSUME PInv, NEW targets \in SUBSET Endpoints, HandlerStarts(targets)
    PROVE  PInv'
<1> DEFINE h == Head(process_q)
<1>1. /\ h \in OfKind("Complete") /\ process_q' \in Seq(OfKind("Complete"))
      /\ ToSet(process_q) = {h} \cup ToSet(process_q')
  BY QueueTail DEF PInv, Typed, HandlerStarts
<1>2. /\ proc = Idle /\ proc' = [buf |-> h.buf, dgram |-> h.dgram, todo |-> targets]
      /\ h.err => targets = {}
      /\ UNCHANGED <<rcv_buf_q, rcv_buf_count, rcv, socket_q, sends, completing, data,
                     received, sentUpTo>>
  BY DEF HandlerStarts
<1> HIDE DEF h
<1>3. h.kind = "Complete" /\ h.buf \in Buffers /\ h.dgram \in 0..MaxDatagrams
  BY <1>1, TaskFacts DEF OfKind
<1>4. proc' \in Handlers /\ proc' # Idle
  <2>1. proc' \in Handlers
    BY <1>2, <1>3 DEF Handlers
  <2> QED BY <2>1, HandlerRuns
<1>5. proc'.buf = h.buf /\ proc'.dgram = h.dgram /\ proc'.todo = targets
  BY <1>2
<1>6. OnePlace'
  <2>1. \A b \in Buffers : /\ Pooled(b)' <=> Pooled(b)
                           /\ Returning(b)' <=> Returning(b)
                           /\ Taken(b)' <=> Taken(b)
    BY <1>2 DEF Pooled, Returning, Taken
  <2>2. \A b \in Buffers : InUse(b)' <=> InUse(b)
    BY <1>1, <1>2, <1>4, <1>5 DEF InUse, UsedBy
  <2> QED BY <1>2, <2>1, <2>2 DEF PInv, OnePlace
<1>7. Typed'
  BY <1>1, <1>2, <1>4 DEF PInv, Typed
<1>8. Single' /\ OneLoop'
  BY <1>2 DEF PInv, Single, OneLoop
<1>9. Intact'
  <2>1. Waiting' \subseteq Waiting
    BY <1>1, <1>2 DEF Waiting
  <2>2. Upcoming' = Upcoming /\ completing' = completing /\ data' = data
    BY <1>2 DEF Upcoming
  <2>3. targets # {} => h \in Waiting
    BY <1>1, <1>2, <1>3 DEF Waiting
  <2>4. targets # {} => data[h.buf] = h.dgram /\ h.dgram > 0
    BY <2>3 DEF PInv, Intact
  <2> QED BY <1>5, <2>1, <2>2, <2>4 DEF PInv, Intact
<1> QED BY <1>6, <1>7, <1>8, <1>9 DEF PInv

\* Forward posts a send of what is in the handler's buffer.
LEMMA ForwardKeeps == ASSUME PInv, NEW e \in Endpoints, Forward(e) PROVE PInv'
<1>1. /\ proc \in Handlers /\ proc # Idle /\ e \in proc.todo
      /\ proc' = [proc EXCEPT !.todo = @ \ {e}]
      /\ UNCHANGED <<rcv_buf_q, rcv_buf_count, rcv, process_q, sends, completing, data,
                     received, sentUpTo>>
  BY DEF PInv, Typed, Forward
<1>2. proc' \in Handlers /\ proc' # Idle
  <2>1. proc' \in Handlers
    BY <1>1 DEF Handlers
  <2> QED BY <2>1, HandlerRuns
<1>3. proc'.buf = proc.buf /\ proc'.dgram = proc.dgram /\ proc'.todo = proc.todo \ {e}
  BY <1>1 DEF Handlers
<1>4. /\ data[proc.buf] = proc.dgram /\ proc.dgram \in 1..MaxDatagrams /\ proc.buf \in Buffers
  BY <1>1 DEF PInv, Intact, Handlers
<1> DEFINE t == SendTask(proc.buf, proc.dgram, e)
<1>5. /\ t \in OfKind("Send") /\ t.kind = "Send" /\ t.buf = proc.buf /\ t.dgram = proc.dgram
      /\ t.ep = e /\ \A b : t # RecycleTask(b)
  <2>1. t \in OfKind("Send")
    BY <1>4, TasksMade
  <2>2. t.kind = "Send" /\ t.buf = proc.buf /\ t.dgram = proc.dgram /\ t.ep = e
    BY DEF SendTask
  <2>3. \A b : RecycleTask(b).kind = "Recycle"
    BY DEF RecycleTask
  <2> HIDE DEF t
  <2> QED BY <2>1, <2>2, <2>3
<1>6. socket_q' = Append(socket_q, t)
  BY DEF Forward
<1> HIDE DEF t
<1>7. /\ socket_q' \in Seq(Tasks)
      /\ ToSet(socket_q') = ToSet(socket_q) \cup {t}
      /\ AtMostOnce(socket_q', LoopTasks)
      /\ \A b \in Buffers : AtMostOnce(socket_q', {RecycleTask(b)})
  BY <1>5, <1>6, TaskPosted DEF PInv, OfKind, LoopTasks
<1>8. OnePlace'
  <2>1. \A b \in Buffers : (Pooled(b)' <=> Pooled(b)) /\ (Taken(b)' <=> Taken(b))
    BY <1>1 DEF Pooled, Taken
  <2>2. \A b \in Buffers : Returning(b)' <=> Returning(b)
    BY <1>5, <1>7 DEF Returning
  <2>3. \A b \in Buffers : InUse(b)' <=> InUse(b)
    BY <1>1, <1>2, <1>3, <1>5, <1>7 DEF InUse, UsedBy
  <2> QED BY <1>1, <2>1, <2>2, <2>3 DEF PInv, OnePlace
<1>9. Typed'
  BY <1>1, <1>2, <1>7 DEF PInv, Typed
<1>10. Single' /\ OneLoop'
  <2>1. t \notin LoopTasks
    BY <1>5 DEF LoopTasks, OfKind
  <2> QED BY <1>1, <1>7, <2>1 DEF PInv, Single, OneLoop
<1>11. Intact'
  <2>1. Waiting' = Waiting
    BY <1>1, <1>5, <1>7 DEF Waiting
  <2>2. Upcoming' = Upcoming \cup {t} /\ completing' = completing /\ data' = data
    BY <1>1, <1>5, <1>7 DEF Upcoming
  <2> QED BY <1>1, <1>3, <1>4, <1>5, <2>1, <2>2 DEF PInv, Intact
<1> QED BY <1>8, <1>9, <1>10, <1>11 DEF PInv

\* Nothing is allocated at first, and the first task is Rcv.
LEMMA PInvInit == Init => PInv
<1> SUFFICES ASSUME Init PROVE PInv
  OBVIOUS
<1>1. RcvTask \in OfKind("Rcv") /\ RcvTask.kind = "Rcv" /\ \A b : RcvTask # RecycleTask(b)
  BY TasksMade, TaskFields
<1>2. ToSet(<<RcvTask>>) = {RcvTask} /\ \A q : q = <<>> => ToSet(q) = {}
  BY DEF ToSet
<1>3. Typed
  <2>1. socket_q \in Seq(Tasks)
    BY <1>1 DEF Init, OfKind
  <2> QED BY <2>1 DEF Init, Typed, Buffers
<1>4. OnePlace
  BY <1>1, <1>2, ReceiveStates DEF Init, OnePlace, Pooled, Returning, Taken, InUse, UsedBy, Buffers
<1>5. Single /\ OneLoop
  BY <1>2 DEF Init, Single, OneLoop, AtMostOnce
<1>6. Intact
  BY <1>1, <1>2 DEF Init, Intact, Upcoming, Waiting
<1> QED BY <1>3, <1>4, <1>5, <1>6 DEF PInv

\* Every step keeps the invariant.
LEMMA PInvStep == PInv /\ [Next]_vars => PInv'
<1> SUFFICES ASSUME PInv, [Next]_vars PROVE PInv'
  OBVIOUS
<1>1. CASE UNCHANGED vars
  BY <1>1 DEF vars, PInv, Typed, OnePlace, Pooled, Returning, Taken, InUse, UsedBy, Single,
              OneLoop, Intact, Waiting, Upcoming
<1> QED BY <1>1, RunRcvKeeps, RunCompleteKeeps, RunRecycleKeeps, RunSendKeeps,
           RunSendInlineKeeps, DatagramArrivesKeeps, ReceiveFailsKeeps, WritableKeeps,
           SocketSendsKeeps, SendCompletesKeeps, HandlerStartsKeeps, ForwardKeeps,
           HandlerEndsKeeps DEF Next

\* The invariant holds in every behaviour.
LEMMA AlwaysPInv == Spec => []PInv
  BY PInvInit, PInvStep, PTL DEF Spec

-----------------------------------------------------------------------------
(* The theorems *)

\* Zero-copy forwarding is safe: a buffer is not received into while its datagram
\* has still to be handled or sent, and keeps that datagram until then.
THEOREM ZeroCopySafe == Spec => []BufferIntact
<1>1. ASSUME PInv PROVE BufferIntact
  <2>1. ToSet(process_q) \subseteq OfKind("Complete") /\ ToSet(sends) \subseteq OfKind("Send")
        /\ ToSet(socket_q) \subseteq Tasks /\ completing \subseteq OfKind("Send")
    BY <1>1, InQueues DEF PInv, Typed
  <2>2. \A b \in Buffers : InUse(b) => rcv # Receiving(b)
    BY <1>1 DEF PInv, OnePlace, Taken
  <2>3. \A s \in SendsHeld : data[s.buf] = s.dgram /\ rcv # Receiving(s.buf)
    <3> TAKE s \in SendsHeld
    <3>1. s \in OfKind("Send") /\ s \in Upcoming \cup completing
      BY <2>1 DEF SendsHeld, Upcoming, OfKind
    <3>2. s.buf \in Buffers
      BY <3>1, TaskFacts DEF OfKind
    <3>3. InUse(s.buf)
      BY <3>1 DEF InUse, UsedBy, Upcoming
    <3> QED BY <1>1, <2>2, <3>1, <3>2, <3>3 DEF PInv, Intact
  <2>4. \A t \in ToSet(process_q) : (~t.err => data[t.buf] = t.dgram) /\ rcv # Receiving(t.buf)
    <3> TAKE t \in ToSet(process_q)
    <3>1. t \in OfKind("Complete") /\ t.buf \in Buffers /\ t.kind = "Complete"
      BY <2>1, TaskFacts DEF OfKind
    <3>2. InUse(t.buf)
      BY DEF InUse, UsedBy
    <3> QED BY <1>1, <2>2, <3>1, <3>2 DEF PInv, Intact, Waiting
  <2>5. proc # Idle =>
          (proc.todo # {} => data[proc.buf] = proc.dgram) /\ rcv # Receiving(proc.buf)
    <3> HAVE proc # Idle
    <3>1. proc.buf \in Buffers
      BY <1>1 DEF PInv, Typed, Handlers
    <3>2. InUse(proc.buf)
      BY DEF InUse, UsedBy
    <3> QED BY <1>1, <2>2, <3>1, <3>2 DEF PInv, Intact
  <2> QED BY <2>3, <2>4, <2>5 DEF BufferIntact
<1> QED BY <1>1, AlwaysPInv, PTL

\* How many times something is in a queue that holds it at most once.
LEMMA CountedOnce ==
    ASSUME NEW S, NEW q \in Seq(S), NEW x, AtMostOnce(q, {x})
    PROVE  Cardinality({i \in DOMAIN q : q[i] = x}) = IF x \in ToSet(q) THEN 1 ELSE 0
<1>1. CASE x \in ToSet(q)
  <2>1. PICK i \in DOMAIN q : q[i] = x
    BY <1>1 DEF ToSet
  <2>2. {j \in DOMAIN q : q[j] = x} = {i}
    BY <2>1 DEF AtMostOnce
  <2> QED BY <1>1, <2>2, FS_Singleton
<1>2. CASE x \notin ToSet(q)
  <2>1. {j \in DOMAIN q : q[j] = x} = {}
    BY <1>2 DEF ToSet
  <2> QED BY <1>2, <2>1, FS_EmptySet
<1> QED BY <1>1, <1>2

\* No buffer is leaked, none is recycled twice, and no more than MaxProcessQ are
\* allocated.
THEOREM BuffersConserved == Spec => []NoLeakNoDoubleFree
<1>1. ASSUME PInv PROVE NoLeakNoDoubleFree
  <2>1. /\ ToSet(process_q) \subseteq OfKind("Complete") /\ ToSet(sends) \subseteq OfKind("Send")
        /\ ToSet(socket_q) \subseteq Tasks /\ completing \subseteq OfKind("Send")
    BY <1>1, InQueues DEF PInv, Typed
  <2>2. TypeOK
    <3>1. \A i \in DOMAIN socket_q : socket_q[i] \in Tasks
      BY <2>1 DEF ToSet
    <3>2. \A i \in DOMAIN process_q : process_q[i] \in Tasks /\ process_q[i].kind = "Complete"
      BY <2>1 DEF ToSet, OfKind
    <3>3. \A s \in ToSet(sends) \cup completing : s \in Tasks /\ s.kind = "Send"
      BY <2>1 DEF OfKind
    <3> QED BY <1>1, <3>1, <3>2, <3>3 DEF PInv, Typed, TypeOK, Handlers
  <2>3. ASSUME NEW b \in 1..rcv_buf_count PROVE Places(b) = 1
    <3>1. b \in Buffers /\ b <= rcv_buf_count /\ rcv_buf_q \in Seq(Buffers) /\ socket_q \in Seq(Tasks)
      BY <1>1 DEF PInv, Typed, Buffers
    <3>2. Cardinality({i \in DOMAIN rcv_buf_q : rcv_buf_q[i] = b}) = IF Pooled(b) THEN 1 ELSE 0
      BY <1>1, <3>1, CountedOnce DEF PInv, Single, Pooled
    <3>3. Cardinality({i \in DOMAIN socket_q : socket_q[i] = RecycleTask(b)})
            = IF Returning(b) THEN 1 ELSE 0
      BY <1>1, <3>1, CountedOnce DEF PInv, Single, Returning
    <3>4. Shared(b, process_q, proc, socket_q, ToSet(sends) \cup completing) <=> InUse(b)
      BY SharedIs DEF InUse
    <3>5. Places(b) = (IF Pooled(b) THEN 1 ELSE 0) + (IF Returning(b) THEN 1 ELSE 0)
                        + (IF Taken(b) THEN 1 ELSE 0) + (IF InUse(b) THEN 1 ELSE 0)
      BY <3>2, <3>3, <3>4 DEF Places, Taken
    <3>6. \/ Pooled(b) /\ ~Returning(b) /\ ~Taken(b) /\ ~InUse(b)
          \/ ~Pooled(b) /\ Returning(b) /\ ~Taken(b) /\ ~InUse(b)
          \/ ~Pooled(b) /\ ~Returning(b) /\ Taken(b) /\ ~InUse(b)
          \/ ~Pooled(b) /\ ~Returning(b) /\ ~Taken(b) /\ InUse(b)
      BY <1>1, <3>1 DEF PInv, OnePlace
    <3> QED BY <3>5, <3>6
  <2> QED BY <2>2, <2>3 DEF NoLeakNoDoubleFree
<1> QED BY <1>1, AlwaysPInv, PTL

-----------------------------------------------------------------------------
(* Order *)

\* Of two sends to one endpoint the earlier has the earlier datagram; so of two
\* datagrams to be handled.
SendOrder == {p \in Tasks \X Tasks :
                p[1].kind = "Send" /\ p[2].kind = "Send" /\ p[1].ep = p[2].ep
                  => p[1].dgram < p[2].dgram}
HandleOrder == {p \in Tasks \X Tasks :
                  /\ p[1].kind = "Complete" /\ ~p[1].err
                  /\ p[2].kind = "Complete" /\ ~p[2].err
                  => p[1].dgram < p[2].dgram}

\* The queues are in order, each and one behind the other.
QueuesOrdered ==
    /\ InOrder(sends, SendOrder) /\ InOrder(socket_q, SendOrder)
    /\ \A s \in ToSet(sends), t \in ToSet(socket_q) : <<s, t>> \in SendOrder
    /\ InOrder(process_q, HandleOrder)
    /\ \A s \in ToSet(process_q), t \in ToSet(socket_q) : <<s, t>> \in HandleOrder

\* What was sent comes before what is to be sent, that before what the handler has
\* still to post, and that before what is to be handled.
StagesOrdered ==
    /\ \A s \in Upcoming : sentUpTo[s.ep] < s.dgram /\ s.dgram <= received
    /\ proc # Idle =>
         \A e \in proc.todo : /\ sentUpTo[e] < proc.dgram /\ proc.dgram <= received
                              /\ \A s \in Upcoming : s.ep = e => s.dgram < proc.dgram
    /\ \A t \in Waiting :
         /\ t.dgram <= received
         /\ \A s \in Upcoming : s.dgram < t.dgram
         /\ \A e \in Endpoints : sentUpTo[e] < t.dgram
         /\ proc # Idle => \A e \in proc.todo : proc.dgram < t.dgram
    /\ \A e \in Endpoints : sentUpTo[e] <= received

OInv == PInv /\ QueuesOrdered /\ StagesOrdered

\* Numbers are numbers.
LEMMA Numbers ==
    ASSUME Typed
    PROVE  /\ \A s \in Upcoming : s.dgram \in Nat /\ s.ep \in Endpoints /\ s.buf \in Buffers
           /\ \A t \in Waiting : t.dgram \in Nat
           /\ proc # Idle => proc.dgram \in Nat /\ proc.todo \subseteq Endpoints
           /\ \A e \in Endpoints : sentUpTo[e] \in Nat
           /\ received \in Nat
<1>1. ToSet(process_q) \subseteq Tasks /\ ToSet(sends) \subseteq Tasks /\ ToSet(socket_q) \subseteq Tasks
  BY InQueues DEF OfKind
<1>2. \A s \in Upcoming : s.dgram \in Nat /\ s.ep \in Endpoints /\ s.buf \in Buffers
  BY <1>1, TaskFacts DEF Upcoming
<1>3. \A t \in Waiting : t.dgram \in Nat
  BY <1>1, TaskFacts DEF Waiting
<1>4. proc # Idle => proc.dgram \in Nat /\ proc.todo \subseteq Endpoints
  BY DEF Typed, Handlers
<1>5. (\A e \in Endpoints : sentUpTo[e] \in Nat) /\ received \in Nat
  BY DEF Typed
<1> QED BY <1>2, <1>3, <1>4, <1>5

\* The stages stay in order while nothing new comes into one.
LEMMA StagesKept ==
    ASSUME Typed, StagesOrdered, Upcoming' \subseteq Upcoming, Waiting' \subseteq Waiting,
           \/ proc' = proc
           \/ proc' = Idle,
           sentUpTo' = sentUpTo,
           \/ received' = received
           \/ received' = received + 1
    PROVE  StagesOrdered'
<1>1. \A n \in Nat : n <= received => n <= received'
  BY Numbers
<1>2. \A s \in Upcoming' : sentUpTo'[s.ep] < s.dgram /\ s.dgram <= received'
  BY <1>1, Numbers DEF StagesOrdered
<1>3. proc' # Idle =>
         \A e \in proc'.todo : /\ sentUpTo'[e] < proc'.dgram /\ proc'.dgram <= received'
                               /\ \A s \in Upcoming' : s.ep = e => s.dgram < proc'.dgram
  BY <1>1, Numbers DEF StagesOrdered
<1>4. \A t \in Waiting' :
         /\ t.dgram <= received'
         /\ \A s \in Upcoming' : s.dgram < t.dgram
         /\ \A e \in Endpoints : sentUpTo'[e] < t.dgram
         /\ proc' # Idle => \A e \in proc'.todo : proc'.dgram < t.dgram
  BY <1>1, Numbers DEF StagesOrdered
<1>5. \A e \in Endpoints : sentUpTo'[e] <= received'
  BY <1>1, Numbers DEF StagesOrdered
<1> QED BY <1>2, <1>3, <1>4, <1>5 DEF StagesOrdered

\* A send that is performed is the next one to its endpoint.
LEMMA SentNext ==
    ASSUME PInv, StagesOrdered, NEW s \in Upcoming,
           sentUpTo' = [sentUpTo EXCEPT ![s.ep] = data[s.buf]],
           Upcoming' \subseteq Upcoming, Waiting' = Waiting,
           \A t \in Upcoming' : t.ep = s.ep => s.dgram < t.dgram,
           proc' = proc, received' = received
    PROVE  /\ StagesOrdered'
           /\ \A e \in Endpoints : sentUpTo'[e] # sentUpTo[e] => sentUpTo'[e] > sentUpTo[e]
<1>1. data[s.buf] = s.dgram
  BY DEF PInv, Intact
<1>2. sentUpTo \in [Endpoints -> 0..MaxDatagrams] /\ s.ep \in Endpoints
  BY Numbers DEF PInv, Typed
<1>3. \A e \in Endpoints : sentUpTo'[e] = IF e = s.ep THEN s.dgram ELSE sentUpTo[e]
  BY <1>1, <1>2
<1>4. sentUpTo[s.ep] < s.dgram /\ s.dgram <= received
  BY DEF StagesOrdered
<1>5. \A e \in Endpoints : sentUpTo'[e] # sentUpTo[e] => sentUpTo'[e] > sentUpTo[e]
  BY <1>2, <1>3, <1>4, Numbers DEF PInv
<1>6. \A t \in Upcoming' : sentUpTo'[t.ep] < t.dgram /\ t.dgram <= received'
  BY <1>3, Numbers DEF StagesOrdered, PInv
<1>7. proc' # Idle =>
         \A e \in proc'.todo : /\ sentUpTo'[e] < proc'.dgram /\ proc'.dgram <= received'
                               /\ \A t \in Upcoming' : t.ep = e => t.dgram < proc'.dgram
  BY <1>3, Numbers DEF StagesOrdered, PInv
<1>8. \A t \in Waiting' :
         /\ t.dgram <= received'
         /\ \A u \in Upcoming' : u.dgram < t.dgram
         /\ \A e \in Endpoints : sentUpTo'[e] < t.dgram
         /\ proc' # Idle => \A e \in proc'.todo : proc'.dgram < t.dgram
  BY <1>3, Numbers DEF StagesOrdered, PInv
<1>9. \A e \in Endpoints : sentUpTo'[e] <= received'
  BY <1>3, <1>4, Numbers DEF StagesOrdered, PInv
<1> QED BY <1>5, <1>6, <1>7, <1>8, <1>9 DEF StagesOrdered

\* Taking a task from socket_strand keeps the rest in order.
LEMMA OrderedTail ==
    ASSUME Typed, QueuesOrdered, socket_q # <<>>
    PROVE  /\ InOrder(Tail(socket_q), SendOrder)
           /\ \A s \in ToSet(sends), t \in ToSet(Tail(socket_q)) : <<s, t>> \in SendOrder
           /\ \A t \in ToSet(Tail(socket_q)) : <<Head(socket_q), t>> \in SendOrder
           /\ \A s \in ToSet(process_q), t \in ToSet(Tail(socket_q)) : <<s, t>> \in HandleOrder
<1>1. socket_q \in Seq(Tasks)
  BY DEF Typed
<1>2. ToSet(Tail(socket_q)) \subseteq ToSet(socket_q)
  BY <1>1, QueueTail
<1>3. InOrder(Tail(socket_q), SendOrder)
      /\ \A t \in ToSet(Tail(socket_q)) : <<Head(socket_q), t>> \in SendOrder
  BY <1>1, OrderTail DEF QueuesOrdered
<1> QED BY <1>2, <1>3 DEF QueuesOrdered

\* Posting a task that comes after what is there keeps the order.
LEMMA OrderedPost ==
    ASSUME Typed, QueuesOrdered, NEW t \in Tasks, socket_q' = Append(socket_q, t),
           UNCHANGED <<sends, process_q>>,
           t.kind = "Send" => \A s \in Upcoming : s.ep = t.ep => s.dgram < t.dgram,
           t.kind = "Complete" /\ ~t.err => \A s \in Waiting : s.dgram < t.dgram
    PROVE  QueuesOrdered'
<1>1. socket_q \in Seq(Tasks)
  BY DEF Typed
<1>2. ToSet(process_q) \subseteq Tasks /\ ToSet(sends) \subseteq Tasks /\ ToSet(socket_q) \subseteq Tasks
  BY InQueues DEF OfKind
<1>3. \A s \in ToSet(sends) \cup ToSet(socket_q) : <<s, t>> \in SendOrder
  BY <1>2 DEF SendOrder, Upcoming
<1>4. \A s \in ToSet(process_q) : <<s, t>> \in HandleOrder
  BY <1>2 DEF HandleOrder, Waiting
<1>5. ToSet(socket_q') = ToSet(socket_q) \cup {t}
  BY <1>1, QueueAppend
<1>6. InOrder(Append(socket_q, t), SendOrder)
  BY <1>1, <1>3, OrderAppend DEF QueuesOrdered
<1> QED BY <1>3, <1>4, <1>5, <1>6 DEF QueuesOrdered

\* What each step does to the order; Sent is what a step may do to sentUpTo.
Sent == \A e \in Endpoints : sentUpTo'[e] # sentUpTo[e] => sentUpTo'[e] > sentUpTo[e]

\* A task of socket_strand that neither sends nor is posted on.
LEMMA TailOrder ==
    ASSUME PInv, QueuesOrdered, StagesOrdered, socket_q # <<>>, socket_q' = Tail(socket_q),
           UNCHANGED <<sends, process_q, proc, received, sentUpTo>>
    PROVE  QueuesOrdered' /\ StagesOrdered'
<1>1. ToSet(Tail(socket_q)) \subseteq ToSet(socket_q)
  BY QueueTail DEF PInv, Typed
<1>2. QueuesOrdered'
  BY OrderedTail DEF PInv, QueuesOrdered
<1>3. Upcoming' \subseteq Upcoming /\ Waiting' \subseteq Waiting
  BY <1>1 DEF Upcoming, Waiting
<1> QED BY <1>2, <1>3, StagesKept DEF PInv

\* The datagram of a completion goes to the end of process_strand.
LEMMA RunCompleteOrder == ASSUME OInv, RunComplete PROVE QueuesOrdered' /\ StagesOrdered'
<1> DEFINE h == Head(socket_q)
<1>1. /\ h \in OfKind("Complete") /\ Tail(socket_q) \in Seq(Tasks) /\ socket_q # <<>>
      /\ ToSet(socket_q) = {h} \cup ToSet(Tail(socket_q))
      /\ socket_q' = Tail(socket_q) /\ ToSet(socket_q) \subseteq Tasks
  BY TaskTaken DEF OInv, PInv, RunComplete, NextTask
<1>2. /\ process_q \in Seq(OfKind("Complete")) /\ process_q' = Append(process_q, h)
      /\ ToSet(process_q') = ToSet(process_q) \cup {h} /\ sends' = sends
  BY <1>1, QueueAppend DEF OInv, PInv, Typed, RunComplete, ProcessPosted
<1>3. \A t \in ToSet(Tail(socket_q)) : t \notin LoopTasks
  BY <1>1, LoopTaken DEF OInv, PInv, LoopTasks
<1>4. \A s \in ToSet(process_q) : <<s, h>> \in HandleOrder
  BY <1>1 DEF OInv, QueuesOrdered
<1>5. InOrder(process_q', HandleOrder)
  BY <1>1, <1>2, <1>4, OrderAppend DEF OInv, QueuesOrdered
<1>6. \A t \in ToSet(Tail(socket_q)) : <<h, t>> \in HandleOrder
  BY <1>1, <1>3 DEF HandleOrder, OfKind, LoopTasks
<1> HIDE DEF h
<1>7. /\ InOrder(Tail(socket_q), SendOrder)
      /\ \A s \in ToSet(sends), t \in ToSet(Tail(socket_q)) : <<s, t>> \in SendOrder
      /\ \A s \in ToSet(process_q), t \in ToSet(Tail(socket_q)) : <<s, t>> \in HandleOrder
  BY <1>1, OrderedTail DEF OInv, PInv
<1>8. QueuesOrdered'
  BY <1>1, <1>2, <1>5, <1>6, <1>7 DEF OInv, QueuesOrdered
<1>9. Waiting' = Waiting /\ Upcoming' \subseteq Upcoming
  BY <1>1, <1>2 DEF Waiting, Upcoming
<1>10. StagesOrdered'
  BY <1>9, StagesKept DEF OInv, PInv, RunComplete
<1> QED BY <1>8, <1>10

\* A send that starts comes after those that the socket has.
LEMMA RunSendOrder == ASSUME OInv, RunSend PROVE QueuesOrdered' /\ StagesOrdered'
<1> DEFINE h == Head(socket_q)
<1>1. /\ h \in OfKind("Send") /\ Tail(socket_q) \in Seq(Tasks) /\ socket_q # <<>>
      /\ ToSet(socket_q) = {h} \cup ToSet(Tail(socket_q))
      /\ socket_q' = Tail(socket_q)
  BY TaskTaken DEF OInv, PInv, RunSend, NextTask
<1>2. /\ sends \in Seq(OfKind("Send")) /\ sends' = Append(sends, h)
      /\ ToSet(sends') = ToSet(sends) \cup {h} /\ process_q' = process_q
  BY <1>1, QueueAppend DEF OInv, PInv, Typed, RunSend
<1>3. /\ InOrder(Tail(socket_q), SendOrder)
      /\ \A s \in ToSet(sends), t \in ToSet(Tail(socket_q)) : <<s, t>> \in SendOrder
      /\ \A t \in ToSet(Tail(socket_q)) : <<h, t>> \in SendOrder
      /\ \A s \in ToSet(process_q), t \in ToSet(Tail(socket_q)) : <<s, t>> \in HandleOrder
  BY <1>1, OrderedTail DEF OInv, PInv
<1>4. \A s \in ToSet(sends) : <<s, h>> \in SendOrder
  BY <1>1 DEF OInv, QueuesOrdered
<1>5. InOrder(sends', SendOrder)
  BY <1>1, <1>2, <1>4, OrderAppend DEF OInv, QueuesOrdered
<1> HIDE DEF h
<1>6. QueuesOrdered'
  BY <1>1, <1>2, <1>3, <1>5 DEF OInv, QueuesOrdered
<1>7. Waiting' \subseteq Waiting /\ Upcoming' = Upcoming
  BY <1>1, <1>2 DEF Waiting, Upcoming
<1>8. StagesOrdered'
  BY <1>7, StagesKept DEF OInv, PInv, RunSend
<1> QED BY <1>6, <1>8

\* A send that is performed within its task, the socket having no other.
LEMMA RunSendInlineOrder ==
    ASSUME OInv, RunSendInline PROVE QueuesOrdered' /\ StagesOrdered' /\ Sent
<1> DEFINE h == Head(socket_q)
<1>1. /\ h \in OfKind("Send") /\ Tail(socket_q) \in Seq(Tasks) /\ socket_q # <<>>
      /\ ToSet(socket_q) = {h} \cup ToSet(Tail(socket_q))
      /\ socket_q' = Tail(socket_q)
  BY TaskTaken DEF OInv, PInv, RunSendInline, NextTask
<1>2. /\ InOrder(Tail(socket_q), SendOrder)
      /\ \A s \in ToSet(sends), t \in ToSet(Tail(socket_q)) : <<s, t>> \in SendOrder
      /\ \A t \in ToSet(Tail(socket_q)) : <<h, t>> \in SendOrder
      /\ \A s \in ToSet(process_q), t \in ToSet(Tail(socket_q)) : <<s, t>> \in HandleOrder
  BY <1>1, OrderedTail DEF OInv, PInv
<1>3. QueuesOrdered'
  BY <1>1, <1>2 DEF OInv, QueuesOrdered, RunSendInline
<1>4. /\ sends' = sends /\ ToSet(sends) = {} /\ process_q' = process_q
      /\ proc' = proc /\ received' = received
      /\ sentUpTo' = [sentUpTo EXCEPT ![h.ep] = data[h.buf]]
  BY DEF RunSendInline, ToSet
<1> HIDE DEF h
<1>5. h.kind = "Send" /\ h \in Upcoming
  BY <1>1 DEF Upcoming, OfKind
<1>6. Upcoming' \subseteq Upcoming /\ Waiting' = Waiting
  BY <1>1, <1>4, <1>5 DEF Upcoming, Waiting
<1>7. \A t \in Upcoming' : t.ep = h.ep => h.dgram < t.dgram
  BY <1>1, <1>2, <1>4, <1>5 DEF Upcoming, SendOrder
<1>8. StagesOrdered' /\ Sent
  BY <1>4, <1>5, <1>6, <1>7, SentNext DEF OInv, Sent
<1> QED BY <1>3, <1>8

\* The socket performs the sends in the order in which they were started.
LEMMA SocketSendsOrder ==
    ASSUME OInv, SocketSends PROVE QueuesOrdered' /\ StagesOrdered' /\ Sent
<1> DEFINE h == Head(sends)
<1>1. /\ h \in OfKind("Send") /\ sends # <<>> /\ sends \in Seq(OfKind("Send"))
      /\ sends' = Tail(sends)
      /\ ToSet(sends) = {h} \cup ToSet(Tail(sends))
  BY QueueTail DEF OInv, PInv, Typed, SocketSends
<1>2. /\ InOrder(Tail(sends), SendOrder)
      /\ \A t \in ToSet(Tail(sends)) : <<h, t>> \in SendOrder
  BY <1>1, OrderTail DEF OInv, QueuesOrdered
<1>3. \A t \in ToSet(socket_q) : <<h, t>> \in SendOrder
  BY <1>1 DEF OInv, QueuesOrdered
<1>4. /\ socket_q' = socket_q /\ process_q' = process_q /\ proc' = proc /\ received' = received
      /\ sentUpTo' = [sentUpTo EXCEPT ![h.ep] = data[h.buf]]
  BY DEF SocketSends
<1> HIDE DEF h
<1>5. QueuesOrdered'
  BY <1>1, <1>2, <1>4 DEF OInv, QueuesOrdered
<1>6. h.kind = "Send" /\ h \in Upcoming
  BY <1>1 DEF Upcoming, OfKind
<1>7. Upcoming' \subseteq Upcoming /\ Waiting' = Waiting
  BY <1>1, <1>4 DEF Upcoming, Waiting
<1>8. \A t \in Upcoming' : t.ep = h.ep => h.dgram < t.dgram
  BY <1>1, <1>2, <1>3, <1>4, <1>6 DEF Upcoming, SendOrder
<1>9. StagesOrdered' /\ Sent
  BY <1>4, <1>6, <1>7, <1>8, SentNext DEF OInv, Sent
<1> QED BY <1>5, <1>9

\* A datagram that arrives comes after all others.
LEMMA DatagramArrivesOrder ==
    ASSUME OInv, DatagramArrives PROVE QueuesOrdered' /\ StagesOrdered'
<1> DEFINE n == received + 1
           t == CompleteTask(rcv.buf, n, FALSE)
<1>1. n \in 0..MaxDatagrams /\ FALSE \in BOOLEAN /\ received \in Nat
  BY DEF OInv, PInv, Typed, DatagramArrives
<1>2. rcv.buf \in Buffers /\ ToSet(socket_q') = ToSet(socket_q) \cup {t}
  BY <1>1, ReceiveEnds DEF OInv, DatagramArrives
<1>3. t.kind = "Complete" /\ t.dgram = n /\ t.err = FALSE
  BY DEF CompleteTask
<1>4. t \in Tasks
  BY <1>1, <1>2, TasksMade DEF OfKind
<1>5. socket_q' = Append(socket_q, t) /\ received' = n
      /\ UNCHANGED <<sends, process_q, proc, sentUpTo>>
  BY DEF DatagramArrives
<1> HIDE DEF t
<1>6. \A s \in Waiting : s.dgram < t.dgram
  BY <1>1, <1>3, Numbers DEF OInv, PInv, StagesOrdered
<1>7. QueuesOrdered'
  BY <1>3, <1>4, <1>5, <1>6, OrderedPost DEF OInv, PInv
<1>8. Upcoming' = Upcoming /\ Waiting' = Waiting \cup {t}
  BY <1>2, <1>3, <1>5 DEF Upcoming, Waiting
<1>9. \A s \in Upcoming' : sentUpTo'[s.ep] < s.dgram /\ s.dgram <= received'
  BY <1>1, <1>5, <1>8, Numbers DEF OInv, PInv, StagesOrdered
<1>10. proc' # Idle =>
         \A e \in proc'.todo : /\ sentUpTo'[e] < proc'.dgram /\ proc'.dgram <= received'
                               /\ \A s \in Upcoming' : s.ep = e => s.dgram < proc'.dgram
  BY <1>1, <1>5, <1>8, Numbers DEF OInv, PInv, StagesOrdered
<1>11. \A w \in Waiting' :
         /\ w.dgram <= received'
         /\ \A s \in Upcoming' : s.dgram < w.dgram
         /\ \A e \in Endpoints : sentUpTo'[e] < w.dgram
         /\ proc' # Idle => \A e \in proc'.todo : proc'.dgram < w.dgram
  BY <1>1, <1>3, <1>5, <1>8, Numbers DEF OInv, PInv, StagesOrdered
<1>12. \A e \in Endpoints : sentUpTo'[e] <= received'
  BY <1>1, <1>5, Numbers DEF OInv, PInv, StagesOrdered
<1>13. StagesOrdered'
  BY <1>9, <1>10, <1>11, <1>12 DEF StagesOrdered
<1> QED BY <1>7, <1>13

\* A task that neither sends nor brings a datagram is posted.
LEMMA PostOrder ==
    ASSUME OInv, NEW t \in Tasks, socket_q' = Append(socket_q, t),
           t.kind \in {"Rcv", "Recycle"} \/ (t.kind = "Complete" /\ t.err),
           UNCHANGED <<sends, process_q, sentUpTo>>,
           \/ proc' = proc
           \/ proc' = Idle,
           \/ received' = received
           \/ received' = received + 1
    PROVE  QueuesOrdered' /\ StagesOrdered'
<1>1. QueuesOrdered'
  BY OrderedPost DEF OInv, PInv
<1>2. ToSet(socket_q') = ToSet(socket_q) \cup {t}
  BY QueueAppend DEF OInv, PInv, Typed
<1>3. Upcoming' = Upcoming /\ Waiting' = Waiting
  BY <1>2 DEF Upcoming, Waiting
<1> QED BY <1>1, <1>3, StagesKept DEF OInv, PInv

\* A reference goes, and the recycler is posted or not.
LEMMA ReleaseOrder ==
    ASSUME OInv, NEW x \in Buffers, NEW pq, NEW p, NEW out,
           socket_q' = Released(x, pq, p, socket_q, out),
           UNCHANGED <<sends, process_q, sentUpTo, received>>,
           \/ proc' = proc
           \/ proc' = Idle
    PROVE  QueuesOrdered' /\ StagesOrdered'
<1>1. CASE socket_q' = Append(socket_q, RecycleTask(x))
  <2>1. RecycleTask(x) \in Tasks /\ RecycleTask(x).kind = "Recycle"
    BY TasksMade DEF OfKind
  <2> QED BY <1>1, <2>1, PostOrder
<1>2. CASE socket_q' = socket_q
  <2>1. QueuesOrdered'
    BY <1>2 DEF OInv, QueuesOrdered
  <2>2. Upcoming' = Upcoming /\ Waiting' = Waiting
    BY <1>2 DEF Upcoming, Waiting
  <2> QED BY <2>1, <2>2, StagesKept DEF OInv, PInv
<1> QED BY <1>1, <1>2 DEF Released

\* The datagram that is handled comes before those that are to be.
LEMMA HandlerStartsOrder ==
    ASSUME OInv, NEW targets \in SUBSET Endpoints, HandlerStarts(targets)
    PROVE  QueuesOrdered' /\ StagesOrdered'
<1> DEFINE h == Head(process_q)
<1>1. /\ process_q \in Seq(OfKind("Complete")) /\ process_q # <<>> /\ process_q' = Tail(process_q)
      /\ h \in OfKind("Complete")
      /\ ToSet(process_q) = {h} \cup ToSet(Tail(process_q))
  BY QueueTail DEF OInv, PInv, Typed, HandlerStarts
<1>2. /\ InOrder(Tail(process_q), HandleOrder)
      /\ \A t \in ToSet(Tail(process_q)) : <<h, t>> \in HandleOrder
  BY <1>1, OrderTail DEF OInv, QueuesOrdered
<1>3. \A t \in ToSet(socket_q) : <<h, t>> \in HandleOrder
  BY <1>1 DEF OInv, QueuesOrdered
<1>4. /\ proc' = [buf |-> h.buf, dgram |-> h.dgram, todo |-> targets]
      /\ h.err => targets = {}
      /\ UNCHANGED <<socket_q, sends, received, sentUpTo>>
  BY DEF HandlerStarts
<1> HIDE DEF h
<1>5. proc'.dgram = h.dgram /\ proc'.todo = targets
  BY <1>4
<1>6. QueuesOrdered'
  BY <1>1, <1>2, <1>4 DEF OInv, QueuesOrdered
<1>7. Upcoming' = Upcoming
  BY <1>4 DEF Upcoming
<1>8. Waiting' \subseteq Waiting /\ (~h.err => h \in Waiting)
  BY <1>1, <1>4 DEF Waiting, OfKind
<1>9. h.dgram \in Nat /\ h.err \in BOOLEAN /\ h \in Tasks /\ h.kind = "Complete"
  BY <1>1, TaskFacts DEF OfKind
<1>10. \A s \in Upcoming' : sentUpTo'[s.ep] < s.dgram /\ s.dgram <= received'
  BY <1>4, <1>7 DEF OInv, StagesOrdered
<1>11. proc' # Idle =>
         \A e \in proc'.todo : /\ sentUpTo'[e] < proc'.dgram /\ proc'.dgram <= received'
                               /\ \A s \in Upcoming' : s.ep = e => s.dgram < proc'.dgram
  BY <1>4, <1>5, <1>7, <1>8 DEF OInv, StagesOrdered
<1>12. \A t \in Waiting' : targets # {} => h.dgram < t.dgram
  BY <1>1, <1>2, <1>3, <1>4, <1>9 DEF Waiting, HandleOrder
<1>13. \A t \in Waiting' :
         /\ t.dgram <= received'
         /\ \A s \in Upcoming' : s.dgram < t.dgram
         /\ \A e \in Endpoints : sentUpTo'[e] < t.dgram
         /\ proc' # Idle => \A e \in proc'.todo : proc'.dgram < t.dgram
  BY <1>4, <1>5, <1>7, <1>8, <1>12 DEF OInv, StagesOrdered
<1>14. \A e \in Endpoints : sentUpTo'[e] <= received'
  BY <1>4 DEF OInv, StagesOrdered
<1>15. StagesOrdered'
  BY <1>10, <1>11, <1>13, <1>14 DEF StagesOrdered
<1> QED BY <1>6, <1>15

\* A send that is posted is the last to its endpoint.
LEMMA ForwardOrder ==
    ASSUME OInv, NEW e \in Endpoints, Forward(e) PROVE QueuesOrdered' /\ StagesOrdered'
<1> DEFINE t == SendTask(proc.buf, proc.dgram, e)
<1>1. /\ proc \in Handlers /\ proc # Idle /\ e \in proc.todo
      /\ proc' = [proc EXCEPT !.todo = @ \ {e}]
      /\ socket_q' = Append(socket_q, t)
      /\ UNCHANGED <<process_q, sends, received, sentUpTo>>
  BY DEF OInv, PInv, Typed, Forward
<1>2. proc'.dgram = proc.dgram /\ proc'.todo = proc.todo \ {e}
  BY <1>1 DEF Handlers
<1>3. proc.dgram \in 1..MaxDatagrams /\ proc.buf \in Buffers
  BY <1>1 DEF OInv, PInv, Intact, Handlers
<1>4. t \in Tasks /\ t.kind = "Send" /\ t.dgram = proc.dgram /\ t.ep = e
  <2>1. t \in Tasks
    BY <1>3, TasksMade DEF OfKind
  <2>2. t.kind = "Send" /\ t.dgram = proc.dgram /\ t.ep = e
    BY DEF SendTask
  <2> QED BY <2>1, <2>2
<1> HIDE DEF t
<1>5. /\ sentUpTo[e] < proc.dgram /\ proc.dgram <= received
      /\ \A s \in Upcoming : s.ep = e => s.dgram < proc.dgram
  BY <1>1 DEF OInv, StagesOrdered
<1>6. QueuesOrdered'
  BY <1>1, <1>4, <1>5, OrderedPost DEF OInv, PInv
<1>7. ToSet(socket_q') = ToSet(socket_q) \cup {t}
  BY <1>1, <1>4, QueueAppend DEF OInv, PInv, Typed
<1>8. Upcoming' = Upcoming \cup {t} /\ Waiting' = Waiting
  BY <1>1, <1>4, <1>7 DEF Upcoming, Waiting
<1>9. \A s \in Upcoming' : sentUpTo'[s.ep] < s.dgram /\ s.dgram <= received'
  BY <1>1, <1>4, <1>5, <1>8 DEF OInv, StagesOrdered
<1>10. proc' # Idle =>
         \A f \in proc'.todo : /\ sentUpTo'[f] < proc'.dgram /\ proc'.dgram <= received'
                               /\ \A s \in Upcoming' : s.ep = f => s.dgram < proc'.dgram
  BY <1>1, <1>2, <1>4, <1>8 DEF OInv, StagesOrdered
<1>11. \A w \in Waiting : proc.dgram < w.dgram
  BY <1>1 DEF OInv, StagesOrdered
<1>12. \A w \in Waiting' :
         /\ w.dgram <= received'
         /\ \A s \in Upcoming' : s.dgram < w.dgram
         /\ \A f \in Endpoints : sentUpTo'[f] < w.dgram
         /\ proc' # Idle => \A f \in proc'.todo : proc'.dgram < w.dgram
  BY <1>1, <1>2, <1>4, <1>8, <1>11 DEF OInv, StagesOrdered
<1>13. \A f \in Endpoints : sentUpTo'[f] <= received'
  BY <1>1 DEF OInv, StagesOrdered
<1>14. StagesOrdered'
  BY <1>9, <1>10, <1>12, <1>13 DEF StagesOrdered
<1> QED BY <1>6, <1>14

\* At first nothing is queued but the Rcv.
LEMMA OInvInit == Init => OInv
<1> SUFFICES ASSUME Init PROVE OInv
  OBVIOUS
<1>1. RcvTask.kind = "Rcv"
  BY DEF RcvTask
<1>2. ToSet(<<RcvTask>>) = {RcvTask} /\ \A q : q = <<>> => ToSet(q) = {}
  BY DEF ToSet
<1>3. QueuesOrdered
  BY <1>2 DEF Init, QueuesOrdered, InOrder
<1>4. StagesOrdered
  BY <1>1, <1>2 DEF Init, StagesOrdered, Upcoming, Waiting
<1> QED BY <1>3, <1>4, PInvInit DEF OInv

\* Every step keeps the order, and sends to an endpoint only what is later than
\* what it got before.
LEMMA OInvStep == OInv /\ [Next]_vars => OInv' /\ Sent
<1> SUFFICES ASSUME OInv, [Next]_vars PROVE OInv' /\ Sent
  OBVIOUS
<1>1. PInv'
  BY PInvStep DEF OInv
<1> SUFFICES QueuesOrdered' /\ StagesOrdered' /\ Sent
  BY <1>1 DEF OInv
<1>2. ASSUME sentUpTo' = sentUpTo PROVE Sent
  BY <1>2 DEF Sent
<1>3. CASE RunRcv
  BY <1>2, <1>3, TailOrder DEF OInv, RunRcv, NextTask
<1>4. CASE RunComplete
  BY <1>2, <1>4, RunCompleteOrder DEF RunComplete
<1>5. CASE RunRecycle
  BY <1>2, <1>5, TailOrder DEF OInv, RunRecycle, NextTask
<1>6. CASE RunSend
  BY <1>2, <1>6, RunSendOrder DEF RunSend
<1>7. CASE RunSendInline
  BY <1>7, RunSendInlineOrder
<1>8. CASE DatagramArrives
  BY <1>2, <1>8, DatagramArrivesOrder DEF DatagramArrives
<1>9. CASE ReceiveFails
  <2> DEFINE t == CompleteTask(rcv.buf, 0, TRUE)
  <2>1. 0 \in 0..MaxDatagrams /\ TRUE \in BOOLEAN
    OBVIOUS
  <2>2. rcv.buf \in Buffers
    BY <1>9, <2>1, ReceiveEnds DEF OInv, ReceiveFails
  <2>3. t \in Tasks
    BY <2>1, <2>2, TasksMade DEF OfKind
  <2>4. t.kind = "Complete" /\ t.err
    BY DEF CompleteTask
  <2>5. /\ socket_q' = Append(socket_q, t) /\ received' = received + 1
        /\ UNCHANGED <<sends, process_q, sentUpTo, proc>>
    BY <1>9 DEF ReceiveFails
  <2> HIDE DEF t
  <2> QED BY <1>2, <2>3, <2>4, <2>5, PostOrder
<1>10. CASE Writable
  <2>1. RcvTask \in Tasks /\ RcvTask.kind = "Rcv"
    BY TasksMade DEF OfKind
  <2> QED BY <1>2, <1>10, <2>1, PostOrder DEF Writable
<1>11. CASE SocketSends
  BY <1>11, SocketSendsOrder
<1>12. ASSUME NEW s \in completing, SendCompletes(s) PROVE QueuesOrdered' /\ StagesOrdered' /\ Sent
  <2>1. s.buf \in Buffers
    BY TaskFacts DEF OInv, PInv, Typed, OfKind
  <2> QED BY <1>2, <1>12, <2>1, ReleaseOrder DEF SendCompletes
<1>13. ASSUME NEW targets \in SUBSET Endpoints, HandlerStarts(targets)
       PROVE  QueuesOrdered' /\ StagesOrdered' /\ Sent
  BY <1>2, <1>13, HandlerStartsOrder DEF HandlerStarts
<1>14. ASSUME NEW e \in Endpoints, Forward(e) PROVE QueuesOrdered' /\ StagesOrdered' /\ Sent
  BY <1>2, <1>14, ForwardOrder DEF Forward
<1>15. CASE HandlerEnds
  <2>1. proc.buf \in Buffers
    BY <1>15 DEF HandlerEnds, OInv, PInv, Typed, Handlers
  <2> QED BY <1>2, <1>15, <2>1, ReleaseOrder DEF HandlerEnds
<1>16. CASE UNCHANGED vars
  BY <1>2, <1>16 DEF vars, OInv, QueuesOrdered, StagesOrdered, Upcoming, Waiting
<1> QED BY <1>3, <1>4, <1>5, <1>6, <1>7, <1>8, <1>9, <1>10, <1>11, <1>12, <1>13, <1>14,
           <1>15, <1>16 DEF Next

\* Datagrams reach each endpoint in the order in which they were received, over the
\* two strands, the sends under way and the buffers that are used again.
THEOREM DeliveredInOrder == Spec => SentInOrder
<1>1. OInv /\ [Next]_vars => [Sent]_vars
  BY OInvStep
<1> QED BY <1>1, OInvInit, OInvStep, PTL DEF Spec, SentInOrder, Sent
=============================================================================
