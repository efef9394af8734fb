----------------------- MODULE TCPSocketManagerProofs -----------------------
(* Proofs about TCPSocketManager, for any sockets, any calls and messages and  *)
(* any limits.  What is said of the connection needs that Open is called only  *)
(* once what Close started is finished (PatientUser), as ProtoConv does; what  *)
(* is said of the back-off and of the messages does not.                       *)
EXTENDS TCPSocketManager, FiniteSetTheorems, TLAPS

USE SocketsAssumption, UsesAssumption, ServerAssumption, NumbersAssumption

-----------------------------------------------------------------------------
(* The inductive invariant *)

\* The tasks of the strand.
Tasks == [task : {"Open", "Close", "AutoOpen", "AutoClose", "Write"},
          buf : {<<>>} \cup [id : Nat, from : Nat]]

\* The part of the state that the invariants below speak about is typed.
StateOK ==
    /\ use \in Uses /\ calls \in Nat /\ made \in Nat
    /\ strand \in Seq(Tasks)
    /\ manuallyClosed \in BOOLEAN /\ isConnected \in BOOLEAN /\ pending_read \in BOOLEAN
    /\ pending_write \in BOOLEAN /\ halfOpen \in BOOLEAN
    /\ CandidatepSocks \subseteq Sockets /\ connecting \subseteq Sockets
    /\ reads \subseteq Sockets /\ sendShut \subseteq Sockets
    /\ isConnected => pSock \in Sockets
    /\ resolving \in Nat

\* Open is posted only to an idle strand, so it is the next task to run; before
\* the first call nothing was opened.
OpenIsNext ==
    /\ \A i \in DOMAIN strand : strand[i].task = "Open" => i = 1
    /\ calls = 0 => manuallyClosed /\ ~Posted("Open")

\* One connection is tried at a time, and only when there is none; a try that
\* Close left behind is over before the next one starts.
OneTry ==
    /\ CandidatepSocks \subseteq connecting
    /\ \A s, t \in connecting : s = t
    /\ connecting # {} => ~isConnected /\ reads = {}
    /\ manuallyClosed => CandidatepSocks = {}
    /\ ~manuallyClosed \/ Posted("Open") => connecting = CandidatepSocks

\* After Close a connection, even one made too late, is about to be closed.
ClosedIsClosing == manuallyClosed /\ isConnected => Posted("AutoClose") /\ ~Posted("Open")

\* The strand will close the connection and then open another.
ClosesThenOpens ==
    \E i, j \in DOMAIN strand :
        i < j /\ strand[i].task = "AutoClose" /\ strand[j].task = "AutoOpen"

\* A connection that is not read any more is about to be replaced.
LossNoticed == isConnected /\ ~pending_read => ClosesThenOpens

\* pending_write tells of the write, which goes to the connection unless that was
\* made during the write.
WriteTracked ==
    /\ pending_write <=> writing.kind # "none"
    /\ pending_write => writing.sock \in Sockets
    /\ pending_write /\ ~halfOpen => writing.sock = pSock

IInv ==
    /\ StateOK
    /\ OpenIsNext
    /\ OneTry
    /\ OneReader
    /\ ClosedIsClosing
    /\ LossNoticed
    /\ WriteTracked
    /\ KeepsTrying
    /\ HeldOnlyBehindWrite
    /\ SendIsShut

-----------------------------------------------------------------------------
(* The strand *)

\* Where the elements of two sequences are in their concatenation.
LEMMA Behind ==
    ASSUME NEW S, NEW s \in Seq(S), NEW t \in Seq(S)
    PROVE  /\ s \o t \in Seq(S)
           /\ Len(s \o t) = Len(s) + Len(t)
           /\ \A i \in 1..Len(s) : (s \o t)[i] = s[i]
           /\ \A j \in 1..Len(t) : (s \o t)[Len(s) + j] = t[j]
  OBVIOUS

\* What posting to the strand does to what is posted: it all stays, in order.
LEMMA PostedBehind ==
    ASSUME strand \in Seq(Tasks), NEW ts \in Seq(Tasks), strand' = strand \o ts
    PROVE  /\ strand' \in Seq(Tasks)
           /\ \A i \in DOMAIN strand : i \in DOMAIN strand' /\ strand'[i] = strand[i]
           /\ \A t : Posted(t)' <=> Posted(t) \/ \E i \in DOMAIN ts : ts[i].task = t
           /\ \A i \in DOMAIN strand' : i \notin DOMAIN strand =>
                \E j \in DOMAIN ts : i = Len(strand) + j /\ strand'[i] = ts[j]
           /\ ClosesThenOpens => ClosesThenOpens'
<1>1. /\ strand' \in Seq(Tasks)
      /\ Len(strand') = Len(strand) + Len(ts)
      /\ \A i \in 1..Len(strand) : strand'[i] = strand[i]
      /\ \A j \in 1..Len(ts) : strand'[Len(strand) + j] = ts[j]
  OBVIOUS
<1>2. \A i \in DOMAIN strand : i \in DOMAIN strand' /\ strand'[i] = strand[i]
  BY <1>1
<1>3. ASSUME NEW i \in DOMAIN strand', i \notin DOMAIN strand
      PROVE  \E j \in DOMAIN ts : i = Len(strand) + j /\ strand'[i] = ts[j]
  <2>1. i - Len(strand) \in 1..Len(ts) /\ i = Len(strand) + (i - Len(strand))
    BY <1>1, <1>3
  <2>2. PICK j : j = i - Len(strand)
    OBVIOUS
  <2>3. j \in DOMAIN ts /\ i = Len(strand) + j
    BY <2>1, <2>2
  <2>4. strand'[Len(strand) + j] = ts[j]
    BY <1>1, <2>1, <2>2
  <2> QED BY <2>3, <2>4
<1>4. ASSUME NEW t
      PROVE  Posted(t)' <=> Posted(t) \/ \E i \in DOMAIN ts : ts[i].task = t
  <2>1. ASSUME NEW j \in DOMAIN ts PROVE Len(strand) + j \in DOMAIN strand'
    <3>1. DOMAIN ts = 1..Len(ts) /\ DOMAIN strand' = 1..(Len(strand) + Len(ts))
      BY <1>1
    <3>2. Len(ts) \in Nat /\ Len(strand) \in Nat
      OBVIOUS
    <3> QED BY <2>1, <3>1, <3>2
  <2>2. Posted(t)' => Posted(t) \/ \E i \in DOMAIN ts : ts[i].task = t
    BY <1>2, <1>3 DEF Posted
  <2>3. Posted(t) => Posted(t)'
    BY <1>2 DEF Posted
  <2>4. ASSUME NEW j \in DOMAIN ts, ts[j].task = t PROVE Posted(t)'
    <3>1. j \in 1..Len(ts)
      BY <2>4
    <3>2. strand'[Len(strand) + j] = ts[j]
      BY <1>1, <3>1
    <3> QED BY <2>1, <2>4, <3>2 DEF Posted
  <2> QED BY <2>2, <2>3, <2>4
<1>5. ClosesThenOpens => ClosesThenOpens'
  BY <1>2 DEF ClosesThenOpens
<1> QED BY <1>1, <1>2, <1>3, <1>4, <1>5

\* What running the next task does: it is gone, the rest stays in order, and what
\* its handler posts is behind that.
LEMMA NextTaken ==
    ASSUME strand \in Seq(Tasks), strand # <<>>, NEW ts \in Seq(Tasks),
           strand' = Tail(strand) \o ts
    PROVE  /\ strand' \in Seq(Tasks)
           /\ \A t : t # Head(strand).task /\ Posted(t) => Posted(t)'
           /\ \A i \in DOMAIN ts : Posted(ts[i].task)'
           /\ OpenIsNext => \A i \in DOMAIN strand' :
                strand'[i].task = "Open" => \E j \in DOMAIN ts : ts[j].task = "Open"
           /\ ClosesThenOpens /\ Head(strand).task # "AutoClose" => ClosesThenOpens'
<1>1. /\ strand' \in Seq(Tasks)
      /\ Len(strand') = Len(strand) - 1 + Len(ts)
      /\ \A i \in 1..(Len(strand) - 1) : strand'[i] = strand[i + 1]
      /\ \A j \in 1..Len(ts) : strand'[Len(strand) - 1 + j] = ts[j]
  <2> DEFINE r == Tail(strand)
  <2>1. r \in Seq(Tasks) /\ Len(r) = Len(strand) - 1
        /\ \A i \in 1..(Len(strand) - 1) : r[i] = strand[i + 1]
    OBVIOUS
  <2>2. strand' = r \o ts
    OBVIOUS
  <2> HIDE DEF r
  <2> QED BY <2>1, <2>2
<1>2. Len(strand) \in Nat \ {0} /\ Head(strand) = strand[1] /\ Len(ts) \in Nat
  OBVIOUS
<1>3. ASSUME NEW i \in DOMAIN strand, i # 1
      PROVE  i - 1 \in DOMAIN strand' /\ strand'[i - 1] = strand[i]
  <2>1. i - 1 \in 1..(Len(strand) - 1) /\ (i - 1) + 1 = i
    BY <1>2, <1>3
  <2> QED BY <1>1, <1>2, <2>1
<1>4. ASSUME NEW i \in DOMAIN strand'
      PROVE  \/ i + 1 \in DOMAIN strand /\ strand'[i] = strand[i + 1]
             \/ \E j \in DOMAIN ts : strand'[i] = ts[j]
  <2>1. CASE i <= Len(strand) - 1
    BY <1>1, <1>2, <2>1
  <2>2. CASE i > Len(strand) - 1
    <3>1. PICK j \in Int : j = i - (Len(strand) - 1)
      BY <1>1, <1>2
    <3>2. j \in 1..Len(ts) /\ i = Len(strand) - 1 + j
      BY <1>1, <1>2, <2>2, <3>1
    <3>3. strand'[i] = ts[j] /\ j \in DOMAIN ts
      BY <1>1, <1>2, <3>2
    <3> QED BY <3>3
  <2> QED BY <1>1, <1>2, <2>1, <2>2
<1>5. ASSUME NEW t, t # Head(strand).task, Posted(t) PROVE Posted(t)'
  BY <1>2, <1>3, <1>5 DEF Posted
<1>6. ASSUME NEW j \in DOMAIN ts PROVE Posted(ts[j].task)'
  <2>1. /\ Len(strand) - 1 + j \in DOMAIN strand'
        /\ strand'[Len(strand) - 1 + j].task = ts[j].task
    BY <1>1, <1>2
  <2> QED BY <2>1 DEF Posted
<1>7. ASSUME OpenIsNext, NEW i \in DOMAIN strand', strand'[i].task = "Open"
      PROVE  \E j \in DOMAIN ts : ts[j].task = "Open"
  <2>1. ~(i + 1 \in DOMAIN strand /\ strand'[i] = strand[i + 1])
    <3>1. i \in Nat \ {0}
      BY <1>1
    <3> QED BY <1>7, <3>1 DEF OpenIsNext
  <2> QED BY <1>4, <1>7, <2>1
<1>8. ASSUME ClosesThenOpens, Head(strand).task # "AutoClose"
      PROVE  ClosesThenOpens'
  <2>1. PICK i, j \in DOMAIN strand :
          i < j /\ strand[i].task = "AutoClose" /\ strand[j].task = "AutoOpen"
    BY <1>8 DEF ClosesThenOpens
  <2>2. i # 1 /\ j # 1 /\ i \in Nat /\ j \in Nat
    BY <1>2, <1>8, <2>1
  <2>3. i - 1 < j - 1
    BY <2>1, <2>2
  <2> QED BY <1>3, <2>1, <2>2, <2>3 DEF ClosesThenOpens
<1> QED BY <1>1, <1>5, <1>6, <1>7, <1>8
\* The same for a handler that posts nothing.
LEMMA NextTakenOnly ==
    ASSUME IInv, strand # <<>>, strand' = Tail(strand) \o <<>>
    PROVE  /\ strand' \in Seq(Tasks)
           /\ \A t : t # Head(strand).task /\ Posted(t) => Posted(t)'
           /\ \A i \in DOMAIN strand' : strand'[i].task # "Open"
           /\ ClosesThenOpens /\ Head(strand).task # "AutoClose" => ClosesThenOpens'
<1> DEFINE ts == <<>>
<1>1. ts \in Seq(Tasks) /\ DOMAIN ts = {}
  OBVIOUS
<1>2. strand \in Seq(Tasks) /\ OpenIsNext /\ strand' = Tail(strand) \o ts
  BY DEF IInv, StateOK
<1> HIDE DEF ts
<1> QED BY <1>1, <1>2, NextTaken

-----------------------------------------------------------------------------
(* Every step keeps the invariant *)

\* The constructor: nothing is open, tried or written.
LEMMA InitIInv == Init => IInv
<1> SUFFICES ASSUME Init PROVE IInv
  OBVIOUS
<1>1. StateOK /\ OpenIsNext
  <2>1. strand \in Seq(Tasks) /\ DOMAIN strand = {}
    BY DEF Init
  <2>2. StateOK
    BY <2>1 DEF Init, StateOK
  <2>3. OpenIsNext
    BY <2>1 DEF Init, OpenIsNext, Posted
  <2> QED BY <2>2, <2>3
<1>2. OneTry /\ OneReader /\ ClosedIsClosing /\ LossNoticed
  BY DEF Init, OneTry, OneReader, ClosedIsClosing, LossNoticed
<1>3. WriteTracked /\ KeepsTrying /\ HeldOnlyBehindWrite /\ SendIsShut
  BY DEF Init, WriteTracked, NoWrite, KeepsTrying, HeldOnlyBehindWrite, SendIsShut
<1> QED BY <1>1, <1>2, <1>3 DEF IInv

\* Open, where it may be called: whatever it does, something is left under way,
\* and no second try is started.
LEMMA OpenStartsOneTry ==
    ASSUME IInv, NEW result, NEW ts \in Posts, Open(result, ts),
           ~manuallyClosed \/ Posted("Open")
    PROVE  /\ ts \in Seq(Tasks)
           /\ \A i \in DOMAIN ts : ts[i].task = "AutoOpen"
           /\ manuallyClosed' = FALSE
           /\ UNCHANGED <<isConnected, pending_read, pSock, reads, sendShut>>
           /\ resolving' \in Nat /\ connecting' \subseteq Sockets
           /\ CandidatepSocks' = connecting'
           /\ \A s, t \in connecting' : s = t
           /\ connecting' # {} => ~isConnected /\ reads = {}
           /\ \/ pending_read \/ CandidatepSocks' # {} \/ resolving' > 0
              \/ ts = <<Task("AutoOpen")>>
              \/ isConnected /\ ~pending_read
<1> USE DEF IInv
<1>1. ts \in Seq(Tasks) /\ \A i \in DOMAIN ts : ts[i].task = "AutoOpen"
  <2>1. CASE ts = <<>>
    BY <2>1
  <2>2. CASE ts = <<Task("AutoOpen")>>
    BY <2>2 DEF Task, Tasks
  <2> QED BY <2>1, <2>2 DEF Posts
<1>2. manuallyClosed' = FALSE /\ UNCHANGED <<isConnected, pending_read, pSock, reads, sendShut>>
  BY DEF Open
<1>3. connecting = CandidatepSocks /\ connecting \subseteq Sockets
  BY DEF OneTry, StateOK
<1>4. CASE OpenRefused(result, ts)
  BY <1>1, <1>2, <1>3, <1>4 DEF OpenRefused, Busy, StateOK, OneTry
<1>5. CASE OpenResolves(result, ts)
  BY <1>1, <1>2, <1>3, <1>5 DEF OpenResolves, Busy, StateOK, OneTry
<1>6. CASE OpenTries(result, ts)
  <2>1. ~isConnected /\ CandidatepSocks = {} /\ reads = {} /\ UNCHANGED resolving
    BY <1>6 DEF OpenTries, Busy, OneReader
  <2>2. \/ \E s \in Sockets : connecting' = {s} /\ CandidatepSocks' = {s}
        \/ UNCHANGED <<CandidatepSocks, connecting>> /\ ts = <<Task("AutoOpen")>>
    BY <1>3, <1>6, <2>1 DEF OpenTries
  <2> QED BY <1>1, <1>2, <1>3, <2>1, <2>2 DEF StateOK
<1> QED BY <1>4, <1>5, <1>6 DEF Open

\* WriteBuffer leaves nothing behind when it starts no write.
LEMMA WriteBufferWritesAll ==
    ASSUME NEW s, NEW q, NEW d, WriteBuffer(s, q, d)
    PROVE  /\ pending_write' \in BOOLEAN
           /\ pending_write' <=> writing'.kind # "none"
           /\ pending_write' => writing'.sock = s
           /\ ~pending_write' => queue_writebufs' = <<>> /\ dispatch_writebufs' = <<>>
  BY DEF WriteBuffer, NoWrite

\* Something that the user starts: a call or a message is posted.
LEMMA UserKeepsIInv ==
    ASSUME PatientUser, IInv, UserCall \/ UserWrite
    PROVE  IInv'
<1> USE DEF IInv
<1>0. UNCHANGED <<connection, opening, writes, use>>
  BY DEF UserCall, UserWrite
<1>1. CASE UserWrite
  <2> DEFINE ts == <<[task |-> "Write", buf |-> [id |-> made + 1, from |-> 1]]>>
  <2>1. strand' = strand \o ts /\ ts \in Seq(Tasks) /\ made' = made + 1 /\ calls' = calls
        /\ Len(ts) = 1 /\ ts[1].task = "Write"
    BY <1>1 DEF UserWrite, Post, StateOK, Tasks
  <2> HIDE DEF ts
  <2>2. /\ strand' \in Seq(Tasks)
        /\ \A i \in DOMAIN strand : i \in DOMAIN strand' /\ strand'[i] = strand[i]
        /\ \A t : Posted(t)' <=> Posted(t) \/ t = "Write"
        /\ \A i \in DOMAIN strand' : i \notin DOMAIN strand => strand'[i].task = "Write"
        /\ ClosesThenOpens => ClosesThenOpens'
    <3>1. strand \in Seq(Tasks) /\ DOMAIN ts = {1}
      BY <2>1 DEF StateOK
    <3>2. /\ strand' \in Seq(Tasks)
          /\ \A i \in DOMAIN strand : i \in DOMAIN strand' /\ strand'[i] = strand[i]
          /\ \A t : Posted(t)' <=> Posted(t) \/ \E i \in DOMAIN ts : ts[i].task = t
          /\ \A i \in DOMAIN strand' : i \notin DOMAIN strand =>
               \E j \in DOMAIN ts : i = Len(strand) + j /\ strand'[i] = ts[j]
          /\ ClosesThenOpens => ClosesThenOpens'
      BY <2>1, <3>1, PostedBehind
    <3> QED BY <2>1, <3>1, <3>2
  <2>3. StateOK'
    BY <1>0, <2>1, <2>2 DEF StateOK, connection, opening, writes
  <2>4. OpenIsNext'
    BY <1>0, <2>1, <2>2 DEF OpenIsNext, connection
  <2>5. OneTry' /\ OneReader' /\ ClosedIsClosing' /\ LossNoticed'
    BY <1>0, <2>2 DEF OneTry, OneReader, ClosedIsClosing, LossNoticed, connection
  <2>6. KeepsTrying'
    BY <1>0, <2>1, <2>2 DEF KeepsTrying, connection, opening
  <2>7. WriteTracked' /\ HeldOnlyBehindWrite' /\ SendIsShut'
    BY <1>0 DEF WriteTracked, HeldOnlyBehindWrite, SendIsShut, connection, writes
  <2> QED BY <2>3, <2>4, <2>5, <2>6, <2>7
<1>2. CASE UserCall
  <2> DEFINE c == use.calls[calls + 1]
             ts == <<Task(c)>>
  <2>1. /\ strand' = strand \o ts /\ made' = made /\ calls' = calls + 1
        /\ c = "Open" => strand = <<>> /\ connecting = {}
    BY <1>2 DEF UserCall, Post
  <2>2. c \in {"Open", "Close"}
    <3>1. use.calls \in Seq({"Open", "Close"}) /\ calls + 1 \in 1..Len(use.calls)
      BY <1>2 DEF UserCall, StateOK
    <3> QED BY <3>1
  <2>3. ts \in Seq(Tasks) /\ Len(ts) = 1 /\ ts[1].task = c
    BY <2>2 DEF Task, Tasks
  <2> HIDE DEF ts, c
  <2>4. /\ strand' \in Seq(Tasks)
        /\ \A i \in DOMAIN strand : i \in DOMAIN strand' /\ strand'[i] = strand[i]
        /\ \A t : Posted(t)' <=> Posted(t) \/ t = c
        /\ \A i \in DOMAIN strand' : i \notin DOMAIN strand =>
             i = Len(strand) + 1 /\ strand'[i].task = c
        /\ ClosesThenOpens => ClosesThenOpens'
    <3>1. strand \in Seq(Tasks) /\ DOMAIN ts = {1}
      BY <2>3 DEF StateOK
    <3>2. /\ strand' \in Seq(Tasks)
          /\ \A i \in DOMAIN strand : i \in DOMAIN strand' /\ strand'[i] = strand[i]
          /\ \A t : Posted(t)' <=> Posted(t) \/ \E i \in DOMAIN ts : ts[i].task = t
          /\ \A i \in DOMAIN strand' : i \notin DOMAIN strand =>
               \E j \in DOMAIN ts : i = Len(strand) + j /\ strand'[i] = ts[j]
          /\ ClosesThenOpens => ClosesThenOpens'
      BY <2>1, <2>3, <3>1, PostedBehind
    <3> QED BY <2>3, <3>1, <3>2
  <2>5. StateOK'
    BY <1>0, <2>1, <2>4 DEF StateOK, connection, opening, writes
  <2>6. OpenIsNext'
    <3>1. ASSUME NEW i \in DOMAIN strand', strand'[i].task = "Open" PROVE i = 1
      BY <2>1, <2>4, <3>1 DEF OpenIsNext
    <3>2. calls' # 0
      BY <2>1 DEF StateOK
    <3> QED BY <3>1, <3>2 DEF OpenIsNext
  <2>7. OneTry'
    BY <1>0, <2>1, <2>4 DEF OneTry, connection
  <2>8. c = "Open" => ~Posted("AutoClose")
    BY <2>1 DEF Posted
  <2>9. OneReader' /\ ClosedIsClosing' /\ LossNoticed'
    BY <1>0, <2>2, <2>4, <2>8 DEF OneReader, ClosedIsClosing, LossNoticed, connection
  <2>10. KeepsTrying'
    <3>1. calls = 0 => manuallyClosed
      BY DEF OpenIsNext
    <3>2. calls # 0 => calls > 0
      BY DEF StateOK
    <3> QED BY <1>0, <2>4, <3>1, <3>2 DEF KeepsTrying, connection, opening
  <2>11. WriteTracked' /\ HeldOnlyBehindWrite' /\ SendIsShut'
    BY <1>0 DEF WriteTracked, HeldOnlyBehindWrite, SendIsShut, connection, writes
  <2> QED BY <2>5, <2>6, <2>7, <2>9, <2>10, <2>11
<1> QED BY <1>1, <1>2
\* Open, run by a task of the strand or after the wait for a retry.
LEMMA OpenKeepsIInv ==
    ASSUME IInv, NEW result, NEW ts \in Posts, Open(result, ts),
           \/ ~manuallyClosed /\ strand' = strand \o ts
           \/ /\ ~manuallyClosed \/ Posted("Open")
              /\ strand # <<>> /\ Head(strand).task \in {"Open", "AutoOpen"}
              /\ strand' = Tail(strand) \o ts,
           UNCHANGED <<use, calls, made, writes>>
    PROVE  IInv'
<1> USE DEF IInv
<1>1. /\ ts \in Seq(Tasks)
      /\ \A i \in DOMAIN ts : ts[i].task = "AutoOpen"
      /\ manuallyClosed' = FALSE
      /\ UNCHANGED <<isConnected, pending_read, pSock, reads, sendShut>>
      /\ resolving' \in Nat /\ connecting' \subseteq Sockets
      /\ CandidatepSocks' = connecting'
      /\ \A s, t \in connecting' : s = t
      /\ connecting' # {} => ~isConnected /\ reads = {}
      /\ \/ pending_read \/ CandidatepSocks' # {} \/ resolving' > 0
         \/ ts = <<Task("AutoOpen")>>
         \/ isConnected /\ ~pending_read
  BY OpenStartsOneTry
<1>2. /\ strand' \in Seq(Tasks)
      /\ \A i \in DOMAIN strand' : strand'[i].task = "Open" => i = 1
      /\ ts = <<Task("AutoOpen")>> => Posted("AutoOpen")'
      /\ ClosesThenOpens => ClosesThenOpens'
  <2>0. strand \in Seq(Tasks) /\ (ts = <<Task("AutoOpen")>> => 1 \in DOMAIN ts)
    BY DEF StateOK
  <2>1. CASE strand' = strand \o ts
    <3>1. /\ strand' \in Seq(Tasks)
          /\ \A i \in DOMAIN strand : i \in DOMAIN strand' /\ strand'[i] = strand[i]
          /\ \A t : Posted(t)' <=> Posted(t) \/ \E i \in DOMAIN ts : ts[i].task = t
          /\ \A i \in DOMAIN strand' : i \notin DOMAIN strand =>
               \E j \in DOMAIN ts : i = Len(strand) + j /\ strand'[i] = ts[j]
          /\ ClosesThenOpens => ClosesThenOpens'
      BY <1>1, <2>0, <2>1, PostedBehind
    <3>2. \A i \in DOMAIN strand' : strand'[i].task = "Open" => i = 1
      BY <1>1, <3>1 DEF OpenIsNext
    <3> QED BY <1>1, <2>0, <3>1, <3>2
  <2>2. CASE /\ strand # <<>> /\ Head(strand).task \in {"Open", "AutoOpen"}
             /\ strand' = Tail(strand) \o ts
    <3>1. /\ strand' \in Seq(Tasks)
          /\ \A i \in DOMAIN ts : Posted(ts[i].task)'
          /\ OpenIsNext => \A i \in DOMAIN strand' :
               strand'[i].task = "Open" => \E j \in DOMAIN ts : ts[j].task = "Open"
          /\ ClosesThenOpens /\ Head(strand).task # "AutoClose" => ClosesThenOpens'
      BY <1>1, <2>0, <2>2, NextTaken
    <3>2. ts = <<Task("AutoOpen")>> => Posted("AutoOpen")'
      BY <1>1, <2>0, <3>1
    <3> QED BY <1>1, <2>2, <3>1, <3>2
  <2> QED BY <2>1, <2>2
<1>3. ClosesThenOpens' => Posted("AutoOpen")'
  BY DEF ClosesThenOpens, Posted
<1>4. StateOK'
  BY <1>1, <1>2 DEF StateOK, writes
<1>5. OpenIsNext'
  BY <1>1, <1>2 DEF OpenIsNext
<1>6. OneTry' /\ OneReader' /\ ClosedIsClosing' /\ LossNoticed'
  BY <1>1, <1>2 DEF OneTry, OneReader, ClosedIsClosing, LossNoticed
<1>7. KeepsTrying'
  BY <1>1, <1>2, <1>3 DEF KeepsTrying, LossNoticed
<1>8. HeldOnlyBehindWrite'
  <2>1. isConnected => ~manuallyClosed
    BY DEF ClosedIsClosing
  <2> QED BY <1>1, <2>1 DEF HeldOnlyBehindWrite, writes
<1>9. WriteTracked' /\ SendIsShut'
  BY <1>1 DEF WriteTracked, SendIsShut, writes
<1> QED BY <1>4, <1>5, <1>6, <1>7, <1>8, <1>9

\* The tasks that may open.
LEMMA OpeningKeepsIInv ==
    ASSUME IInv, RunOpen \/ RunAutoOpen \/ RetryHandler
    PROVE  IInv'
<1> USE DEF IInv
<1>1. CASE RunOpen
  <2>1. Posted("Open") /\ strand # <<>> /\ Head(strand).task = "Open"
    BY <1>1 DEF RunOpen, Take, Posted, StateOK
  <2> QED BY <1>1, <2>1, OpenKeepsIInv DEF RunOpen, TakeAndPost
<1>2. CASE RetryHandler
  <2>1. CASE manuallyClosed
    <3>1. UNCHANGED <<use, calls, made, strand, connection, resolved, resolving, writes>>
      BY <1>2, <2>1 DEF RetryHandler
    <3>2. StateOK' /\ OpenIsNext' /\ OneTry' /\ OneReader'
      BY <3>1 DEF StateOK, OpenIsNext, OneTry, OneReader, Posted, connection, writes
    <3>3. ClosedIsClosing' /\ LossNoticed' /\ KeepsTrying'
      BY <2>1, <3>1 DEF ClosedIsClosing, LossNoticed, ClosesThenOpens, KeepsTrying, Posted, connection
    <3>4. WriteTracked' /\ HeldOnlyBehindWrite' /\ SendIsShut'
      BY <3>1 DEF WriteTracked, HeldOnlyBehindWrite, SendIsShut, connection, writes
    <3> QED BY <3>2, <3>3, <3>4
  <2>2. CASE ~manuallyClosed
    BY <1>2, <2>2, OpenKeepsIInv DEF RetryHandler, Post
  <2> QED BY <2>1, <2>2
<1>3. CASE RunAutoOpen
  <2>1. strand # <<>> /\ Head(strand).task = "AutoOpen"
    BY <1>3 DEF RunAutoOpen, Take
  <2>2. CASE ~Refuses /\ RampNow = 0
    <3>1. ~manuallyClosed
      BY <2>2 DEF Refuses
    <3> QED BY <1>3, <2>1, <2>2, <3>1, OpenKeepsIInv DEF RunAutoOpen, TakeAndPost
  <2>3. CASE Refuses \/ RampNow # 0
    <3>1. /\ strand' = Tail(strand) \o <<>>
          /\ UNCHANGED <<use, calls, made, writes, connection, resolving>>
          /\ Refuses \/ "retry" \in timers'
      BY <1>3, <2>3 DEF RunAutoOpen, TakeAndPost, SetTimer, opening
    <3>2. /\ strand' \in Seq(Tasks)
          /\ \A t : t # "AutoOpen" /\ Posted(t) => Posted(t)'
          /\ \A i \in DOMAIN strand' : strand'[i].task # "Open"
          /\ ClosesThenOpens => ClosesThenOpens'
      BY <2>1, <3>1, NextTakenOnly
    <3>3. ClosesThenOpens' => Posted("AutoOpen")'
      BY DEF ClosesThenOpens, Posted
    <3>4. StateOK' /\ OpenIsNext' /\ OneTry' /\ OneReader'
      BY <3>1, <3>2 DEF StateOK, OpenIsNext, OneTry, OneReader, Posted, connection, writes
    <3>5. ClosedIsClosing' /\ LossNoticed'
      BY <3>1, <3>2 DEF ClosedIsClosing, LossNoticed, Posted, connection
    <3>6. KeepsTrying'
      BY <3>1, <3>2, <3>3 DEF KeepsTrying, LossNoticed, Refuses, Busy, connection
    <3>7. WriteTracked' /\ HeldOnlyBehindWrite' /\ SendIsShut'
      BY <3>1 DEF WriteTracked, HeldOnlyBehindWrite, SendIsShut, connection, writes
    <3> QED BY <3>4, <3>5, <3>6, <3>7
  <2> QED BY <2>2, <2>3
<1> QED BY <1>1, <1>2, <1>3
\* Close, and the closing of the connection that follows it or a lost one.
LEMMA ClosingKeepsIInv ==
    ASSUME IInv, RunClose \/ RunAutoClose
    PROVE  IInv'
<1> USE DEF IInv
<1>1. CASE RunClose
  <2> DEFINE ts == <<Task("AutoClose")>>
  <2>1. /\ strand # <<>> /\ Head(strand).task = "Close" /\ strand' = Tail(strand) \o ts
        /\ manuallyClosed' = TRUE /\ CandidatepSocks' = {}
        /\ UNCHANGED <<use, calls, made, isConnected, pending_read, pSock, connecting, reads,
                       sendShut, resolving, writes>>
    BY <1>1 DEF RunClose, Take, TakeAndPost
  <2>2. ts \in Seq(Tasks) /\ DOMAIN ts = {1} /\ ts[1].task = "AutoClose"
    BY DEF Task, Tasks
  <2>3. strand \in Seq(Tasks)
    BY DEF StateOK
  <2> HIDE DEF ts
  <2>4. /\ strand' \in Seq(Tasks)
        /\ \A i \in DOMAIN ts : Posted(ts[i].task)'
        /\ OpenIsNext => \A i \in DOMAIN strand' :
             strand'[i].task = "Open" => \E j \in DOMAIN ts : ts[j].task = "Open"
        /\ ClosesThenOpens /\ Head(strand).task # "AutoClose" => ClosesThenOpens'
    BY <2>1, <2>2, <2>3, NextTaken
  <2>5. Posted("AutoClose")' /\ ~Posted("Open")'
    BY <2>2, <2>4 DEF Posted
  <2>6. StateOK' /\ OpenIsNext'
    BY <2>1, <2>4, <2>5 DEF StateOK, OpenIsNext, Posted, writes
  <2>7. OneTry' /\ OneReader' /\ ClosedIsClosing' /\ LossNoticed' /\ KeepsTrying'
    BY <2>1, <2>4, <2>5 DEF OneTry, OneReader, ClosedIsClosing, LossNoticed, KeepsTrying
  <2>8. WriteTracked' /\ HeldOnlyBehindWrite' /\ SendIsShut'
    BY <2>1 DEF WriteTracked, HeldOnlyBehindWrite, SendIsShut, writes
  <2> QED BY <2>6, <2>7, <2>8
<1>2. CASE RunAutoClose
  <2>1. /\ strand # <<>> /\ Head(strand).task = "AutoClose" /\ strand' = Tail(strand) \o <<>>
        /\ sendShut' = IF ShutsNow THEN sendShut \cup {pSock} ELSE sendShut
        /\ isConnected' = FALSE
        /\ UNCHANGED <<use, calls, made, manuallyClosed, pending_read, pSock, CandidatepSocks,
                       connecting, reads, opening, writes>>
    BY <1>2 DEF RunAutoClose, Take, TakeAndPost
  <2>2. /\ strand' \in Seq(Tasks)
        /\ \A t : t # "AutoClose" /\ Posted(t) => Posted(t)'
        /\ \A i \in DOMAIN strand' : strand'[i].task # "Open"
    BY <2>1, NextTakenOnly
  <2>3. Posted("Open") => FALSE
    BY <2>1 DEF Posted, OpenIsNext, StateOK
  <2>4. ShutsNow => pSock \in Sockets
    BY DEF ShutsNow, StateOK
  <2>5. StateOK'
    BY <2>1, <2>2, <2>4 DEF StateOK, opening, writes
  <2>6. OpenIsNext' /\ OneTry' /\ OneReader'
    BY <2>1, <2>2, <2>3 DEF OpenIsNext, OneTry, OneReader, Posted
  <2>7. ClosedIsClosing' /\ LossNoticed'
    BY <2>1 DEF ClosedIsClosing, LossNoticed
  <2>8. KeepsTrying'
    BY <2>1, <2>2, <2>3 DEF KeepsTrying, opening
  <2>9. WriteTracked' /\ HeldOnlyBehindWrite'
    BY <2>1 DEF WriteTracked, HeldOnlyBehindWrite, writes
  <2>10. SendIsShut'
    BY <2>1 DEF SendIsShut, ShutsNow, WriteTracked, writes
  <2> QED BY <2>5, <2>6, <2>7, <2>8, <2>9, <2>10
<1> QED BY <1>1, <1>2

\* A message is queued or written.
LEMMA WritingKeepsIInv ==
    ASSUME IInv, RunWrite
    PROVE  IInv'
<1> USE DEF IInv
<1>1. /\ strand # <<>> /\ Head(strand).task = "Write" /\ strand' = Tail(strand) \o <<>>
      /\ UNCHANGED <<use, calls, made, connection, opening, dispatch_writebufs, halfOpen>>
      /\ \/ /\ ~isConnected \/ manuallyClosed \/ pending_write
            /\ UNCHANGED <<pending_write, writing>>
         \/ /\ isConnected /\ pending_write' = TRUE
            /\ writing'.kind = "direct" /\ writing'.sock = pSock
  BY DEF RunWrite, Take, TakeAndPost
<1>2. /\ strand' \in Seq(Tasks)
      /\ \A t : t # "Write" /\ Posted(t) => Posted(t)'
      /\ \A i \in DOMAIN strand' : strand'[i].task # "Open"
      /\ ClosesThenOpens => ClosesThenOpens'
  BY <1>1, NextTakenOnly
<1>3. ~Posted("Open") /\ ~Posted("Open")'
  BY <1>1, <1>2 DEF Posted, OpenIsNext, StateOK
<1>4. StateOK' /\ OpenIsNext'
  BY <1>1, <1>2, <1>3 DEF StateOK, OpenIsNext, connection, opening
<1>5. OneTry' /\ OneReader' /\ ClosedIsClosing' /\ LossNoticed'
  BY <1>1, <1>2, <1>3 DEF OneTry, OneReader, ClosedIsClosing, LossNoticed, connection
<1>6. KeepsTrying'
  BY <1>1, <1>2, <1>3 DEF KeepsTrying, connection, opening
<1>7. WriteTracked' /\ HeldOnlyBehindWrite' /\ SendIsShut'
  BY <1>1 DEF StateOK, WriteTracked, HeldOnlyBehindWrite, SendIsShut, connection
<1> QED BY <1>4, <1>5, <1>6, <1>7
\* What a completion handler posts (never Open) leaves what is posted in place.
LEMMA HandlerPosts ==
    ASSUME IInv, NEW ts \in Seq(Tasks), strand' = strand \o ts \/ (strand' = strand /\ ts = <<>>),
           \A i \in DOMAIN ts : ts[i].task # "Open"
    PROVE  /\ strand' \in Seq(Tasks)
           /\ \A i \in DOMAIN strand' : strand'[i].task = "Open" => i = 1
           /\ \A t : Posted(t)' <=> Posted(t) \/ \E i \in DOMAIN ts : ts[i].task = t
           /\ ClosesThenOpens => ClosesThenOpens'
<1>1. strand \in Seq(Tasks) /\ strand' = strand \o ts
  BY DEF IInv, StateOK
<1>2. /\ strand' \in Seq(Tasks)
      /\ \A i \in DOMAIN strand : i \in DOMAIN strand' /\ strand'[i] = strand[i]
      /\ \A t : Posted(t)' <=> Posted(t) \/ \E i \in DOMAIN ts : ts[i].task = t
      /\ \A i \in DOMAIN strand' : i \notin DOMAIN strand =>
           \E j \in DOMAIN ts : i = Len(strand) + j /\ strand'[i] = ts[j]
      /\ ClosesThenOpens => ClosesThenOpens'
  BY <1>1, PostedBehind
<1>3. \A i \in DOMAIN strand' : strand'[i].task = "Open" => i = 1
  BY <1>2 DEF IInv, OpenIsNext
<1> QED BY <1>2, <1>3

\* What a handler posts: one task or none.
LEMMA TaskOrNone ==
    ASSUME NEW t \in {"AutoOpen", "AutoClose"}, NEW ts \in {<<>>, <<Task(t)>>}
    PROVE  /\ ts \in Seq(Tasks)
           /\ \A i \in DOMAIN ts : ts[i].task = t
           /\ ts = <<Task(t)>> => 1 \in DOMAIN ts
<1>1. CASE ts = <<Task(t)>>
  <2>1. Task(t) \in Tasks /\ Task(t).task = t
    BY DEF Task, Tasks
  <2> QED BY <1>1, <2>1
<1>2. CASE ts = <<>>
  BY <1>2
<1> QED BY <1>1, <1>2

\* The two tasks of a failed read.
LEMMA AfterReadPosts ==
    /\ AfterRead \in Seq(Tasks) /\ Len(AfterRead) = 2 /\ DOMAIN AfterRead = {1, 2}
    /\ AfterRead[1].task = "AutoClose" /\ AfterRead[2].task = "AutoOpen"
<1>1. \A t \in {"AutoOpen", "AutoClose"} : Task(t) \in Tasks /\ Task(t).task = t
  BY DEF Task, Tasks
<1>2. AfterRead = <<Task("AutoClose"), Task("AutoOpen")>>
  BY DEF AfterRead
<1> QED BY <1>1, <1>2

\* The end of a wait or of a resolution.
LEMMA WaitsKeepIInv ==
    ASSUME IInv, EstablishedHandler \/ \E ok \in BOOLEAN : ResolveHandler(ok)
    PROVE  IInv'
<1> USE DEF IInv
<1>1. CASE EstablishedHandler
  <2>1. /\ UNCHANGED <<use, strand, calls, made, connection, resolving, writes>>
        /\ "retry" \in timers => "retry" \in timers'
    BY <1>1 DEF EstablishedHandler
  <2>2. StateOK' /\ OpenIsNext' /\ OneTry' /\ OneReader'
    BY <2>1 DEF StateOK, OpenIsNext, OneTry, OneReader, Posted, connection, writes
  <2>3. ClosedIsClosing' /\ LossNoticed' /\ KeepsTrying'
    BY <2>1 DEF ClosedIsClosing, LossNoticed, ClosesThenOpens, KeepsTrying, Posted, connection
  <2>4. WriteTracked' /\ HeldOnlyBehindWrite' /\ SendIsShut'
    BY <2>1 DEF WriteTracked, HeldOnlyBehindWrite, SendIsShut, connection, writes
  <2> QED BY <2>2, <2>3, <2>4
<1>2. ASSUME NEW ok \in BOOLEAN, ResolveHandler(ok) PROVE IInv'
  <2> DEFINE ts == IF ~manuallyClosed THEN <<Task("AutoOpen")>> ELSE <<>>
  <2>1. /\ UNCHANGED <<use, calls, made, connection, timers, writes>>
        /\ resolving' \in Nat
        /\ strand' = strand \o ts \/ (strand' = strand /\ ts = <<>>)
    BY <1>2 DEF ResolveHandler, Post, StateOK
  <2>2. /\ ts \in Seq(Tasks)
        /\ \A i \in DOMAIN ts : ts[i].task = "AutoOpen"
        /\ ~manuallyClosed => 1 \in DOMAIN ts
    <3>1. ts \in {<<>>, <<Task("AutoOpen")>>} /\ (~manuallyClosed => ts = <<Task("AutoOpen")>>)
      OBVIOUS
    <3> HIDE DEF ts
    <3> QED BY <3>1, TaskOrNone
  <2> HIDE DEF ts
  <2>3. /\ strand' \in Seq(Tasks)
        /\ \A i \in DOMAIN strand' : strand'[i].task = "Open" => i = 1
        /\ \A t : Posted(t)' <=> Posted(t) \/ \E i \in DOMAIN ts : ts[i].task = t
        /\ ClosesThenOpens => ClosesThenOpens'
    BY <2>1, <2>2, HandlerPosts
  <2>4. /\ Posted("Open")' <=> Posted("Open")
        /\ Posted("AutoClose")' <=> Posted("AutoClose")
        /\ ~manuallyClosed => Posted("AutoOpen")'
    BY <2>2, <2>3
  <2>5. StateOK' /\ OpenIsNext' /\ OneTry' /\ OneReader'
    BY <2>1, <2>3, <2>4 DEF StateOK, OpenIsNext, OneTry, OneReader, connection, writes
  <2>6. ClosedIsClosing' /\ LossNoticed' /\ KeepsTrying'
    BY <2>1, <2>3, <2>4 DEF ClosedIsClosing, LossNoticed, KeepsTrying, connection
  <2>7. WriteTracked' /\ HeldOnlyBehindWrite' /\ SendIsShut'
    BY <2>1 DEF WriteTracked, HeldOnlyBehindWrite, SendIsShut, connection, writes
  <2> QED BY <2>5, <2>6, <2>7
<1> QED BY <1>1, <1>2

\* A try ends, or the connection is lost.
LEMMA ConnectionKeepsIInv ==
    ASSUME IInv, NEW s \in Sockets, Connects(s) \/ ConnectFails(s) \/ ReadFails(s)
    PROVE  IInv'
<1> USE DEF IInv
<1>1. CASE ConnectFails(s)
  <2> DEFINE ts == IF CandidatepSocks' = {} THEN <<Task("AutoOpen")>> ELSE <<>>
  <2>1. /\ UNCHANGED <<use, calls, made, manuallyClosed, isConnected, pending_read, pSock, reads,
                       sendShut, opening, writes>>
        /\ s \in connecting
        /\ connecting' = connecting \ {s} /\ CandidatepSocks' = CandidatepSocks \ {s}
        /\ strand' = strand \o ts \/ (strand' = strand /\ ts = <<>>)
    BY <1>1 DEF ConnectFails, Post
  <2>2. /\ ts \in Seq(Tasks)
        /\ \A i \in DOMAIN ts : ts[i].task = "AutoOpen"
        /\ CandidatepSocks' = {} => 1 \in DOMAIN ts
    <3>1. ts \in {<<>>, <<Task("AutoOpen")>>} /\ (CandidatepSocks' = {} => ts = <<Task("AutoOpen")>>)
      OBVIOUS
    <3> HIDE DEF ts
    <3> QED BY <3>1, TaskOrNone
  <2> HIDE DEF ts
  <2>3. /\ strand' \in Seq(Tasks)
        /\ \A i \in DOMAIN strand' : strand'[i].task = "Open" => i = 1
        /\ \A t : Posted(t)' <=> Posted(t) \/ \E i \in DOMAIN ts : ts[i].task = t
        /\ ClosesThenOpens => ClosesThenOpens'
    BY <2>1, <2>2, HandlerPosts
  <2>4. /\ Posted("Open")' <=> Posted("Open")
        /\ Posted("AutoClose")' <=> Posted("AutoClose")
        /\ CandidatepSocks' = {} => Posted("AutoOpen")'
    BY <2>2, <2>3
  <2>5. StateOK' /\ OpenIsNext'
    BY <2>1, <2>3, <2>4 DEF StateOK, OpenIsNext, opening, writes
  <2>6. OneTry' /\ OneReader'
    BY <2>1, <2>4 DEF OneTry, OneReader
  <2>7. ClosedIsClosing' /\ LossNoticed' /\ KeepsTrying'
    BY <2>1, <2>3, <2>4 DEF ClosedIsClosing, LossNoticed, KeepsTrying
  <2>8. WriteTracked' /\ HeldOnlyBehindWrite' /\ SendIsShut'
    BY <2>1 DEF WriteTracked, HeldOnlyBehindWrite, SendIsShut, writes
  <2> QED BY <2>5, <2>6, <2>7, <2>8
<1>2. CASE ReadFails(s)
  <2> DEFINE ts == AfterRead
  <2>0. /\ ts \in Seq(Tasks) /\ Len(ts) = 2 /\ DOMAIN ts = {1, 2}
        /\ ts[1].task = "AutoClose" /\ ts[2].task = "AutoOpen"
    BY AfterReadPosts
  <2>1. /\ UNCHANGED <<use, calls, made, manuallyClosed, isConnected, pSock, CandidatepSocks,
                       connecting, sendShut, opening, writes>>
        /\ s \in reads /\ reads' = reads \ {s} /\ pending_read' = FALSE
        /\ strand' = strand \o ts
    BY <1>2 DEF ReadFails, Post
  <2> HIDE DEF ts
  <2>2. /\ strand' \in Seq(Tasks)
        /\ \A i \in DOMAIN strand' : strand'[i].task = "Open" => i = 1
        /\ \A t : Posted(t)' <=> Posted(t) \/ \E i \in DOMAIN ts : ts[i].task = t
    BY <2>0, <2>1, HandlerPosts
  <2>3. Posted("AutoOpen")' /\ Posted("AutoClose")' /\ (Posted("Open")' <=> Posted("Open"))
    BY <2>2, <2>0
  <2>4. ClosesThenOpens'
    <3> DEFINE n == Len(strand)
    <3>1. /\ n \in Nat /\ Len(strand') = n + 2
          /\ strand'[n + 1] = ts[1] /\ strand'[n + 2] = ts[2]
          /\ DOMAIN strand' = 1..(n + 2)
      <4>1. strand \in Seq(Tasks)
        BY DEF StateOK
      <4>2. /\ strand \o ts \in Seq(Tasks)
            /\ Len(strand \o ts) = Len(strand) + Len(ts)
            /\ \A j \in 1..Len(ts) : (strand \o ts)[Len(strand) + j] = ts[j]
        <5>1. ts \in Seq(Tasks)
          BY <2>0
        <5> QED BY <4>1, <5>1, Behind
      <4>3. /\ n \in Nat /\ Len(strand') = n + 2 /\ DOMAIN strand' = 1..(n + 2)
            /\ \A j \in 1..2 : strand'[n + j] = ts[j]
        BY <2>0, <2>1, <4>1, <4>2
      <4> QED BY <4>3
    <3> HIDE DEF n
    <3>2. n + 1 \in DOMAIN strand' /\ n + 2 \in DOMAIN strand' /\ n + 1 < n + 2
      BY <3>1
    <3> QED BY <3>1, <3>2, <2>0 DEF ClosesThenOpens
  <2>5. reads' = {}
    BY <2>1 DEF OneReader
  <2>6. StateOK' /\ OpenIsNext'
    BY <2>1, <2>2, <2>3 DEF StateOK, OpenIsNext, opening, writes
  <2>7. OneTry' /\ OneReader'
    BY <2>1, <2>3, <2>5 DEF OneTry, OneReader
  <2>8. ClosedIsClosing' /\ LossNoticed' /\ KeepsTrying'
    BY <2>1, <2>3, <2>4 DEF ClosedIsClosing, LossNoticed, KeepsTrying
  <2>9. WriteTracked' /\ HeldOnlyBehindWrite' /\ SendIsShut'
    BY <2>1 DEF WriteTracked, HeldOnlyBehindWrite, SendIsShut, writes
  <2> QED BY <2>6, <2>7, <2>8, <2>9
<1>3. CASE Connects(s)
  <2> DEFINE ts == IF manuallyClosed THEN <<Task("AutoClose")>> ELSE <<>>
  <2>1. s \in connecting /\ ~isConnected /\ reads = {}
    BY <1>3 DEF Connects, OneTry
  <2>2. /\ connecting' = connecting \ {s} /\ CandidatepSocks' = CandidatepSocks \ {s}
        /\ pSock' = s /\ isConnected' = TRUE /\ pending_read' = TRUE
        /\ reads' = {s} /\ sendShut' = sendShut \ {s}
        /\ strand' = strand \o ts /\ BufferedGoesOut(s) /\ halfOpen' = pending_write
        /\ UNCHANGED <<use, calls, made, manuallyClosed, resolving>>
    BY <1>3, <2>1 DEF Connects, Post
  <2>3. /\ ts \in Seq(Tasks)
        /\ \A i \in DOMAIN ts : ts[i].task = "AutoClose"
        /\ manuallyClosed => 1 \in DOMAIN ts
    <3>1. ts \in {<<>>, <<Task("AutoClose")>>} /\ (manuallyClosed => ts = <<Task("AutoClose")>>)
      OBVIOUS
    <3> HIDE DEF ts
    <3> QED BY <3>1, TaskOrNone
  <2> HIDE DEF ts
  <2>4. /\ strand' \in Seq(Tasks)
        /\ \A i \in DOMAIN strand' : strand'[i].task = "Open" => i = 1
        /\ \A t : Posted(t)' <=> Posted(t) \/ \E i \in DOMAIN ts : ts[i].task = t
    BY <2>2, <2>3, HandlerPosts
  <2>5. /\ Posted("Open")' <=> Posted("Open")
        /\ manuallyClosed => Posted("AutoClose")'
    BY <2>3, <2>4
  <2>6. connecting' = {} /\ CandidatepSocks' = {}
    BY <2>1, <2>2 DEF OneTry
  <2>7. manuallyClosed => ~Posted("Open")
    BY <2>1 DEF OneTry
  <2>8. \/ manuallyClosed \/ pending_write
        \/ WriteBuffer(s, queue_writebufs, dispatch_writebufs)
    BY <2>2 DEF BufferedGoesOut
  <2>9. /\ pending_write' \in BOOLEAN
        /\ pending_write' <=> writing'.kind # "none"
        /\ pending_write' => writing'.sock \in Sockets
        /\ pending_write' /\ ~halfOpen' => writing'.sock = s
        /\ ~manuallyClosed /\ ~pending_write' /\ ~halfOpen'
             => queue_writebufs' = <<>> /\ dispatch_writebufs' = <<>>
    <3>1. CASE manuallyClosed \/ pending_write
      <4>1. UNCHANGED <<queue_writebufs, dispatch_writebufs, pending_write, writing>>
        BY <2>2, <3>1 DEF BufferedGoesOut
      <4> QED BY <2>2, <3>1, <4>1 DEF WriteTracked, StateOK
    <3>2. CASE ~manuallyClosed /\ ~pending_write
      <4>1. WriteBuffer(s, queue_writebufs, dispatch_writebufs)
        BY <2>2, <3>2 DEF BufferedGoesOut
      <4> QED BY <4>1, WriteBufferWritesAll
    <3> QED BY <3>1, <3>2
  <2>10. StateOK' /\ OpenIsNext'
    BY <2>2, <2>4, <2>5, <2>6, <2>9 DEF StateOK, OpenIsNext
  <2>11. OneTry' /\ OneReader'
    BY <2>2, <2>6 DEF OneTry, OneReader
  <2>12. ClosedIsClosing' /\ LossNoticed' /\ KeepsTrying'
    BY <2>2, <2>5, <2>7 DEF ClosedIsClosing, LossNoticed, KeepsTrying
  <2>13. WriteTracked' /\ HeldOnlyBehindWrite' /\ SendIsShut'
    BY <2>2, <2>9 DEF WriteTracked, HeldOnlyBehindWrite, SendIsShut
  <2> QED BY <2>10, <2>11, <2>12, <2>13
<1> QED BY <1>1, <1>2, <1>3
\* A write ends.
LEMMA WrittenKeepsIInv ==
    ASSUME IInv, WriteHandler
    PROVE  IInv'
<1> USE DEF IInv
<1>1. PICK q, d : /\ writing.kind # "none" /\ CheckLastWrite(writing.sock, q, d)
                  /\ UNCHANGED <<use, calls, made, manuallyClosed, isConnected, pending_read,
                                 pSock, CandidatepSocks, connecting, reads, opening>>
  <2>1. (\E n : DirectWriteHandler(n)) \/ (\E done, part : BufferWriteHandler(done, part))
    BY DEF WriteHandler
  <2> QED BY <2>1 DEF DirectWriteHandler, BufferWriteHandler
<1>2. pending_write /\ writing.sock \in Sockets
  BY <1>1 DEF WriteTracked
<1>3. CASE Active(writing.sock)
  <2>1. /\ UNCHANGED <<strand, sendShut>> /\ halfOpen' = FALSE
        /\ WriteBuffer(writing.sock, q, d)
    BY <1>1, <1>3 DEF CheckLastWrite
  <2>2. /\ pending_write' \in BOOLEAN
        /\ pending_write' <=> writing'.kind # "none"
        /\ pending_write' => writing'.sock = writing.sock
        /\ ~pending_write' => queue_writebufs' = <<>> /\ dispatch_writebufs' = <<>>
    BY <2>1, WriteBufferWritesAll
  <2>3. writing.sock = pSock /\ isConnected
    BY <1>3 DEF Active
  <2>4. StateOK' /\ OpenIsNext' /\ OneTry' /\ OneReader'
    BY <1>1, <2>1, <2>2 DEF StateOK, OpenIsNext, OneTry, OneReader, Posted, opening
  <2>5. ClosedIsClosing' /\ LossNoticed' /\ KeepsTrying'
    BY <1>1, <2>1 DEF ClosedIsClosing, LossNoticed, ClosesThenOpens, KeepsTrying, Posted, opening
  <2>6. WriteTracked' /\ HeldOnlyBehindWrite' /\ SendIsShut'
    BY <1>1, <1>2, <2>2, <2>3 DEF WriteTracked, HeldOnlyBehindWrite, SendIsShut
  <2> QED BY <2>4, <2>5, <2>6
<1>4. CASE ~Active(writing.sock)
  <2> DEFINE ts == <<Task("AutoOpen")>>
  <2>1. /\ pending_write' = FALSE /\ writing' = NoWrite
        /\ sendShut' = sendShut \cup {writing.sock}
        /\ strand' = strand \o ts
        /\ UNCHANGED halfOpen
    BY <1>1, <1>4 DEF CheckLastWrite, Post
  <2>2. ts \in Seq(Tasks) /\ \A i \in DOMAIN ts : ts[i].task = "AutoOpen"
    BY TaskOrNone
  <2> HIDE DEF ts
  <2>3. /\ strand' \in Seq(Tasks)
        /\ \A i \in DOMAIN strand' : strand'[i].task = "Open" => i = 1
        /\ \A t : Posted(t)' <=> Posted(t) \/ \E i \in DOMAIN ts : ts[i].task = t
        /\ ClosesThenOpens => ClosesThenOpens'
    BY <2>1, <2>2, HandlerPosts
  <2>4. /\ Posted("Open")' <=> Posted("Open")
        /\ Posted("AutoClose")' <=> Posted("AutoClose")
        /\ Posted("AutoOpen") => Posted("AutoOpen")'
    BY <2>2, <2>3
  <2>5. StateOK' /\ OpenIsNext'
    BY <1>1, <1>2, <2>1, <2>3, <2>4 DEF StateOK, OpenIsNext, opening
  <2>6. OneTry' /\ OneReader' /\ ClosedIsClosing' /\ LossNoticed'
    BY <1>1, <2>3, <2>4 DEF OneTry, OneReader, ClosedIsClosing, LossNoticed
  <2>7. KeepsTrying'
    BY <1>1, <2>4 DEF KeepsTrying, opening
  <2>8. WriteTracked' /\ SendIsShut'
    BY <1>1, <2>1 DEF WriteTracked, SendIsShut, NoWrite
  <2>9. HeldOnlyBehindWrite'
    <3>1. isConnected /\ ~manuallyClosed => halfOpen
      BY <1>2, <1>4 DEF Active, WriteTracked
    <3> QED BY <1>1, <2>1, <3>1 DEF HeldOnlyBehindWrite
  <2> QED BY <2>5, <2>6, <2>7, <2>8, <2>9
<1> QED BY <1>3, <1>4

\* Every step of the manager and of its user keeps the invariant.
LEMMA NextIInv ==
    ASSUME PatientUser, IInv, [Next]_vars
    PROVE  IInv'
<1>1. CASE Next
  BY <1>1, UserKeepsIInv, OpeningKeepsIInv, ClosingKeepsIInv, WritingKeepsIInv, WaitsKeepIInv,
     ConnectionKeepsIInv, WrittenKeepsIInv DEF Next
<1>2. CASE UNCHANGED vars
  <2> USE <1>2 DEF vars, connection, opening, writes, IInv
  <2>1. StateOK' /\ OpenIsNext' /\ OneTry' /\ OneReader'
    BY DEF StateOK, OpenIsNext, OneTry, OneReader, Posted
  <2>2. ClosedIsClosing' /\ LossNoticed' /\ KeepsTrying'
    BY DEF ClosedIsClosing, LossNoticed, ClosesThenOpens, KeepsTrying, Posted
  <2>3. WriteTracked' /\ HeldOnlyBehindWrite' /\ SendIsShut'
    BY DEF WriteTracked, HeldOnlyBehindWrite, SendIsShut
  <2> QED BY <2>1, <2>2, <2>3
<1> QED BY <1>1, <1>2

\* The invariant of the socket manager always holds.
LEMMA SpecIInv ==
    ASSUME PatientUser
    PROVE  Spec => []IInv
<1>1. IInv /\ [Next]_vars => IInv'
  BY NextIInv
<1> QED BY <1>1, InitIInv, PTL DEF Spec

-----------------------------------------------------------------------------
(* The theorems *)

\* Unless it was closed, the manager never rests without a connection: whatever
\* ends in whatever order, a read, a try, a resolution, a wait or a posted task is
\* left that goes on.
THEOREM AlwaysTrying ==
    ASSUME PatientUser
    PROVE  Spec => []KeepsTrying
<1>1. IInv => KeepsTrying
  BY DEF IInv
<1> QED BY <1>1, SpecIInv, PTL

\* There is never a second read, nor one on a connection that was replaced.
THEOREM OneReaderAlways ==
    ASSUME PatientUser
    PROVE  Spec => []OneReader
<1>1. IInv => OneReader
  BY DEF IInv
<1> QED BY <1>1, SpecIInv, PTL

\* No message is left in the queue of a connection that could take it, unless the
\* connection was made during a write to the last one.
THEOREM NothingHeldBack ==
    ASSUME PatientUser
    PROVE  Spec => []HeldOnlyBehindWrite
<1>1. IInv => HeldOnlyBehindWrite
  BY DEF IInv
<1> QED BY <1>1, SpecIInv, PTL

\* Auto-close and the handler of the last write never both leave it to the other to
\* shut down the sending side.
THEOREM GivenUpIsShut ==
    ASSUME PatientUser
    PROVE  Spec => []SendIsShut
<1>1. IInv => SendIsShut
  BY DEF IInv
<1> QED BY <1>1, SpecIInv, PTL
-----------------------------------------------------------------------------
(* The back-off *)

\* A number below twice the modulus is its own remainder, or exceeds it by the modulus.
LEMMA ModOnce ==
    ASSUME NEW m \in Nat \ {0}, NEW a \in 0..(2 * m - 1)
    PROVE  (a % m = a) \/ (a % m = a - m)
  OBVIOUS

\* A remainder does not exceed the number.
LEMMA ModAtMost ==
    ASSUME NEW m \in Nat \ {0}, NEW a \in Nat
    PROVE  /\ a % m \in 0..(m - 1)
           /\ a % m <= a
  OBVIOUS

\* The wait keeps to the limits, and to the bits of ramp_time_ms.
RampOK ==
    /\ ramp_time_ms \in 0..(RampMod - 1)
    /\ ramp_time_ms <= min_retry_time \/ ramp_time_ms <= max_retry_time

\* What the action property says of a step.
RampGrows ==
    /\ ramp_time_ms' <= min_retry_time \/ ramp_time_ms' <= max_retry_time
    /\ ramp_time_ms' < ramp_time_ms =>
         \/ ramp_time_ms' = 0 /\ (isConnected \/ manuallyClosed')
         \/ ramp_time_ms' = 2 * ramp_time_ms - RampMod
         \/ ramp_time_ms' = max_retry_time % RampMod

\* What one step does to the wait.
LEMMA RampStep ==
    ASSUME RampOK, [Next]_vars
    PROVE  RampOK' /\ RampGrows
<1>1. /\ min_retry_time \in Nat /\ max_retry_time \in Nat /\ RampMod \in Nat \ {0}
      /\ min_retry_time % RampMod \in 0..(RampMod - 1) /\ min_retry_time % RampMod <= min_retry_time
      /\ max_retry_time % RampMod \in 0..(RampMod - 1) /\ max_retry_time % RampMod <= max_retry_time
  <2>1. min_retry_time \in Nat /\ max_retry_time \in Nat /\ RampMod \in Nat \ {0}
    OBVIOUS
  <2> QED BY <2>1, ModAtMost
<1> DEFINE least == min_retry_time % RampMod
           most == max_retry_time % RampMod
<1>2. CASE RunAutoOpen
  <2>1. RampNow = ramp_time_ms \/ (RampNow = least /\ least = most)
    BY DEF RampNow
  <2>2. \/ UNCHANGED ramp_time_ms
        \/ RampNow = 0 /\ ramp_time_ms' = least
        \/ ramp_time_ms' = RampNow
    BY <1>2 DEF RunAutoOpen, opening
  <2> HIDE DEF least, most
  <2>3. /\ least \in 0..(RampMod - 1) /\ least <= min_retry_time
        /\ most \in 0..(RampMod - 1) /\ most <= max_retry_time
    BY <1>1 DEF least, most
  <2>4. \/ ramp_time_ms' = ramp_time_ms
        \/ ramp_time_ms' = least /\ (ramp_time_ms = 0 \/ least = most)
    BY <2>1, <2>2
  <2>5. RampOK'
    BY <1>1, <2>3, <2>4 DEF RampOK
  <2>6. ramp_time_ms' < ramp_time_ms => ramp_time_ms' = most
    BY <1>1, <2>3, <2>4 DEF RampOK
  <2> QED BY <2>5, <2>6 DEF RampOK, RampGrows, most
<1>3. CASE RetryHandler
  <2> DEFINE d == (ramp_time_ms * 2) % RampMod
  <2>1. d \in 0..(RampMod - 1) /\ (d = 2 * ramp_time_ms \/ d = 2 * ramp_time_ms - RampMod)
    <3>1. ramp_time_ms * 2 \in 0..(2 * RampMod - 1) /\ ramp_time_ms * 2 = 2 * ramp_time_ms
      BY <1>1 DEF RampOK
    <3>2. ramp_time_ms * 2 \in Nat
      BY <1>1, <3>1
    <3>3. d \in 0..(RampMod - 1)
      BY <1>1, <3>2, ModAtMost
    <3>4. d = ramp_time_ms * 2 \/ d = ramp_time_ms * 2 - RampMod
      BY <1>1, <3>1, ModOnce
    <3> QED BY <3>1, <3>3, <3>4
  <2>2. \/ Doubled(ramp_time_ms) = most /\ d > max_retry_time
        \/ Doubled(ramp_time_ms) = d /\ ~(d > max_retry_time)
    BY DEF Doubled
  <2>3. ramp_time_ms' = Doubled(ramp_time_ms) \/ UNCHANGED ramp_time_ms
    BY <1>3 DEF RetryHandler
  <2> HIDE DEF d, most
  <2>4. most \in 0..(RampMod - 1) /\ most <= max_retry_time
    BY <1>1 DEF most
  <2>5. RampOK'
    BY <1>1, <2>1, <2>2, <2>3, <2>4 DEF RampOK
  <2>6. ramp_time_ms' < ramp_time_ms =>
          ramp_time_ms' = 2 * ramp_time_ms - RampMod \/ ramp_time_ms' = most
    BY <1>1, <2>1, <2>2, <2>3, <2>4 DEF RampOK
  <2> QED BY <2>5, <2>6 DEF RampOK, RampGrows, most
<1>4. CASE EstablishedHandler
  BY <1>1, <1>4 DEF EstablishedHandler, RampOK, RampGrows
<1>5. CASE RunClose
  BY <1>1, <1>5 DEF RunClose, RampOK, RampGrows
<1>6. ASSUME UNCHANGED ramp_time_ms
      PROVE  RampOK' /\ RampGrows
  BY <1>1, <1>6 DEF RampOK, RampGrows
<1>7. \/ RunAutoOpen \/ RetryHandler \/ EstablishedHandler \/ RunClose
      \/ UNCHANGED ramp_time_ms
  BY DEF Next, vars, opening, UserCall, UserWrite, RunOpen, RunAutoClose, RunWrite, ResolveHandler,
         Connects, ConnectFails, ReadFails, WriteHandler, DirectWriteHandler, BufferWriteHandler
<1> QED BY <1>2, <1>3, <1>4, <1>5, <1>6, <1>7

\* Whatever limits the user sets, the wait before a try keeps to them, and falls only to
\* start again when the connection has been up long enough or the user closes it, when
\* its doubling overflows the bits it has, or when it is set to a maximum that is below
\* the minimum or overflows itself.
THEOREM BackoffNeverShrinks == Spec => BackoffGrows
<1>1. Init => RampOK
  BY DEF Init, RampOK
<1>2. RampOK /\ [Next]_vars => RampOK'
  BY RampStep
<1>3. RampOK /\ [Next]_vars => [RampGrows]_vars
  BY RampStep
<1>4. Spec => [][RampGrows]_vars
  BY <1>1, <1>2, <1>3, PTL DEF Spec
<1> QED BY <1>4 DEF BackoffGrows, RampGrows

HIDE NumbersAssumption
HIDE ServerAssumption
HIDE UsesAssumption
HIDE SocketsAssumption

-----------------------------------------------------------------------------
(* Where each message is *)

\* What becomes of a message: it is not yet given to Write, waits on the strand, is
\* queued, is in dispatch_writebufs, is being written directly, or is done with.
Places == {"later", "strand", "queue", "dispatch", "direct", "dropped", "sent"}

\* The buffers for n messages.
Messages(n) == [id : 1..n, from : 1..Pieces]

\* Of the buffer's message, just the pieces it no longer holds were written, once.
Upto(b, s) == \A p \in 1..Pieces : s[<<b.id, p>>] = IF p < b.from THEN 1 ELSE 0

\* How often each piece was written.
Hist(s, n) == s \in [(1..n) \X (1..Pieces) -> Nat]

\* The buffers of f are of different messages, just those whose place is pl.
HeldBy(f, w, pl, s, n) ==
    /\ \A i \in DOMAIN f : f[i] \in Messages(n) /\ w[f[i].id] = pl /\ Upto(f[i], s)
    /\ \A i, j \in DOMAIN f : f[i].id = f[j].id => i = j
    /\ \A m \in 1..n : w[m] = pl => \E i \in DOMAIN f : f[i].id = m

\* The buffers of the strand, of a direct write and of the dropped ones, as functions.
Writes(st) == [i \in {j \in DOMAIN st : st[j].task = "Write"} |-> st[i].buf]
Direct(wr) == [i \in {j \in {1} : wr.kind = "direct"} |-> wr.buf]
Dropped(x) == [b \in x |-> b]

\* Every message has one place, w tells which; k of the n messages were given to Write.
Placed(w, n, k, st, q, d, wr, x, s) ==
    /\ w \in [1..n -> Places]
    /\ \A m \in 1..n : w[m] = "later" <=> m > k
    /\ \A m \in 1..n, p \in 1..Pieces : /\ w[m] = "later" => s[<<m, p>>] = 0
                                        /\ w[m] = "sent" => s[<<m, p>>] = 1
    /\ HeldBy(Writes(st), w, "strand", s, n)
    /\ HeldBy(q, w, "queue", s, n)
    /\ HeldBy(d, w, "dispatch", s, n)
    /\ HeldBy(Direct(wr), w, "direct", s, n)
    /\ HeldBy(Dropped(x), w, "dropped", s, n)

\* The buffers of h are those of f whose messages stay at pl, wherever they move.
Carried(f, h, g, v, pl, t, n) ==
    /\ \A i \in DOMAIN h : /\ g[i] \in DOMAIN f /\ h[i].id = f[g[i]].id
                           /\ h[i] \in Messages(n) /\ Upto(h[i], t)
    /\ \A i, j \in DOMAIN h : g[i] = g[j] => i = j
    /\ \A j \in DOMAIN f : v[f[j].id] = pl <=> \E i \in DOMAIN h : g[i] = j

\* The messages that a place keeps when others leave it.
LEMMA KeptHeld ==
    ASSUME NEW n, NEW f, NEW h, NEW g, NEW w, NEW v, NEW pl, NEW s, NEW t,
           HeldBy(f, w, pl, s, n),
           Carried(f, h, g, v, pl, t, n),
           \A m \in 1..n : v[m] = pl => w[m] = pl
    PROVE  HeldBy(h, v, pl, t, n)
<1> USE DEF Carried
<1>1. \A i \in DOMAIN h : v[h[i].id] = pl
  OBVIOUS
<1>2. \A i, j \in DOMAIN h : h[i].id = h[j].id => i = j
  <2> SUFFICES ASSUME NEW i \in DOMAIN h, NEW j \in DOMAIN h, h[i].id = h[j].id PROVE i = j
    OBVIOUS
  <2>1. f[g[i]].id = f[g[j]].id
    OBVIOUS
  <2>2. g[i] = g[j]
    BY <2>1 DEF HeldBy
  <2> QED BY <2>2
<1>3. ASSUME NEW m \in 1..n, v[m] = pl PROVE \E i \in DOMAIN h : h[i].id = m
  <2>1. PICK j \in DOMAIN f : f[j].id = m
    BY <1>3 DEF HeldBy
  <2>2. PICK i \in DOMAIN h : g[i] = j
    BY <1>3, <2>1
  <2> QED BY <2>1, <2>2
<1> QED BY <1>1, <1>2, <1>3 DEF HeldBy

\* What happens elsewhere does not matter.
LEMMA SameHeld ==
    ASSUME NEW n, NEW f, NEW w, NEW v, NEW pl, NEW s, NEW t,
           HeldBy(f, w, pl, s, n),
           \A m \in 1..n : v[m] = pl <=> w[m] = pl,
           \A m \in 1..n, p \in 1..Pieces : w[m] = pl => t[<<m, p>>] = s[<<m, p>>]
    PROVE  HeldBy(f, v, pl, t, n)
<1>1. ASSUME NEW i \in DOMAIN f PROVE f[i].id \in 1..n /\ w[f[i].id] = pl
  BY DEF HeldBy, Messages
<1>2. ASSUME NEW i \in DOMAIN f PROVE Upto(f[i], t)
  BY <1>1 DEF HeldBy, Upto
<1> QED BY <1>1, <1>2 DEF HeldBy

\* How often a place holds a piece: once, if it holds the message and the piece was
\* not written.
LEMMA CountHeld ==
    ASSUME NEW n \in Nat, NEW f, NEW w, NEW pl, NEW s, HeldBy(f, w, pl, s, n),
           NEW m \in 1..n, NEW p \in 1..Pieces
    PROVE  Cardinality({i \in DOMAIN f : Holds(f[i], <<m, p>>)})
             = IF w[m] = pl /\ s[<<m, p>>] = 0 THEN 1 ELSE 0
<1> DEFINE S == {i \in DOMAIN f : Holds(f[i], <<m, p>>)}
<1>0. /\ \A i \in DOMAIN f : f[i].from \in 1..Pieces
      /\ \A i : i \in S <=> i \in DOMAIN f /\ f[i].id = m /\ f[i].from <= p
  BY DEF HeldBy, Messages, Holds
<1>1. \A i \in DOMAIN f : f[i].id = m => (s[<<m, p>>] = 0 <=> f[i].from <= p)
  BY <1>0 DEF HeldBy, Upto
<1> HIDE DEF S
<1>2. CASE w[m] = pl /\ s[<<m, p>>] = 0
  <2>1. PICK i \in DOMAIN f : f[i].id = m
    BY <1>2 DEF HeldBy
  <2>2. i \in S
    BY <1>0, <1>1, <1>2, <2>1
  <2>3. \A j \in S : j = i
    BY <1>0, <2>1 DEF HeldBy
  <2>4. S = {i}
    BY <2>2, <2>3
  <2>5. Cardinality(S) = 1
    BY <2>4, FS_Singleton
  <2> QED BY <1>2, <2>5 DEF S
<1>3. CASE ~(w[m] = pl /\ s[<<m, p>>] = 0)
  <2>1. \A i : i \notin S
    BY <1>0, <1>1, <1>3 DEF HeldBy
  <2>2. S = {}
    BY <2>1
  <2>3. Cardinality(S) = 0
    BY <2>2, FS_EmptySet
  <2> QED BY <1>3, <2>3 DEF S
<1> QED BY <1>2, <1>3

\* A place that has no buffers has no message.
LEMMA NoneHeld ==
    ASSUME NEW n, NEW f, NEW w, NEW pl, NEW s, DOMAIN f = {}
    PROVE  HeldBy(f, w, pl, s, n) <=> \A m \in 1..n : w[m] # pl
  BY DEF HeldBy

\* The buffers of a direct write.
LEMMA DirectHolds ==
    ASSUME NEW wr
    PROVE  /\ wr.kind = "direct" => DOMAIN Direct(wr) = {1} /\ Direct(wr)[1] = wr.buf
           /\ wr.kind # "direct" => DOMAIN Direct(wr) = {}
  BY DEF Direct

\* The piece p of message m was written once, or is held once, or was dropped.
OnceIn(m, p, st, q, d, wr, x, s) ==
    s[<<m, p>>]
      + Cardinality({i \in DOMAIN q : Holds(q[i], <<m, p>>)})
      + Cardinality({i \in DOMAIN d : Holds(d[i], <<m, p>>)})
      + Cardinality({i \in DOMAIN st : st[i].task = "Write" /\ Holds(st[i].buf, <<m, p>>)})
      + (IF wr.kind = "direct" /\ Holds(wr.buf, <<m, p>>) THEN 1 ELSE 0)
      + Cardinality({b \in x : Holds(b, <<m, p>>)}) = 1

\* It is, if every message has its place.
LEMMA PlacedOnce ==
    ASSUME NEW n \in Nat, NEW k, NEW w, NEW st, NEW q, NEW d, NEW wr, NEW x, NEW s,
           Placed(w, n, k, st, q, d, wr, x, s), Hist(s, n),
           NEW m \in 1..n, ~(m > k), NEW p \in 1..Pieces
    PROVE  OnceIn(m, p, st, q, d, wr, x, s)
<1> DEFINE y == <<m, p>>
           At(pl) == IF w[m] = pl /\ s[y] = 0 THEN 1 ELSE 0
<1>1. /\ Cardinality({i \in DOMAIN q : Holds(q[i], y)}) = At("queue")
      /\ Cardinality({i \in DOMAIN d : Holds(d[i], y)}) = At("dispatch")
  BY CountHeld DEF Placed
<1>2. Cardinality({i \in DOMAIN st : st[i].task = "Write" /\ Holds(st[i].buf, y)}) = At("strand")
  <2>1. Cardinality({i \in DOMAIN Writes(st) : Holds(Writes(st)[i], y)}) = At("strand")
    <3>1. PICK f : f = Writes(st)
      OBVIOUS
    <3>2. HeldBy(f, w, "strand", s, n)
      BY <3>1 DEF Placed
    <3>3. Cardinality({i \in DOMAIN f : Holds(f[i], y)}) = At("strand")
      BY <3>2, CountHeld
    <3> QED BY <3>1, <3>3
  <2>2. {i \in DOMAIN st : st[i].task = "Write" /\ Holds(st[i].buf, y)}
          = {i \in DOMAIN Writes(st) : Holds(Writes(st)[i], y)}
    BY DEF Writes
  <2> QED BY <2>1, <2>2
<1>3. Cardinality({b \in x : Holds(b, y)}) = At("dropped")
  <2>1. Cardinality({i \in DOMAIN Dropped(x) : Holds(Dropped(x)[i], y)}) = At("dropped")
    <3>1. PICK f : f = Dropped(x)
      OBVIOUS
    <3>2. HeldBy(f, w, "dropped", s, n)
      BY <3>1 DEF Placed
    <3>3. Cardinality({i \in DOMAIN f : Holds(f[i], y)}) = At("dropped")
      BY <3>2, CountHeld
    <3> QED BY <3>1, <3>3
  <2>2. {b \in x : Holds(b, y)} = {i \in DOMAIN Dropped(x) : Holds(Dropped(x)[i], y)}
    BY DEF Dropped
  <2> QED BY <2>1, <2>2
<1>4. (IF wr.kind = "direct" /\ Holds(wr.buf, y) THEN 1 ELSE 0) = At("direct")
  <2> DEFINE f == Direct(wr)
  <2>1. HeldBy(f, w, "direct", s, n)
    BY DEF Placed
  <2>2. CASE wr.kind # "direct"
    BY <2>1, <2>2, DirectHolds DEF HeldBy
  <2>3. CASE wr.kind = "direct"
    <3>1. DOMAIN f = {1} /\ f[1] = wr.buf
      BY <2>3, DirectHolds
    <3>2. wr.buf \in Messages(n) /\ w[wr.buf.id] = "direct" /\ Upto(wr.buf, s)
          /\ (w[m] = "direct" => wr.buf.id = m)
      BY <2>1, <3>1 DEF HeldBy
    <3>3. wr.buf.from \in 1..Pieces
      BY <3>2 DEF Messages
    <3>4. Holds(wr.buf, y) <=> wr.buf.id = m /\ wr.buf.from <= p
      BY DEF Holds
    <3>5. wr.buf.id = m => (s[y] = 0 <=> wr.buf.from <= p)
      BY <3>2, <3>3 DEF Upto
    <3> QED BY <2>3, <3>2, <3>4, <3>5
  <2> QED BY <2>2, <2>3
<1>5. w[m] \in Places \ {"later"}
  BY DEF Placed
<1>6. s[y] = 1 \/ (s[y] = 0 /\ w[m] # "sent")
  <2>1. ASSUME NEW f, NEW pl, HeldBy(f, w, pl, s, n), w[m] = pl PROVE s[y] \in {0, 1}
    <3>1. PICK i \in DOMAIN f : f[i].id = m
      BY <2>1 DEF HeldBy
    <3>2. Upto(f[i], s)
      BY <2>1 DEF HeldBy
    <3> QED BY <3>1, <3>2 DEF Upto
  <2>2. w[m] = "sent" => s[y] = 1
    BY DEF Placed
  <2>3. w[m] # "sent" => s[y] \in {0, 1}
    BY <1>5, <2>1 DEF Placed, Places
  <2> QED BY <2>2, <2>3
<1>7. CASE s[y] = 1
  BY <1>1, <1>2, <1>3, <1>4, <1>7 DEF OnceIn
<1>8. CASE s[y] = 0 /\ w[m] # "sent"
  <2>1. w[m] \in {"queue", "dispatch", "strand", "direct", "dropped"}
    BY <1>5, <1>8 DEF Places
  <2>2. At("queue") + At("dispatch") + At("strand") + At("direct") + At("dropped") = 1
    BY <1>8, <2>1
  <2> QED BY <1>1, <1>2, <1>3, <1>4, <1>8, <2>2 DEF OnceIn
<1> QED BY <1>6, <1>7, <1>8

-----------------------------------------------------------------------------
(* How messages move *)

\* The strand runs a task that is no message, and handlers post some behind it.
LEMMA StrandKept ==
    ASSUME NEW n, NEW w, NEW s, NEW st \in Seq(Tasks), NEW st2 \in Seq(Tasks), NEW ts \in Seq(Tasks),
           \A i \in DOMAIN ts : ts[i].task # "Write",
           \/ st2 = st \o ts
           \/ st # <<>> /\ Head(st).task # "Write" /\ st2 = Tail(st) \o ts,
           HeldBy(Writes(st), w, "strand", s, n)
    PROVE  HeldBy(Writes(st2), w, "strand", s, n)
<1> DEFINE f == Writes(st)
           h == Writes(st2)
<1>0. /\ DOMAIN f = {i \in DOMAIN st : st[i].task = "Write"} /\ \A i \in DOMAIN f : f[i] = st[i].buf
      /\ DOMAIN h = {i \in DOMAIN st2 : st2[i].task = "Write"} /\ \A i \in DOMAIN h : h[i] = st2[i].buf
  BY DEF Writes
<1>1. PICK c : /\ c \in {0, 1}
               /\ \A i \in DOMAIN h : i + c \in DOMAIN f /\ h[i] = f[i + c]
               /\ \A i \in DOMAIN f : i - c \in DOMAIN h
  <2>1. CASE st2 = st \o ts
    <3>1. /\ Len(st2) = Len(st) + Len(ts) /\ DOMAIN st2 = 1..Len(st2) /\ DOMAIN st = 1..Len(st)
          /\ DOMAIN ts = 1..Len(ts) /\ Len(st) \in Nat /\ Len(ts) \in Nat
          /\ \A i \in 1..Len(st) : st2[i] = st[i]
          /\ \A j \in 1..Len(ts) : st2[Len(st) + j] = ts[j]
      BY <2>1
    <3>2. \A i \in DOMAIN st2 : i \notin DOMAIN st => st2[i].task # "Write"
      <4>1. ASSUME NEW i \in DOMAIN st2, i \notin DOMAIN st PROVE st2[i].task # "Write"
        <5>1. PICK j : j = i - Len(st)
          OBVIOUS
        <5>2. i \in 1..(Len(st) + Len(ts)) /\ ~(i \in 1..Len(st)) /\ Len(st) \in Nat /\ Len(ts) \in Nat
          BY <3>1, <4>1
        <5>3. j \in 1..Len(ts) /\ i = Len(st) + j
          BY <5>1, <5>2
        <5> QED BY <3>1, <5>3
      <4> QED BY <4>1
    <3>3. \A i \in DOMAIN h : i + 0 \in DOMAIN f /\ h[i] = f[i + 0]
      BY <1>0, <3>1, <3>2
    <3>4. \A i \in DOMAIN f : i - 0 \in DOMAIN h
      BY <1>0, <3>1
    <3> QED BY <3>3, <3>4
  <2>2. CASE st # <<>> /\ Head(st).task # "Write" /\ st2 = Tail(st) \o ts
    <3> DEFINE r == Tail(st)
    <3>1. /\ r \in Seq(Tasks) /\ Len(r) = Len(st) - 1 /\ Len(st) \in Nat \ {0} /\ Head(st) = st[1]
          /\ \A i \in 1..(Len(st) - 1) : r[i] = st[i + 1]
          /\ DOMAIN st = 1..Len(st)
      BY <2>2
    <3>2. st2 = r \o ts
      BY <2>2
    <3> HIDE DEF r
    <3>3. /\ Len(st2) = Len(r) + Len(ts) /\ DOMAIN st2 = 1..Len(st2)
          /\ DOMAIN ts = 1..Len(ts) /\ Len(ts) \in Nat
          /\ \A i \in 1..Len(r) : st2[i] = r[i]
          /\ \A j \in 1..Len(ts) : st2[Len(r) + j] = ts[j]
      BY <3>1, <3>2
    <3>4. \A i \in DOMAIN st2 : ~(i <= Len(r)) => st2[i].task # "Write"
      <4>1. ASSUME NEW i \in DOMAIN st2, ~(i <= Len(r)) PROVE st2[i].task # "Write"
        <5>1. PICK j : j = i - Len(r)
          OBVIOUS
        <5>2. j \in 1..Len(ts) /\ i = Len(r) + j
          BY <3>1, <3>3, <4>1, <5>1
        <5> QED BY <3>3, <5>2
      <4> QED BY <4>1
    <3>5. ASSUME NEW i \in DOMAIN h PROVE i + 1 \in DOMAIN f /\ h[i] = f[i + 1]
      <4>1. i \in DOMAIN st2 /\ i \in 1..Len(r) /\ st2[i] = st[i + 1] /\ i + 1 \in DOMAIN st
        BY <1>0, <3>1, <3>3, <3>4
      <4> QED BY <1>0, <4>1
    <3>6. ASSUME NEW i \in DOMAIN f PROVE i - 1 \in DOMAIN h
      <4>1. i \in DOMAIN st /\ st[i].task = "Write" /\ i # 1
        BY <1>0, <2>2, <3>1
      <4>2. i - 1 \in 1..Len(r) /\ (i - 1) + 1 = i
        BY <3>1, <4>1
      <4>3. st2[i - 1] = st[i] /\ i - 1 \in DOMAIN st2
        BY <3>1, <3>3, <4>2
      <4> QED BY <1>0, <4>1, <4>3
    <3> QED BY <3>5, <3>6
  <2> QED BY <2>1, <2>2
<1>2. DOMAIN f \subseteq Nat /\ DOMAIN h \subseteq Nat
  BY <1>0
<1> HIDE DEF f, h
<1> DEFINE g == [i \in DOMAIN h |-> i + c]
<1>3. \A i, j \in DOMAIN h : g[i] = g[j] => i = j
  BY <1>1, <1>2
<1>4. \A i \in DOMAIN h : /\ g[i] \in DOMAIN f /\ h[i].id = f[g[i]].id
                          /\ h[i] \in Messages(n) /\ Upto(h[i], s)
  BY <1>1 DEF HeldBy, f
<1>5. \A j \in DOMAIN f : w[f[j].id] = "strand" <=> \E i \in DOMAIN h : g[i] = j
  <2>1. ASSUME NEW j \in DOMAIN f PROVE j - c \in DOMAIN h /\ g[j - c] = j
    BY <1>1, <1>2
  <2>2. \A j \in DOMAIN f : w[f[j].id] = "strand"
    BY DEF HeldBy, f
  <2> QED BY <2>1, <2>2
<1>6. HeldBy(f, w, "strand", s, n)
  BY DEF f
<1> HIDE DEF g
<1>7. Carried(f, h, g, w, "strand", s, n)
  BY <1>3, <1>4, <1>5 DEF Carried
<1>8. HeldBy(h, w, "strand", s, n)
  BY <1>6, <1>7, KeptHeld
<1> QED BY <1>8 DEF h

\* Only message id goes elsewhere, or has pieces written.
Moved(w, v, id, s, t, n) ==
    /\ w \in [1..n -> Places] /\ v \in [1..n -> Places] /\ id \in 1..n
    /\ \A m \in 1..n : m # id => v[m] = w[m]
    /\ \A m \in 1..n, p \in 1..Pieces : m # id => t[<<m, p>>] = s[<<m, p>>]

\* The places that the message neither leaves nor enters are as before.
LEMMA OthersStay ==
    ASSUME NEW n, NEW w, NEW v, NEW id, NEW s, NEW t, NEW f, NEW pl,
           Moved(w, v, id, s, t, n), HeldBy(f, w, pl, s, n), w[id] # pl, v[id] # pl
    PROVE  HeldBy(f, v, pl, t, n)
<1>1. \A m \in 1..n : v[m] = pl <=> w[m] = pl
  BY DEF Moved
<1>2. \A m \in 1..n, p \in 1..Pieces : w[m] = pl => t[<<m, p>>] = s[<<m, p>>]
  BY DEF Moved
<1> QED BY <1>1, <1>2, SameHeld

\* The buffers of h are those of f and b, at k.
With(f, h, k, b) ==
    /\ DOMAIN h = DOMAIN f \cup {k} /\ k \notin DOMAIN f
    /\ \A i \in DOMAIN f : h[i] = f[i]
    /\ h[k] = b

\* The place it enters has one buffer more.
LEMMA OneEnters ==
    ASSUME NEW n, NEW w, NEW v, NEW s, NEW t, NEW f, NEW h, NEW k, NEW b, NEW pl,
           Moved(w, v, b.id, s, t, n), HeldBy(f, w, pl, s, n), w[b.id] # pl, v[b.id] = pl,
           With(f, h, k, b), b \in Messages(n), Upto(b, t)
    PROVE  HeldBy(h, v, pl, t, n)
<1> USE DEF With
<1>1. ASSUME NEW i \in DOMAIN f
      PROVE  f[i].id \in 1..n /\ w[f[i].id] = pl /\ f[i].id # b.id /\ v[f[i].id] = pl
  BY DEF HeldBy, Messages, Moved
<1>2. ASSUME NEW i \in DOMAIN f PROVE Upto(f[i], t)
  BY <1>1 DEF HeldBy, Upto, Moved
<1>3. \A i \in DOMAIN h : h[i] \in Messages(n) /\ v[h[i].id] = pl /\ Upto(h[i], t)
  BY <1>1, <1>2 DEF HeldBy
<1>4. \A i, j \in DOMAIN h : h[i].id = h[j].id => i = j
  BY <1>1 DEF HeldBy
<1>5. ASSUME NEW m \in 1..n, v[m] = pl PROVE \E i \in DOMAIN h : h[i].id = m
  BY <1>5 DEF HeldBy, Moved
<1> QED BY <1>3, <1>4, <1>5 DEF HeldBy

\* The buffers of h are those of f but for the one at k.
Without(f, h, g, k) ==
    /\ k \in DOMAIN f
    /\ \A i \in DOMAIN h : g[i] \in DOMAIN f \ {k} /\ h[i] = f[g[i]]
    /\ \A i, j \in DOMAIN h : g[i] = g[j] => i = j
    /\ \A j \in DOMAIN f \ {k} : \E i \in DOMAIN h : g[i] = j

\* The place it leaves has one buffer less.
LEMMA OneLeaves ==
    ASSUME NEW n, NEW w, NEW v, NEW s, NEW t, NEW f, NEW h, NEW g, NEW k, NEW pl,
           HeldBy(f, w, pl, s, n), Without(f, h, g, k),
           Moved(w, v, f[k].id, s, t, n), v[f[k].id] # pl
    PROVE  HeldBy(h, v, pl, t, n)
<1> USE DEF Without
<1>1. \A j \in DOMAIN f : f[j].id \in 1..n /\ w[f[j].id] = pl /\ (j # k => f[j].id # f[k].id)
  BY DEF HeldBy, Messages
<1>2. \A j \in DOMAIN f : j # k => Upto(f[j], t)
  BY <1>1 DEF HeldBy, Moved, Upto
<1>3. \A j \in DOMAIN f : v[f[j].id] = pl <=> \E i \in DOMAIN h : g[i] = j
  BY <1>1 DEF Moved
<1>4. Carried(f, h, g, v, pl, t, n)
  BY <1>1, <1>2, <1>3 DEF Carried, HeldBy
<1>5. \A m \in 1..n : v[m] = pl => w[m] = pl
  BY <1>1 DEF Moved
<1> QED BY <1>4, <1>5, KeptHeld

\* A message moves in the record of the places.
LEMMA MovedTo ==
    ASSUME NEW n, NEW w \in [1..n -> Places], NEW id \in 1..n, NEW pl \in Places, NEW s,
           NEW v, v = [w EXCEPT ![id] = pl]
    PROVE  Moved(w, v, id, s, s, n) /\ v[id] = pl
  BY DEF Moved

\* Write posts the next message.
LEMMA WritePosted ==
    ASSUME NEW n \in Nat, NEW k \in Nat, k < n, NEW w, NEW st \in Seq(Tasks), NEW q, NEW d, NEW wr,
           NEW x, NEW s, NEW st2 \in Seq(Tasks),
           Placed(w, n, k, st, q, d, wr, x, s),
           st2 = Append(st, [task |-> "Write", buf |-> [id |-> k + 1, from |-> 1]])
    PROVE  \E v : Placed(v, n, k + 1, st2, q, d, wr, x, s)
<1> USE NumbersAssumption
<1> DEFINE b == [id |-> k + 1, from |-> 1]
           f == Writes(st)
           h == Writes(st2)
           z == Len(st) + 1
<1>0. PICK id : id = k + 1
  OBVIOUS
<1>1. PICK v : v = [w EXCEPT ![id] = "strand"]
  OBVIOUS
<1>2. id \in 1..n /\ w \in [1..n -> Places] /\ "strand" \in Places
  BY <1>0 DEF Placed, Places
<1>3. Moved(w, v, id, s, s, n) /\ v[id] = "strand"
  BY <1>1, <1>2, MovedTo
<1>4. w[id] = "later"
  BY <1>0, <1>2 DEF Placed
<1>5. With(f, h, z, b)
  <2>1. /\ DOMAIN st2 = 1..z /\ DOMAIN st = 1..Len(st) /\ Len(st) \in Nat
        /\ \A i \in 1..Len(st) : st2[i] = st[i]
        /\ st2[z].task = "Write" /\ st2[z].buf = b
    OBVIOUS
  <2> QED BY <2>1 DEF Writes, With
<1>6. b \in Messages(n) /\ b.id = id /\ Upto(b, s)
  <2>1. b \in Messages(n) /\ b.id = id /\ b.from = 1
    BY <1>0, <1>2 DEF Messages
  <2>2. \A p \in 1..Pieces : s[<<id, p>>] = 0
    BY <1>2, <1>4 DEF Placed
  <2> HIDE DEF b
  <2> QED BY <2>1, <2>2 DEF Upto
<1> HIDE DEF b, f, h, z
<1>7. HeldBy(h, v, "strand", s, n)
  <2>1. HeldBy(f, w, "strand", s, n)
    BY DEF Placed, f
  <2>2. w[b.id] # "strand" /\ v[b.id] = "strand" /\ Moved(w, v, b.id, s, s, n)
    BY <1>3, <1>4, <1>6
  <2> QED BY <1>5, <1>6, <2>1, <2>2, OneEnters
<1>8. /\ HeldBy(q, v, "queue", s, n) /\ HeldBy(d, v, "dispatch", s, n)
      /\ HeldBy(Direct(wr), v, "direct", s, n) /\ HeldBy(Dropped(x), v, "dropped", s, n)
  BY <1>3, <1>4, OthersStay DEF Placed
<1>9. \A m \in 1..n : v[m] = "later" <=> m > k + 1
  BY <1>0, <1>3 DEF Placed, Moved
<1>10. \A m \in 1..n, p \in 1..Pieces : /\ v[m] = "later" => s[<<m, p>>] = 0
                                        /\ v[m] = "sent" => s[<<m, p>>] = 1
  BY <1>3 DEF Placed, Moved
<1>11. Placed(v, n, k + 1, st2, q, d, wr, x, s)
  BY <1>3, <1>7, <1>8, <1>9, <1>10 DEF Placed, Moved, h
<1> QED BY <1>11

\* The next task of the strand is a message, which leaves it.
LEMMA HeadLeaves ==
    ASSUME NEW n, NEW w, NEW v, NEW s, NEW st \in Seq(Tasks), st # <<>>, Head(st).task = "Write",
           HeldBy(Writes(st), w, "strand", s, n)
    PROVE  /\ Head(st).buf \in Messages(n) /\ w[Head(st).buf.id] = "strand" /\ Upto(Head(st).buf, s)
           /\ Moved(w, v, Head(st).buf.id, s, s, n) /\ v[Head(st).buf.id] # "strand"
                => HeldBy(Writes(Tail(st)), v, "strand", s, n)
<1> DEFINE r == Tail(st)
           f == Writes(st)
           h == Writes(r)
<1>1. /\ r \in Seq(Tasks) /\ Len(r) = Len(st) - 1 /\ Len(st) \in Nat \ {0} /\ Head(st) = st[1]
      /\ \A i \in 1..(Len(st) - 1) : r[i] = st[i + 1]
      /\ DOMAIN st = 1..Len(st)
  OBVIOUS
<1> HIDE DEF r
<1>2. /\ DOMAIN f = {i \in 1..Len(st) : st[i].task = "Write"} /\ \A i \in DOMAIN f : f[i] = st[i].buf
      /\ DOMAIN h = {i \in 1..(Len(st) - 1) : st[i + 1].task = "Write"}
      /\ \A i \in DOMAIN h : h[i] = st[i + 1].buf
  BY <1>1 DEF Writes
<1>3. HeldBy(f, w, "strand", s, n)
  OBVIOUS
<1> HIDE DEF f, h
<1>4. 1 \in DOMAIN f /\ f[1] = Head(st).buf
  BY <1>1, <1>2
<1>5. Head(st).buf \in Messages(n) /\ w[Head(st).buf.id] = "strand" /\ Upto(Head(st).buf, s)
  BY <1>3, <1>4 DEF HeldBy
<1>6. ASSUME Moved(w, v, f[1].id, s, s, n), v[f[1].id] # "strand"
      PROVE  HeldBy(h, v, "strand", s, n)
  <2> DEFINE g == [i \in DOMAIN h |-> i + 1]
  <2>1. ASSUME NEW i \in DOMAIN h PROVE g[i] \in DOMAIN f \ {1} /\ h[i] = f[g[i]]
    BY <1>1, <1>2
  <2>2. \A i, j \in DOMAIN h : g[i] = g[j] => i = j
    BY <1>1, <1>2
  <2>3. ASSUME NEW j \in DOMAIN f \ {1} PROVE \E i \in DOMAIN h : g[i] = j
    <3>1. j - 1 \in DOMAIN h /\ g[j - 1] = j
      BY <1>1, <1>2
    <3> QED BY <3>1
  <2> HIDE DEF g
  <2>4. Without(f, h, g, 1)
    BY <1>4, <2>1, <2>2, <2>3 DEF Without
  <2> QED BY <1>3, <1>6, <2>4, OneLeaves
<1> QED BY <1>4, <1>5, <1>6 DEF h, r

\* A message from the strand is queued.
LEMMA WriteQueued ==
    ASSUME NEW n \in Nat, NEW k, NEW w, NEW st \in Seq(Tasks), NEW q \in Seq(Messages(n)), NEW d,
           NEW wr, NEW x, NEW s, Placed(w, n, k, st, q, d, wr, x, s),
           st # <<>>, Head(st).task = "Write"
    PROVE  \E v : Placed(v, n, k, Tail(st), Append(q, Head(st).buf), d, wr, x, s)
<1> DEFINE b == Head(st).buf
           h == Append(q, b)
           z == Len(q) + 1
<1>0. HeldBy(Writes(st), w, "strand", s, n)
  BY DEF Placed
<1>1. b \in Messages(n) /\ w[b.id] = "strand" /\ Upto(b, s)
  BY <1>0, HeadLeaves
<1>2. PICK id : id = b.id
  OBVIOUS
<1>3. PICK v : v = [w EXCEPT ![id] = "queue"]
  OBVIOUS
<1>4. id \in 1..n /\ w \in [1..n -> Places] /\ "queue" \in Places /\ w[id] = "strand"
  BY <1>1, <1>2 DEF Placed, Messages, Places
<1>5. Moved(w, v, id, s, s, n) /\ v[id] = "queue" /\ w[id] = "strand"
  BY <1>3, <1>4, MovedTo
<1>6. HeldBy(Writes(Tail(st)), v, "strand", s, n)
  BY <1>0, <1>2, <1>5, HeadLeaves
<1>7. With(q, h, z, b)
  BY <1>1 DEF With
<1> HIDE DEF h, b, z
<1>8. HeldBy(h, v, "queue", s, n)
  <2>1. HeldBy(q, w, "queue", s, n)
    BY DEF Placed
  <2>2. w[b.id] # "queue" /\ v[b.id] = "queue" /\ Moved(w, v, b.id, s, s, n)
    BY <1>2, <1>5
  <2> QED BY <1>1, <1>7, <2>1, <2>2, OneEnters
<1>9. /\ HeldBy(d, v, "dispatch", s, n)
      /\ HeldBy(Direct(wr), v, "direct", s, n) /\ HeldBy(Dropped(x), v, "dropped", s, n)
  BY <1>5, OthersStay DEF Placed
<1>10. \A m \in 1..n : v[m] = "later" <=> m > k
  BY <1>5 DEF Placed, Moved
<1>11. \A m \in 1..n, p \in 1..Pieces : /\ v[m] = "later" => s[<<m, p>>] = 0
                                        /\ v[m] = "sent" => s[<<m, p>>] = 1
  BY <1>5 DEF Placed, Moved
<1>12. Placed(v, n, k, Tail(st), h, d, wr, x, s)
  BY <1>5, <1>6, <1>8, <1>9, <1>10, <1>11 DEF Placed, Moved
<1> QED BY <1>12 DEF h, b

\* A message from the strand is written directly.
LEMMA WriteStarted ==
    ASSUME NEW n \in Nat, NEW k, NEW w, NEW st \in Seq(Tasks), NEW q, NEW d,
           NEW wr, NEW wr2, NEW x, NEW s, Placed(w, n, k, st, q, d, wr, x, s),
           st # <<>>, Head(st).task = "Write", wr.kind # "direct",
           wr2.kind = "direct", wr2.buf = Head(st).buf
    PROVE  \E v : Placed(v, n, k, Tail(st), q, d, wr2, x, s)
<1> DEFINE b == Head(st).buf
           f == Direct(wr)
           h == Direct(wr2)
<1>0. HeldBy(Writes(st), w, "strand", s, n)
  BY DEF Placed
<1>1. b \in Messages(n) /\ w[b.id] = "strand" /\ Upto(b, s)
  BY <1>0, HeadLeaves
<1>2. PICK id : id = b.id
  OBVIOUS
<1>3. PICK v : v = [w EXCEPT ![id] = "direct"]
  OBVIOUS
<1>4. id \in 1..n /\ w \in [1..n -> Places] /\ "direct" \in Places /\ w[id] = "strand"
  BY <1>1, <1>2 DEF Placed, Messages, Places
<1>5. Moved(w, v, id, s, s, n) /\ v[id] = "direct" /\ w[id] = "strand"
  BY <1>3, <1>4, MovedTo
<1>6. HeldBy(Writes(Tail(st)), v, "strand", s, n)
  BY <1>0, <1>2, <1>5, HeadLeaves
<1>7. With(f, h, 1, b)
  BY DirectHolds DEF With
<1>8. HeldBy(f, w, "direct", s, n)
  BY DEF Placed
<1> HIDE DEF h, b, f
<1>9. HeldBy(h, v, "direct", s, n)
  <2>1. w[b.id] # "direct" /\ v[b.id] = "direct" /\ Moved(w, v, b.id, s, s, n)
    BY <1>2, <1>5
  <2> QED BY <1>1, <1>7, <1>8, <2>1, OneEnters
<1>10. /\ HeldBy(d, v, "dispatch", s, n)
       /\ HeldBy(q, v, "queue", s, n) /\ HeldBy(Dropped(x), v, "dropped", s, n)
  BY <1>5, OthersStay DEF Placed
<1>11. \A m \in 1..n : v[m] = "later" <=> m > k
  BY <1>5 DEF Placed, Moved
<1>12. \A m \in 1..n, p \in 1..Pieces : /\ v[m] = "later" => s[<<m, p>>] = 0
                                        /\ v[m] = "sent" => s[<<m, p>>] = 1
  BY <1>5 DEF Placed, Moved
<1>13. Placed(v, n, k, Tail(st), q, d, wr2, x, s)
  BY <1>5, <1>6, <1>9, <1>10, <1>11, <1>12 DEF Placed, Moved, h
<1> QED BY <1>13

\* The first message of a full queue is dropped.
LEMMA FirstDropped ==
    ASSUME NEW n \in Nat, NEW k, NEW w, NEW st, NEW q \in Seq(Messages(n)), NEW d,
           NEW wr, NEW x, NEW s, Placed(w, n, k, st, q, d, wr, x, s), q # <<>>
    PROVE  \E v : Placed(v, n, k, st, Tail(q), d, wr, x \cup {Head(q)}, s)
<1> DEFINE b == Head(q)
           h == Tail(q)
           f == Dropped(x)
           e == Dropped(x \cup {b})
<1>0. HeldBy(q, w, "queue", s, n) /\ HeldBy(f, w, "dropped", s, n)
  BY DEF Placed
<1>1. /\ b = q[1] /\ 1 \in DOMAIN q /\ DOMAIN q = 1..Len(q) /\ Len(q) \in Nat
      /\ DOMAIN h = 1..(Len(q) - 1) /\ \A i \in 1..(Len(q) - 1) : h[i] = q[i + 1]
  OBVIOUS
<1> HIDE DEF b, h
<1>2. b \in Messages(n) /\ w[b.id] = "queue" /\ Upto(b, s)
  BY <1>0, <1>1 DEF HeldBy
<1>3. PICK id : id = b.id
  OBVIOUS
<1>4. PICK v : v = [w EXCEPT ![id] = "dropped"]
  OBVIOUS
<1>5. id \in 1..n /\ w \in [1..n -> Places] /\ "dropped" \in Places /\ w[id] = "queue"
  BY <1>2, <1>3 DEF Placed, Messages, Places
<1>6. Moved(w, v, id, s, s, n) /\ v[id] = "dropped" /\ w[id] = "queue"
  BY <1>4, <1>5, MovedTo
<1>7. HeldBy(h, v, "queue", s, n)
  <2> DEFINE g == [i \in DOMAIN h |-> i + 1]
  <2>1. \A i \in DOMAIN h : g[i] \in DOMAIN q \ {1} /\ h[i] = q[g[i]]
    BY <1>1
  <2>2. \A i, j \in DOMAIN h : g[i] = g[j] => i = j
    BY <1>1
  <2>3. ASSUME NEW j \in DOMAIN q \ {1} PROVE \E i \in DOMAIN h : g[i] = j
    <3>1. j - 1 \in DOMAIN h /\ g[j - 1] = j
      BY <1>1
    <3> QED BY <3>1
  <2> HIDE DEF g
  <2>4. Without(q, h, g, 1)
    BY <1>1, <2>1, <2>2, <2>3 DEF Without
  <2>5. Moved(w, v, q[1].id, s, s, n) /\ v[q[1].id] # "queue"
    BY <1>1, <1>3, <1>6
  <2> QED BY <1>0, <2>4, <2>5, OneLeaves
<1>8. b \notin x
  <2>1. b \in x => w[b.id] = "dropped"
    BY <1>0 DEF HeldBy, Dropped
  <2> QED BY <1>2, <2>1
<1>9. With(f, e, b, b)
  BY <1>8 DEF Dropped, With
<1> HIDE DEF e, f
<1>10. HeldBy(e, v, "dropped", s, n)
  <2>1. w[b.id] # "dropped" /\ v[b.id] = "dropped" /\ Moved(w, v, b.id, s, s, n)
    BY <1>3, <1>6
  <2> QED BY <1>0, <1>2, <1>9, <2>1, OneEnters
<1>11. /\ HeldBy(d, v, "dispatch", s, n)
       /\ HeldBy(Writes(st), v, "strand", s, n) /\ HeldBy(Direct(wr), v, "direct", s, n)
  BY <1>6, OthersStay DEF Placed
<1>12. \A m \in 1..n : v[m] = "later" <=> m > k
  BY <1>6 DEF Placed, Moved
<1>13. \A m \in 1..n, p \in 1..Pieces : /\ v[m] = "later" => s[<<m, p>>] = 0
                                        /\ v[m] = "sent" => s[<<m, p>>] = 1
  BY <1>6 DEF Placed, Moved
<1>14. Placed(v, n, k, st, h, d, wr, x \cup {b}, s)
  BY <1>6, <1>7, <1>10, <1>11, <1>12, <1>13 DEF Placed, Moved, e
<1> QED BY <1>14 DEF h, b

\* The history when the first c pieces that b holds are written.
Counted(s, b, c) == [y \in DOMAIN s |-> s[y] + (IF Among(b, c, y) THEN 1 ELSE 0)]

\* From s to t the first c pieces that b holds, and no others, came to be written.
Advanced(s, t, b, c, n) ==
    /\ Hist(t, n)
    /\ \A m \in 1..n, p \in 1..Pieces : m # b.id => t[<<m, p>>] = s[<<m, p>>]
    /\ \A p \in 1..Pieces : t[<<b.id, p>>] = IF p < b.from + c THEN 1 ELSE 0

\* That is what the handler of a write counts.
LEMMA PartCounted ==
    ASSUME NEW n \in Nat, NEW b \in Messages(n), NEW s, Hist(s, n),
           NEW t, NEW c \in Nat, Upto(b, s),
           t = Counted(s, b, c)
    PROVE  Advanced(s, t, b, c, n)
<1>1. b.id \in 1..n /\ b.from \in Nat
  BY DEF Messages
<1>2. \A y \in (1..n) \X (1..Pieces) : t[y] = s[y] + (IF Among(b, c, y) THEN 1 ELSE 0)
  BY DEF Counted, Hist
<1>3. Hist(t, n)
  BY DEF Counted, Hist
<1>4. ASSUME NEW m \in 1..n, NEW p \in 1..Pieces
      PROVE  /\ <<m, p>> \in (1..n) \X (1..Pieces) /\ s[<<m, p>>] \in Nat
             /\ Among(b, c, <<m, p>>) <=> b.id = m /\ b.from <= p /\ p < b.from + c
  BY DEF Among, Holds, Hist
<1>5. ASSUME NEW m \in 1..n, NEW p \in 1..Pieces, m # b.id PROVE t[<<m, p>>] = s[<<m, p>>]
  <2>1. ~Among(b, c, <<m, p>>)
    BY <1>4, <1>5
  <2>2. t[<<m, p>>] = s[<<m, p>>] + 0
    BY <1>2, <1>4, <2>1
  <2> QED BY <1>4, <2>2
<1>6. ASSUME NEW p \in 1..Pieces PROVE t[<<b.id, p>>] = IF p < b.from + c THEN 1 ELSE 0
  <2>1. PICK m \in 1..n : m = b.id
    BY <1>1
  <2>2. s[<<m, p>>] = IF p < b.from THEN 1 ELSE 0
    BY <2>1 DEF Upto
  <2>3. t[<<m, p>>] = s[<<m, p>>] + (IF Among(b, c, <<m, p>>) THEN 1 ELSE 0)
    BY <1>2, <1>4
  <2>4. p \in Nat
    OBVIOUS
  <2> QED BY <1>1, <1>4, <2>1, <2>2, <2>3, <2>4
<1> QED BY <1>3, <1>5, <1>6 DEF Advanced

\* The handler of a direct write: the message is done with, or its rest is queued.
LEMMA DirectWritten ==
    ASSUME NEW n \in Nat, NEW k, NEW w, NEW st, NEW q \in Seq(Messages(n)), NEW d,
           NEW wr, NEW wr2, NEW x, NEW s, NEW t, NEW c \in Nat,
           Placed(w, n, k, st, q, d, wr, x, s), wr.kind = "direct", wr2.kind # "direct",
           c <= PiecesLeft(wr.buf),
           Advanced(s, t, wr.buf, c, n)
    PROVE  /\ c < PiecesLeft(wr.buf) => /\ Rest(wr.buf, c) \in Messages(n)
                                        /\ \E v : Placed(v, n, k, st, Append(q, Rest(wr.buf, c)), d, wr2, x, t)
           /\ ~(c < PiecesLeft(wr.buf)) => \E v : Placed(v, n, k, st, q, d, wr2, x, t)
<1> USE NumbersAssumption
<1> DEFINE b == wr.buf
           f == Direct(wr)
           h == Direct(wr2)
<1>0. HeldBy(f, w, "direct", s, n)
  BY DEF Placed
<1>1. DOMAIN f = {1} /\ f[1] = b /\ DOMAIN h = {}
  BY DirectHolds
<1> HIDE DEF f, h
<1>2. b \in Messages(n) /\ w[b.id] = "direct" /\ Upto(b, s)
  BY <1>0, <1>1 DEF HeldBy
<1> HIDE DEF b
<1>3. /\ Hist(t, n)
      /\ \A m \in 1..n, p \in 1..Pieces : m # b.id => t[<<m, p>>] = s[<<m, p>>]
      /\ \A p \in 1..Pieces : t[<<b.id, p>>] = IF p < b.from + c THEN 1 ELSE 0
  BY DEF Advanced, b
<1>4. PICK id : id = b.id
  OBVIOUS
<1>5. /\ id \in 1..n /\ w \in [1..n -> Places] /\ w[id] = "direct"
      /\ b.from \in 1..Pieces /\ c <= Pieces + 1 - b.from
  BY <1>2, <1>4 DEF Placed, Messages, PiecesLeft, b
<1> DEFINE After(v, pl) ==
             /\ Moved(w, v, id, s, t, n) /\ v[id] = pl
             /\ HeldBy(h, v, "direct", t, n)
             /\ HeldBy(d, v, "dispatch", t, n)
             /\ HeldBy(Writes(st), v, "strand", t, n) /\ HeldBy(Dropped(x), v, "dropped", t, n)
             /\ \A m \in 1..n : v[m] = "later" <=> m > k
             /\ \A m \in 1..n, p \in 1..Pieces :
                  /\ v[m] = "later" => t[<<m, p>>] = 0
                  /\ m # id /\ v[m] = "sent" => t[<<m, p>>] = 1
<1>6. ASSUME NEW v, NEW pl, pl \in {"sent", "queue"}, v = [w EXCEPT ![id] = pl]
      PROVE  After(v, pl)
  <2>1. pl \in Places /\ pl \notin {"later", "strand", "dispatch", "direct", "dropped"}
    BY <1>6 DEF Places
  <2>2. Moved(w, v, id, s, s, n) /\ v[id] = pl
    BY <1>5, <1>6, <2>1, MovedTo
  <2>3. Moved(w, v, id, s, t, n)
    BY <1>3, <1>4, <2>2 DEF Moved
  <2>4. /\ HeldBy(d, v, "dispatch", t, n)
        /\ HeldBy(Writes(st), v, "strand", t, n) /\ HeldBy(Dropped(x), v, "dropped", t, n)
    BY <1>5, <2>1, <2>2, <2>3, OthersStay DEF Placed
  <2>5. \A m \in 1..n : v[m] # "direct"
    <3>1. \A m \in 1..n : w[m] = "direct" => m = id
      BY <1>0, <1>1, <1>4 DEF HeldBy
    <3> QED BY <2>1, <2>2, <2>3, <3>1 DEF Moved
  <2>6. HeldBy(h, v, "direct", t, n)
    BY <1>1, <2>5, NoneHeld
  <2>7. \A m \in 1..n : v[m] = "later" <=> m > k
    BY <1>5, <2>1, <2>2, <2>3 DEF Placed, Moved
  <2>8. \A m \in 1..n, p \in 1..Pieces :
          /\ v[m] = "later" => t[<<m, p>>] = 0
          /\ m # id /\ v[m] = "sent" => t[<<m, p>>] = 1
    <3> SUFFICES ASSUME NEW m \in 1..n, NEW p \in 1..Pieces
                 PROVE  /\ v[m] = "later" => t[<<m, p>>] = 0
                        /\ m # id /\ v[m] = "sent" => t[<<m, p>>] = 1
      OBVIOUS
    <3>1. v[id] # "later"
      BY <1>6, <2>2
    <3>2. m # id => v[m] = w[m] /\ t[<<m, p>>] = s[<<m, p>>]
      BY <2>3 DEF Moved
    <3>3. (w[m] = "later" => s[<<m, p>>] = 0) /\ (w[m] = "sent" => s[<<m, p>>] = 1)
      BY DEF Placed
    <3> QED BY <3>1, <3>2, <3>3
  <2> QED BY <2>2, <2>3, <2>4, <2>6, <2>7, <2>8
<1> HIDE DEF After
<1>7. ASSUME ~(c < PiecesLeft(b)) PROVE \E v : Placed(v, n, k, st, q, d, wr2, x, t)
  <2>1. PICK v : v = [w EXCEPT ![id] = "sent"]
    OBVIOUS
  <2>2. c = Pieces + 1 - b.from
    <3>1. b.from \in Nat /\ Pieces \in Nat /\ c <= Pieces + 1 - b.from /\ ~(c < Pieces + 1 - b.from)
      BY <1>5, <1>7 DEF PiecesLeft
    <3> QED BY <3>1
  <2>3. \A p \in 1..Pieces : t[<<id, p>>] = 1
    BY <1>3, <1>4, <1>5, <2>2
  <2>4. /\ Moved(w, v, id, s, t, n) /\ v[id] = "sent"
        /\ HeldBy(h, v, "direct", t, n)
        /\ HeldBy(d, v, "dispatch", t, n)
        /\ HeldBy(Writes(st), v, "strand", t, n) /\ HeldBy(Dropped(x), v, "dropped", t, n)
        /\ \A m \in 1..n : v[m] = "later" <=> m > k
        /\ \A m \in 1..n, p \in 1..Pieces :
             /\ v[m] = "later" => t[<<m, p>>] = 0
             /\ m # id /\ v[m] = "sent" => t[<<m, p>>] = 1
    <3>1. After(v, "sent")
      BY <1>6, <2>1
    <3> QED BY <3>1 DEF After
  <2>5. HeldBy(q, v, "queue", t, n)
    BY <1>5, <2>4, OthersStay DEF Placed
  <2>6. Placed(v, n, k, st, q, d, wr2, x, t)
    BY <2>3, <2>4, <2>5 DEF Placed, Moved, h
  <2> QED BY <2>6
<1>8. ASSUME c < PiecesLeft(b)
      PROVE  /\ Rest(b, c) \in Messages(n)
             /\ \E v : Placed(v, n, k, st, Append(q, Rest(b, c)), d, wr2, x, t)
  <2>1. PICK v : v = [w EXCEPT ![id] = "queue"]
    OBVIOUS
  <2>2. PICK e : e = Rest(b, c)
    OBVIOUS
  <2>3. e \in Messages(n) /\ e.id = id /\ e.from = b.from + c
    <3>1. b \in [id : 1..n, from : 1..Pieces] /\ b.from + c \in 1..Pieces
      BY <1>2, <1>5, <1>8 DEF PiecesLeft, Messages
    <3> QED BY <1>4, <2>2, <3>1 DEF Rest, Messages
  <2>4. Upto(e, t)
    BY <1>3, <1>4, <2>3 DEF Upto
  <2>5. /\ Moved(w, v, id, s, t, n) /\ v[id] = "queue"
        /\ HeldBy(h, v, "direct", t, n)
        /\ HeldBy(d, v, "dispatch", t, n)
        /\ HeldBy(Writes(st), v, "strand", t, n) /\ HeldBy(Dropped(x), v, "dropped", t, n)
        /\ \A m \in 1..n : v[m] = "later" <=> m > k
        /\ \A m \in 1..n, p \in 1..Pieces :
             /\ v[m] = "later" => t[<<m, p>>] = 0
             /\ m # id /\ v[m] = "sent" => t[<<m, p>>] = 1
    <3>1. After(v, "queue")
      BY <1>6, <2>1
    <3> QED BY <3>1 DEF After
  <2> DEFINE u == Append(q, e)
             z == Len(q) + 1
  <2>6. With(q, u, z, e)
    BY <2>3 DEF With
  <2> HIDE DEF u, z
  <2>7. HeldBy(u, v, "queue", t, n)
    <3>1. HeldBy(q, w, "queue", s, n)
      BY DEF Placed
    <3>2. w[e.id] # "queue" /\ v[e.id] = "queue" /\ Moved(w, v, e.id, s, t, n)
      BY <1>5, <2>3, <2>5
    <3> QED BY <2>3, <2>4, <2>6, <3>1, <3>2, OneEnters
  <2>8. \A m \in 1..n, p \in 1..Pieces : v[m] = "sent" => t[<<m, p>>] = 1
    BY <2>5
  <2>9. Placed(v, n, k, st, u, d, wr2, x, t)
    BY <2>5, <2>7, <2>8 DEF Placed, Moved, h
  <2> QED BY <2>2, <2>3, <2>9 DEF u
<1> QED BY <1>7, <1>8 DEF b

\* The history when all of the first `done` buffers of d and a part of the next are
\* written.
CountedIn(s, d, done, part) ==
    [y \in DOMAIN s |-> s[y] + Cardinality({i \in 1..done : Holds(d[i], y)})
                             + (IF part > 0 /\ Among(d[done + 1], part, y) THEN 1 ELSE 0)]

\* From s to t just those pieces came to be written.
Consumed(s, t, d, done, part, n) ==
    /\ Hist(t, n)
    /\ \A i \in DOMAIN d, p \in 1..Pieces :
         /\ i <= done => t[<<d[i].id, p>>] = 1
         /\ i = done + 1 => t[<<d[i].id, p>>] = IF p < d[i].from + part THEN 1 ELSE 0
    /\ \A m \in 1..n, p \in 1..Pieces :
         (\A i \in DOMAIN d : i <= done + 1 => d[i].id # m) => t[<<m, p>>] = s[<<m, p>>]

\* The first `done` buffers are there, and all are of different messages.
AllDiffer(d, done) ==
    /\ \A i \in 1..done : i \in DOMAIN d
    /\ \A i, j \in DOMAIN d : d[i].id = d[j].id => i = j

\* They hold a piece at most once.
LEMMA CountDone ==
    ASSUME NEW d, NEW done, NEW m, NEW p, AllDiffer(d, done)
    PROVE  /\ (\E i \in 1..done : Holds(d[i], <<m, p>>))
                => Cardinality({i \in 1..done : Holds(d[i], <<m, p>>)}) = 1
           /\ ~(\E i \in 1..done : Holds(d[i], <<m, p>>))
                => Cardinality({i \in 1..done : Holds(d[i], <<m, p>>)}) = 0
<1> DEFINE S == {i \in 1..done : Holds(d[i], <<m, p>>)}
<1>1. ASSUME NEW i \in 1..done, Holds(d[i], <<m, p>>) PROVE Cardinality(S) = 1
  <2>1. \A j \in S : j = i
    BY <1>1 DEF Holds, AllDiffer
  <2>2. S = {i}
    BY <1>1, <2>1
  <2> HIDE DEF S
  <2> QED BY <2>2, FS_Singleton
<1>2. ASSUME ~(\E i \in 1..done : Holds(d[i], <<m, p>>)) PROVE Cardinality(S) = 0
  <2>1. S = {}
    BY <1>2
  <2> HIDE DEF S
  <2> QED BY <2>1, FS_EmptySet
<1> QED BY <1>1, <1>2

\* That is what the handler of WriteBuffer's write counts.
LEMMA BufferCounted ==
    ASSUME NEW n \in Nat, NEW w, NEW d \in Seq(Messages(n)), NEW s, NEW t, Hist(s, n),
           HeldBy(d, w, "dispatch", s, n), NEW done \in 0..Len(d), NEW part \in Nat,
           done = Len(d) => part = 0, t = CountedIn(s, d, done, part)
    PROVE  Consumed(s, t, d, done, part, n)
<1> DEFINE C(m, p) == Cardinality({i \in 1..done : Holds(d[i], <<m, p>>)})
           M(m, p) == IF part > 0 /\ Among(d[done + 1], part, <<m, p>>) THEN 1 ELSE 0
<1>1. /\ DOMAIN d = 1..Len(d) /\ Len(d) \in Nat /\ done \in Nat /\ 1..done \subseteq DOMAIN d
      /\ part > 0 => done + 1 \in DOMAIN d
  OBVIOUS
<1>2. \A i \in DOMAIN d : d[i].id \in 1..n /\ d[i].from \in Nat
  <2>1. \A i \in DOMAIN d : d[i] \in Messages(n)
    OBVIOUS
  <2> QED BY <2>1 DEF Messages
<1>3. \A i, j \in DOMAIN d : d[i].id = d[j].id => i = j
  BY DEF HeldBy
<1>4. ASSUME NEW m \in 1..n, NEW p \in 1..Pieces
      PROVE  t[<<m, p>>] = s[<<m, p>>] + C(m, p) + M(m, p) /\ s[<<m, p>>] \in Nat
  <2>1. <<m, p>> \in DOMAIN s /\ s[<<m, p>>] \in Nat
    BY DEF Hist
  <2> QED BY <2>1 DEF CountedIn
<1>5. ASSUME NEW m, NEW p
      PROVE  \/ C(m, p) = 1 /\ \E i \in 1..done : d[i].id = m /\ d[i].from <= p
             \/ C(m, p) = 0 /\ ~\E i \in 1..done : d[i].id = m /\ d[i].from <= p
  <2>1. \A i : Holds(d[i], <<m, p>>) <=> d[i].id = m /\ d[i].from <= p
    BY DEF Holds
  <2>2. /\ (\E i \in 1..done : Holds(d[i], <<m, p>>)) => C(m, p) = 1
        /\ ~(\E i \in 1..done : Holds(d[i], <<m, p>>)) => C(m, p) = 0
    <3>1. AllDiffer(d, done)
      BY <1>1, <1>3 DEF AllDiffer
    <3> QED BY <3>1, CountDone
  <2> HIDE DEF C
  <2> QED BY <2>1, <2>2
<1>6. ASSUME NEW m, NEW p
      PROVE  \/ /\ M(m, p) = 1 /\ part > 0 /\ d[done + 1].id = m
                /\ d[done + 1].from <= p /\ p < d[done + 1].from + part
             \/ /\ M(m, p) = 0
                /\ ~(part > 0 /\ d[done + 1].id = m /\ d[done + 1].from <= p
                      /\ p < d[done + 1].from + part)
  BY DEF Among, Holds
<1>7. t = [y \in DOMAIN s |-> t[y]] /\ DOMAIN s = (1..n) \X (1..Pieces)
  BY DEF CountedIn, Hist
<1>8. ASSUME NEW i \in DOMAIN d, NEW p \in 1..Pieces
      PROVE  s[<<d[i].id, p>>] = IF p < d[i].from THEN 1 ELSE 0
  BY DEF HeldBy, Upto
<1> HIDE DEF C, M
<1>9. ASSUME NEW i \in DOMAIN d, NEW p \in 1..Pieces, i <= done
      PROVE  t[<<d[i].id, p>>] = 1
  <2>1. PICK m \in 1..n : m = d[i].id
    BY <1>2
  <2>2. M(m, p) = 0
    <3>1. part > 0 => d[done + 1].id # m
      BY <1>1, <1>3, <1>9, <2>1
    <3> QED BY <1>6, <3>1
  <2>3. i \in 1..done /\ p \in Nat /\ d[i].from \in Nat
    <3>1. i \in 1..Len(d) /\ Len(d) \in Nat /\ done \in Nat /\ i <= done
      BY <1>1, <1>9
    <3>2. i \in 1..done /\ p \in Nat
      BY <3>1
    <3> QED BY <1>2, <3>2
  <2>4. C(m, p) = IF d[i].from <= p THEN 1 ELSE 0
    <3>1. \A j \in 1..done : d[j].id = m => j = i
      BY <1>1, <1>3, <2>1
    <3> QED BY <1>5, <2>1, <2>3, <3>1
  <2>5. t[<<m, p>>] = s[<<m, p>>] + C(m, p) + M(m, p) /\ s[<<m, p>>] = IF p < d[i].from THEN 1 ELSE 0
    BY <1>4, <1>8, <2>1
  <2> QED BY <2>1, <2>2, <2>3, <2>4, <2>5
<1>10. ASSUME NEW i \in DOMAIN d, NEW p \in 1..Pieces, i = done + 1
       PROVE  t[<<d[i].id, p>>] = IF p < d[i].from + part THEN 1 ELSE 0
  <2>1. PICK m \in 1..n : m = d[i].id
    BY <1>2
  <2>2. C(m, p) = 0
    <3>1. \A j \in 1..done : d[j].id # m
      BY <1>1, <1>3, <1>10, <2>1
    <3> QED BY <1>5, <3>1
  <2>3. p \in Nat /\ d[i].from \in Nat
    BY <1>2
  <2>4. M(m, p) = IF d[i].from <= p /\ p < d[i].from + part THEN 1 ELSE 0
    <3>1. part = 0 => ~(d[i].from <= p /\ p < d[i].from + part)
      BY <2>3
    <3> QED BY <1>6, <1>10, <2>1, <2>3, <3>1
  <2>5. t[<<m, p>>] = s[<<m, p>>] + C(m, p) + M(m, p) /\ s[<<m, p>>] = IF p < d[i].from THEN 1 ELSE 0
    BY <1>4, <1>8, <2>1
  <2> QED BY <2>1, <2>2, <2>3, <2>4, <2>5
<1>11. ASSUME NEW m \in 1..n, NEW p \in 1..Pieces,
              \A i \in DOMAIN d : i <= done + 1 => d[i].id # m
       PROVE  t[<<m, p>>] = s[<<m, p>>]
  <2>1. C(m, p) = 0
    <3>1. \A j \in 1..done : d[j].id # m
      BY <1>1, <1>11
    <3> QED BY <1>5, <3>1
  <2>2. M(m, p) = 0
    <3>1. part > 0 => d[done + 1].id # m
      BY <1>1, <1>11
    <3> QED BY <1>6, <3>1
  <2>3. t[<<m, p>>] = s[<<m, p>>] + C(m, p) + M(m, p) /\ s[<<m, p>>] \in Nat
    BY <1>4
  <2> QED BY <2>1, <2>2, <2>3
<1>12. Hist(t, n)
  <2>1. ASSUME NEW m \in 1..n, NEW p \in 1..Pieces PROVE t[<<m, p>>] \in Nat
    <3>1. C(m, p) \in Nat /\ M(m, p) \in Nat
      BY <1>5, <1>6
    <3> QED BY <1>4, <3>1
  <2>2. \A y \in (1..n) \X (1..Pieces) : t[y] \in Nat
    BY <2>1
  <2> QED BY <1>7, <2>2 DEF Hist
<1> QED BY <1>9, <1>10, <1>11, <1>12 DEF Consumed

\* What is left of dispatch_writebufs: its first buffer is the rest of the one that was
\* being written, the others are those behind it.
LEMMA RemainderHolds ==
    ASSUME NEW n \in Nat, NEW d \in Seq(Messages(n)), NEW done \in 0..Len(d), NEW part \in Nat,
           done < Len(d) => part < PiecesLeft(d[done + 1])
    PROVE  /\ Remainder(d, done, part) \in Seq(Messages(n))
           /\ Len(Remainder(d, done, part)) = Len(d) - done
           /\ DOMAIN Remainder(d, done, part) = 1..(Len(d) - done)
           /\ \A i \in 1..(Len(d) - done) :
                Remainder(d, done, part)[i] = IF i = 1 THEN Rest(d[done + 1], part) ELSE d[done + i]
<1> USE NumbersAssumption
<1>1. CASE done = Len(d)
  BY <1>1 DEF Remainder
<1>2. CASE done # Len(d)
  <2>1. /\ Len(d) \in Nat /\ done \in Nat /\ done + 1 \in 1..Len(d)
    BY <1>2
  <2>2. d[done + 1] \in Messages(n)
    BY <2>1
  <2>3. PICK e : e = Rest(d[done + 1], part)
    OBVIOUS
  <2>4. e \in Messages(n)
    <3>1. PICK b : b = d[done + 1]
      OBVIOUS
    <3>2. b \in [id : 1..n, from : 1..Pieces] /\ part < Pieces + 1 - b.from
      BY <1>2, <2>1, <2>2, <3>1 DEF Messages, PiecesLeft
    <3>3. b.from + part \in 1..Pieces
      BY <3>2
    <3> QED BY <2>3, <3>1, <3>2, <3>3 DEF Rest, Messages
  <2> DEFINE r == SubSeq(d, done + 2, Len(d))
  <2>5. /\ r \in Seq(Messages(n)) /\ Len(r) = Len(d) - done - 1
        /\ \A i \in 1..(Len(d) - done - 1) : r[i] = d[done + 1 + i]
    BY <2>1
  <2>6. Remainder(d, done, part) = <<e>> \o r
    BY <1>2, <2>3 DEF Remainder
  <2> HIDE DEF r
  <2>7. /\ <<e>> \in Seq(Messages(n)) /\ Len(<<e>>) = 1 /\ <<e>>[1] = e
    BY <2>4
  <2>8. PICK o : o = <<e>>
    OBVIOUS
  <2>9. /\ o \o r \in Seq(Messages(n)) /\ Len(o \o r) = Len(o) + Len(r)
        /\ \A i \in 1..Len(o) : (o \o r)[i] = o[i]
        /\ \A j \in 1..Len(r) : (o \o r)[Len(o) + j] = r[j]
    <3>1. PICK B : B = Messages(n)
      OBVIOUS
    <3>2. o \in Seq(B) /\ r \in Seq(B)
      BY <2>5, <2>7, <2>8, <3>1
    <3>3. /\ o \o r \in Seq(B) /\ Len(o \o r) = Len(o) + Len(r)
          /\ \A i \in 1..Len(o) : (o \o r)[i] = o[i]
          /\ \A j \in 1..Len(r) : (o \o r)[Len(o) + j] = r[j]
      BY <3>2, Behind
    <3> QED BY <3>1, <3>3
  <2>10. PICK a : a = o \o r
    OBVIOUS
  <2>11. a \in Seq(Messages(n)) /\ Len(a) = Len(d) - done /\ a[1] = e
    BY <2>1, <2>5, <2>7, <2>8, <2>9, <2>10
  <2>12. ASSUME NEW i \in 1..(Len(d) - done), i # 1 PROVE a[i] = d[done + i]
    <3>1. PICK j : j = i - 1
      OBVIOUS
    <3>2. j \in 1..(Len(d) - done - 1) /\ i = 1 + j /\ done + 1 + j = done + i
      BY <2>1, <2>12, <3>1
    <3>3. a[1 + j] = r[j] /\ r[j] = d[done + 1 + j]
      BY <2>5, <2>7, <2>8, <2>9, <2>10, <3>2
    <3> QED BY <3>2, <3>3
  <2>13. DOMAIN a = 1..(Len(d) - done)
    BY <2>11
  <2> QED BY <2>3, <2>6, <2>8, <2>10, <2>11, <2>12, <2>13
<1> QED BY <1>1, <1>2

\* The handler of WriteBuffer's write: what was written is done with, the rest stays.
LEMMA BufferWritten ==
    ASSUME NEW n \in Nat, NEW k, NEW w, NEW st, NEW q, NEW d \in Seq(Messages(n)),
           NEW wr, NEW x, NEW s, NEW t, NEW done \in 0..Len(d), NEW part \in Nat,
           Placed(w, n, k, st, q, d, wr, x, s), Consumed(s, t, d, done, part, n),
           done < Len(d) => part < PiecesLeft(d[done + 1])
    PROVE  \E v : Placed(v, n, k, st, q, Remainder(d, done, part), wr, x, t)
<1> DEFINE h == Remainder(d, done, part)
<1>1. /\ h \in Seq(Messages(n)) /\ DOMAIN h = 1..(Len(d) - done)
      /\ \A i \in 1..(Len(d) - done) :
           h[i] = IF i = 1 THEN Rest(d[done + 1], part) ELSE d[done + i]
  BY RemainderHolds
<1> HIDE DEF h
<1>2. PICK v : v = [m \in 1..n |-> IF \E i \in 1..done : d[i].id = m THEN "sent" ELSE w[m]]
  OBVIOUS
<1>3. /\ DOMAIN d = 1..Len(d) /\ Len(d) \in Nat /\ done \in Nat /\ done <= Len(d)
      /\ \A i \in DOMAIN d : d[i] \in Messages(n)
  OBVIOUS
<1>4. /\ \A i \in DOMAIN d : d[i].id \in 1..n /\ d[i].from \in 1..Pieces
                             /\ w[d[i].id] = "dispatch" /\ Upto(d[i], s)
      /\ \A i, j \in DOMAIN d : d[i].id = d[j].id => i = j
  BY <1>3 DEF Placed, HeldBy, Messages
<1>5. /\ w \in [1..n -> Places] /\ v \in [1..n -> Places]
      /\ \A m \in 1..n : w[m] # "dispatch" => v[m] = w[m]
      /\ \A m \in 1..n : v[m] # w[m] => v[m] = "sent" /\ \E i \in 1..done : d[i].id = m
      /\ \A i \in 1..done : v[d[i].id] = "sent"
      /\ \A i \in DOMAIN d : ~(i <= done) => v[d[i].id] = "dispatch"
  <2>1. w \in [1..n -> Places]
    BY DEF Placed
  <2>2. v \in [1..n -> Places]
    BY <1>2, <2>1 DEF Places
  <2>3. \A i \in 1..done : i \in DOMAIN d
    BY <1>3
  <2>4. \A m \in 1..n : w[m] # "dispatch" => v[m] = w[m]
    BY <1>2, <1>4, <2>3
  <2>5. \A m \in 1..n : v[m] # w[m] => v[m] = "sent" /\ \E i \in 1..done : d[i].id = m
    BY <1>2
  <2>6. \A i \in 1..done : v[d[i].id] = "sent"
    BY <1>2, <1>4, <2>3
  <2>7. ASSUME NEW i \in DOMAIN d, ~(i <= done) PROVE v[d[i].id] = "dispatch"
    <3>1. ~\E j \in 1..done : d[j].id = d[i].id
      BY <1>3, <1>4, <2>3, <2>7
    <3> QED BY <1>2, <1>4, <3>1
  <2> QED BY <2>1, <2>2, <2>4, <2>5, <2>6, <2>7
<1>6. ASSUME NEW m \in 1..n, NEW p \in 1..Pieces, w[m] # "dispatch"
      PROVE  t[<<m, p>>] = s[<<m, p>>]
  <2>1. \A i \in DOMAIN d : d[i].id # m
    BY <1>4, <1>6
  <2> QED BY <2>1 DEF Consumed
<1>7. ASSUME NEW f, NEW pl, HeldBy(f, w, pl, s, n), pl \notin {"dispatch", "sent"}
      PROVE  HeldBy(f, v, pl, t, n)
  <2>1. \A m \in 1..n : v[m] = pl <=> w[m] = pl
    BY <1>5, <1>7
  <2>2. \A m \in 1..n, p \in 1..Pieces : w[m] = pl => t[<<m, p>>] = s[<<m, p>>]
    BY <1>6, <1>7
  <2> QED BY <1>7, <2>1, <2>2, SameHeld
<1>8. HeldBy(h, v, "dispatch", t, n)
  <2>1. PICK g : g = [i \in DOMAIN h |-> done + i]
    OBVIOUS
  <2>2. ASSUME NEW i \in DOMAIN h
        PROVE  g[i] = done + i /\ done + i \in DOMAIN d /\ ~(done + i <= done) /\ i \in Nat
    BY <1>1, <1>3, <2>1
  <2>3. ASSUME NEW i \in DOMAIN h
        PROVE  /\ g[i] \in DOMAIN d /\ h[i].id = d[g[i]].id
               /\ h[i] \in Messages(n) /\ Upto(h[i], t)
    <3>1. h[i] \in Messages(n)
      BY <1>1
    <3>2. CASE i = 1
      <4>1. h[i] = Rest(d[done + 1], part) /\ done + 1 \in DOMAIN d /\ g[i] = done + 1
        BY <1>1, <2>2, <3>2
      <4>2. PICK b : b = d[done + 1]
        OBVIOUS
      <4>3. b \in [id : 1..n, from : 1..Pieces] /\ h[i] = [b EXCEPT !.from = @ + part]
        BY <1>3, <4>1, <4>2 DEF Rest, Messages
      <4>4. h[i].id = b.id /\ h[i].from = b.from + part
        BY <4>3
      <4>5. \A p \in 1..Pieces : t[<<b.id, p>>] = IF p < b.from + part THEN 1 ELSE 0
        BY <4>1, <4>2 DEF Consumed
      <4>6. Upto(h[i], t)
        BY <4>4, <4>5 DEF Upto
      <4> QED BY <3>1, <4>1, <4>2, <4>4, <4>6
    <3>3. CASE i # 1
      <4>1. h[i] = d[done + i] /\ done + i \in DOMAIN d /\ g[i] = done + i
        BY <1>1, <2>2, <3>3
      <4>2. PICK m \in 1..n : m = d[done + i].id
        BY <1>4, <4>1
      <4>3. \A j \in DOMAIN d : j <= done + 1 => d[j].id # m
        <5>1. ~(done + i <= done + 1)
          BY <1>1, <1>3, <3>3
        <5> QED BY <1>4, <4>1, <4>2, <5>1
      <4>4. \A p \in 1..Pieces : t[<<m, p>>] = s[<<m, p>>]
        BY <4>3 DEF Consumed
      <4>5. Upto(h[i], s)
        BY <1>4, <4>1
      <4>6. Upto(h[i], t)
        BY <4>1, <4>2, <4>4, <4>5 DEF Upto
      <4> QED BY <3>1, <4>1, <4>6
    <3> QED BY <3>2, <3>3
  <2>4. \A i, j \in DOMAIN h : g[i] = g[j] => i = j
    BY <1>3, <2>2
  <2>5. ASSUME NEW j \in DOMAIN d
        PROVE  v[d[j].id] = "dispatch" <=> \E i \in DOMAIN h : g[i] = j
    <3>1. CASE j <= done
      <4>1. j \in 1..done
        BY <1>3, <3>1
      <4>2. v[d[j].id] # "dispatch"
        BY <1>5, <4>1
      <4> QED BY <2>2, <3>1, <4>2
    <3>2. CASE ~(j <= done)
      <4>1. j - done \in DOMAIN h /\ done + (j - done) = j
        BY <1>1, <1>3, <3>2
      <4>2. g[j - done] = j
        BY <2>2, <4>1
      <4> QED BY <1>5, <3>2, <4>1, <4>2
    <3> QED BY <3>1, <3>2
  <2>6. Carried(d, h, g, v, "dispatch", t, n)
    BY <2>3, <2>4, <2>5 DEF Carried
  <2>7. \A m \in 1..n : v[m] = "dispatch" => w[m] = "dispatch"
    BY <1>5
  <2>8. HeldBy(d, w, "dispatch", s, n)
    BY DEF Placed
  <2> QED BY <2>6, <2>7, <2>8, KeptHeld
<1>9. /\ HeldBy(Writes(st), v, "strand", t, n) /\ HeldBy(q, v, "queue", t, n)
      /\ HeldBy(Direct(wr), v, "direct", t, n) /\ HeldBy(Dropped(x), v, "dropped", t, n)
  BY <1>7 DEF Placed
<1>10. \A m \in 1..n : v[m] = "later" <=> m > k
  <2>1. \A m \in 1..n : v[m] = "later" <=> w[m] = "later"
    <3>1. \A m \in 1..n : v[m] # w[m] => w[m] = "dispatch" /\ v[m] = "sent"
      BY <1>5
    <3> QED BY <3>1
  <2> QED BY <2>1 DEF Placed
<1>11. ASSUME NEW m \in 1..n, NEW p \in 1..Pieces
       PROVE  /\ v[m] = "later" => t[<<m, p>>] = 0
              /\ v[m] = "sent" => t[<<m, p>>] = 1
  <2>1. CASE v[m] # w[m]
    <3>1. PICK i \in 1..done : d[i].id = m
      BY <1>5, <2>1
    <3>2. i \in DOMAIN d /\ i <= done
      BY <1>3
    <3>3. t[<<m, p>>] = 1
      BY <3>1, <3>2 DEF Consumed
    <3> QED BY <1>5, <2>1, <3>3
  <2>2. CASE v[m] = w[m]
    <3>1. (w[m] = "later" => s[<<m, p>>] = 0) /\ (w[m] = "sent" => s[<<m, p>>] = 1)
      BY DEF Placed
    <3> QED BY <1>6, <2>2, <3>1
  <2> QED BY <2>1, <2>2
<1>12. Placed(v, n, k, st, q, h, wr, x, t)
  BY <1>5, <1>8, <1>9, <1>10, <1>11 DEF Placed
<1> QED BY <1>12 DEF h

\* WriteBuffer swaps the buffers when dispatch_writebufs is empty.
LEMMA BuffersSwapped ==
    ASSUME NEW n \in Nat, NEW k, NEW w, NEW st, NEW q, NEW wr, NEW x, NEW s,
           Placed(w, n, k, st, q, <<>>, wr, x, s)
    PROVE  \E v : Placed(v, n, k, st, <<>>, q, wr, x, s)
<1>1. PICK v : v = [m \in 1..n |-> IF w[m] = "queue" THEN "dispatch" ELSE w[m]]
  OBVIOUS
<1>2. PICK o : o = <<>> /\ DOMAIN o = {}
  OBVIOUS
<1>3. w \in [1..n -> Places] /\ v \in [1..n -> Places]
  BY <1>1 DEF Placed, Places
<1>4. \A m \in 1..n : w[m] # "dispatch"
  <2>1. HeldBy(o, w, "dispatch", s, n)
    BY <1>2 DEF Placed
  <2> QED BY <1>2, <2>1, NoneHeld
<1>5. \A m \in 1..n : v[m] # "queue" /\ (v[m] = "dispatch" <=> w[m] = "queue")
  BY <1>1, <1>4
<1>6. HeldBy(o, v, "queue", s, n)
  BY <1>2, <1>5, NoneHeld
<1>7. HeldBy(q, v, "dispatch", s, n)
  <2>1. HeldBy(q, w, "queue", s, n)
    BY DEF Placed
  <2>2. \A i \in DOMAIN q : q[i].id \in 1..n
    BY <2>1 DEF HeldBy, Messages
  <2> QED BY <1>5, <2>1, <2>2 DEF HeldBy
<1>8. ASSUME NEW f, NEW pl, HeldBy(f, w, pl, s, n), pl \notin {"dispatch", "queue"}
      PROVE  HeldBy(f, v, pl, s, n)
  <2>1. \A m \in 1..n : v[m] = pl <=> w[m] = pl
    BY <1>1, <1>8
  <2>2. \A m \in 1..n, p \in 1..Pieces : w[m] = pl => s[<<m, p>>] = s[<<m, p>>]
    OBVIOUS
  <2> QED BY <1>8, <2>1, <2>2, SameHeld
<1>9. /\ HeldBy(Writes(st), v, "strand", s, n)
      /\ HeldBy(Direct(wr), v, "direct", s, n) /\ HeldBy(Dropped(x), v, "dropped", s, n)
  BY <1>8 DEF Placed
<1>10. \A m \in 1..n : v[m] = "later" <=> m > k
  <2>1. \A m \in 1..n : v[m] = "later" <=> w[m] = "later"
    BY <1>1
  <2> QED BY <2>1 DEF Placed
<1>11. \A m \in 1..n, p \in 1..Pieces : /\ v[m] = "later" => s[<<m, p>>] = 0
                                        /\ v[m] = "sent" => s[<<m, p>>] = 1
  BY <1>1 DEF Placed
<1>12. Placed(v, n, k, st, o, q, wr, x, s)
  BY <1>3, <1>6, <1>7, <1>9, <1>10, <1>11 DEF Placed
<1> QED BY <1>2, <1>12

-----------------------------------------------------------------------------
(* Every step leaves each message in one place *)

\* The types of what has nothing to do with messages.
RestTyped ==
    /\ use \in Uses /\ calls \in 0..Len(use.calls) /\ made \in 0..use.writes
    /\ {manuallyClosed, isConnected, pending_read, pending_write, resolved, halfOpen} \subseteq BOOLEAN
    /\ pSock \in Sockets \cup {NoSocket}
    /\ UNION {CandidatepSocks, connecting, reads, sendShut} \subseteq Sockets
    /\ resolving \in 0..MaxResolving
    /\ timers \subseteq {"retry", "established"}
    /\ ramp_time_ms \in 0..(RampMod - 1)
    /\ writing.sock \in Sockets \cup {NoSocket}

\* pending_write tells of the write.
WriteKnown == /\ writing.kind \in {"none", "direct", "buffer"}
              /\ pending_write <=> writing.kind # "none"
              /\ pending_write => writing.sock \in Sockets
              /\ isConnected => pSock \in Sockets

\* The types of the queues and of what was posted.
StrandTyped ==
    /\ strand \in Seq(Tasks)
    /\ \A i \in DOMAIN strand :
         strand[i].task \in {"Open", "Close", "AutoOpen", "AutoClose"} \/ strand[i].buf \in Messages(use.writes)
QueuesTyped ==
    /\ queue_writebufs \in Seq(Messages(use.writes)) /\ Len(queue_writebufs) <= use.buffer_limit
    /\ dispatch_writebufs \in Seq(Messages(use.writes)) /\ Len(dispatch_writebufs) <= use.buffer_limit
    /\ Hist(sent, use.writes)
    /\ dropped \subseteq Messages(use.writes)

AllPlaced == \E w : Placed(w, use.writes, made, strand, queue_writebufs, dispatch_writebufs,
                           writing, dropped, sent)

PInv == RestTyped /\ WriteKnown /\ StrandTyped /\ QueuesTyped /\ AllPlaced

\* A step that takes no message from the strand and puts none there.
QuietStrand ==
    \E ts \in Seq(Tasks) :
        /\ \A i \in DOMAIN ts : ts[i].task \in {"Open", "Close", "AutoOpen", "AutoClose"}
        /\ \/ strand' = strand \o ts
           \/ strand # <<>> /\ Head(strand).task # "Write" /\ strand' = Tail(strand) \o ts

\* Sequences of at most one such task, and what ReadFails posts.
LEMMA QuietTasks ==
    ASSUME NEW t \in {"Open", "Close", "AutoOpen", "AutoClose"},
           NEW ts, ts \in {<<>>, <<Task(t)>>} \/ ts = AfterRead
    PROVE  /\ ts \in Seq(Tasks)
           /\ \A i \in DOMAIN ts : ts[i].task \in {"Open", "Close", "AutoOpen", "AutoClose"}
<1>0. [task |-> t, buf |-> <<>>] \in Tasks
  BY DEF Tasks
<1>1. CASE ts = <<>>
  BY <1>1
<1>2. CASE ts = <<Task(t)>>
  BY <1>0, <1>2 DEF Task
<1>3. CASE ts = AfterRead
  <2>1. ts = <<[task |-> "AutoClose", buf |-> <<>>], [task |-> "AutoOpen", buf |-> <<>>]>>
    BY <1>3 DEF AfterRead, Task
  <2>2. /\ [task |-> "AutoClose", buf |-> <<>>] \in Tasks
        /\ [task |-> "AutoOpen", buf |-> <<>>] \in Tasks
    BY DEF Tasks
  <2>3. ts \in Seq(Tasks) /\ DOMAIN ts = {1, 2} /\ ts[1].task = "AutoClose" /\ ts[2].task = "AutoOpen"
    BY <2>1, <2>2
  <2> QED BY <2>3
<1> QED BY <1>1, <1>2, <1>3

\* Only Write and the handler of its task concern messages on the strand.
LEMMA QuietSteps ==
    ASSUME PInv, [Next]_vars, ~UserWrite, ~RunWrite
    PROVE  QuietStrand
<1> USE DEF PInv
<1>0. strand \in Seq(Tasks) /\ strand \o <<>> = strand
  BY DEF StrandTyped
<1>1. ASSUME UNCHANGED strand PROVE QuietStrand
  BY <1>0, <1>1, QuietTasks DEF QuietStrand
<1>2. ASSUME NEW t \in {"Open", "Close", "AutoOpen", "AutoClose"},
             NEW ts, ts \in {<<>>, <<Task(t)>>} \/ ts = AfterRead,
             \/ strand' = strand \o ts
             \/ strand # <<>> /\ Head(strand).task # "Write" /\ strand' = Tail(strand) \o ts
      PROVE  QuietStrand
  BY <1>2, QuietTasks DEF QuietStrand
<1>3. CASE UserCall
  <2>1. use.calls[calls + 1] \in {"Open", "Close"}
    <3>1. use.calls \in Seq({"Open", "Close"}) /\ calls + 1 \in 1..Len(use.calls)
      BY <1>3, UsesAssumption DEF UserCall, RestTyped
    <3> QED BY <3>1
  <2>2. strand' = strand \o <<Task(use.calls[calls + 1])>>
    BY <1>3 DEF UserCall, Post
  <2> QED BY <1>2, <2>1, <2>2
<1>4. CASE RunOpen \/ RunAutoOpen
  <2>1. strand # <<>> /\ Head(strand).task # "Write"
        /\ \E ts \in Posts : strand' = Tail(strand) \o ts
    BY <1>4 DEF RunOpen, RunAutoOpen, Take, TakeAndPost, Posts
  <2> QED BY <1>2, <2>1 DEF Posts
<1>5. CASE RetryHandler
  <2>1. \E ts \in Posts : strand' = strand \o ts
    BY <1>0, <1>5 DEF RetryHandler, Post, Posts
  <2> QED BY <1>2, <2>1 DEF Posts
<1>6. CASE RunClose
  <2>1. /\ strand # <<>> /\ Head(strand).task # "Write"
        /\ strand' = Tail(strand) \o <<Task("AutoClose")>>
    BY <1>6 DEF RunClose, Take, TakeAndPost
  <2> QED BY <1>2, <2>1
<1>7. CASE RunAutoClose
  <2>1. strand # <<>> /\ Head(strand).task # "Write" /\ strand' = Tail(strand) \o <<>>
    BY <1>7 DEF RunAutoClose, Take, TakeAndPost
  <2> QED BY <1>2, <2>1
<1>8. CASE \E ok \in BOOLEAN : ResolveHandler(ok)
  <2>1. UNCHANGED strand \/ strand' = strand \o <<Task("AutoOpen")>>
    BY <1>8 DEF ResolveHandler, Post
  <2> QED BY <1>1, <1>2, <2>1
<1>9. CASE \E s \in Sockets : Connects(s) \/ ConnectFails(s) \/ ReadFails(s)
  <2>1. \/ UNCHANGED strand \/ strand' = strand \o <<Task("AutoOpen")>> \/ strand' = strand \o AfterRead
        \/ strand' = strand \o <<Task("AutoClose")>>
    BY <1>0, <1>9 DEF Connects, ConnectFails, ReadFails, Post
  <2> QED BY <1>1, <1>2, <2>1
<1>10. CASE WriteHandler
  <2>1. UNCHANGED strand \/ strand' = strand \o <<Task("AutoOpen")>>
    BY <1>10 DEF WriteHandler, DirectWriteHandler, BufferWriteHandler, CheckLastWrite, Post
  <2> QED BY <1>1, <1>2, <2>1
<1>11. CASE EstablishedHandler \/ UNCHANGED vars
  BY <1>1, <1>11 DEF EstablishedHandler, vars
<1> QED BY <1>3, <1>4, <1>5, <1>6, <1>7, <1>8, <1>9, <1>10, <1>11 DEF Next

\* The strand is typed after such a step, and its messages are the same.
LEMMA QuietKeeps ==
    ASSUME PInv, QuietStrand, use' = use
    PROVE  /\ StrandTyped'
           /\ \A n, w, s : HeldBy(Writes(strand), w, "strand", s, n) => HeldBy(Writes(strand'), w, "strand", s, n)
<1> USE DEF PInv
<1>0. strand \in Seq(Tasks)
  BY DEF StrandTyped
<1>1. PICK ts \in Seq(Tasks) :
        /\ \A i \in DOMAIN ts : ts[i].task \in {"Open", "Close", "AutoOpen", "AutoClose"}
        /\ \/ strand' = strand \o ts
           \/ strand # <<>> /\ Head(strand).task # "Write" /\ strand' = Tail(strand) \o ts
  BY DEF QuietStrand
<1>2. strand' \in Seq(Tasks) /\ \A i \in DOMAIN strand' :
        (\E j \in DOMAIN strand : strand'[i] = strand[j]) \/ (\E j \in DOMAIN ts : strand'[i] = ts[j])
  <2>1. ASSUME NEW r \in Seq(Tasks), strand' = r \o ts, \A i \in DOMAIN r : \E j \in DOMAIN strand : r[i] = strand[j]
        PROVE  strand' \in Seq(Tasks) /\ \A i \in DOMAIN strand' :
                 (\E j \in DOMAIN strand : strand'[i] = strand[j]) \/ (\E j \in DOMAIN ts : strand'[i] = ts[j])
    <3>1. /\ strand' \in Seq(Tasks) /\ Len(strand') = Len(r) + Len(ts)
          /\ \A i \in 1..Len(r) : strand'[i] = r[i]
          /\ \A j \in 1..Len(ts) : strand'[Len(r) + j] = ts[j]
      BY <2>1, Behind
    <3>2. ASSUME NEW i \in DOMAIN strand', ~(i \in DOMAIN r) PROVE \E j \in DOMAIN ts : strand'[i] = ts[j]
      <4>1. PICK j : j = i - Len(r)
        OBVIOUS
      <4>2. i \in 1..(Len(r) + Len(ts)) /\ ~(i \in 1..Len(r)) /\ Len(r) \in Nat /\ Len(ts) \in Nat
        BY <3>1, <3>2
      <4>3. j \in 1..Len(ts) /\ i = Len(r) + j
        BY <4>1, <4>2
      <4>4. strand'[Len(r) + j] = ts[j]
        BY <3>1, <4>3
      <4> QED BY <4>3, <4>4
    <3> QED BY <2>1, <3>1, <3>2
  <2>2. CASE strand' = strand \o ts
    BY <1>0, <2>1, <2>2
  <2>3. CASE strand # <<>> /\ strand' = Tail(strand) \o ts
    <3>1. PICK r : r = Tail(strand)
      OBVIOUS
    <3>2. /\ r \in Seq(Tasks) /\ Len(r) = Len(strand) - 1 /\ DOMAIN r = 1..Len(r)
          /\ DOMAIN strand = 1..Len(strand) /\ Len(strand) \in Nat
          /\ \A i \in 1..(Len(strand) - 1) : r[i] = strand[i + 1]
      BY <1>0, <2>3, <3>1
    <3>3. \A i \in DOMAIN r : i + 1 \in DOMAIN strand /\ r[i] = strand[i + 1]
      BY <3>2
    <3> QED BY <2>1, <2>3, <3>1, <3>2, <3>3
  <2> QED BY <1>1, <2>2, <2>3
<1>3. StrandTyped'
  BY <1>1, <1>2 DEF StrandTyped
<1>4. PICK st2 : st2 = strand'
  OBVIOUS
<1>5. ASSUME NEW n, NEW w, NEW s, HeldBy(Writes(strand), w, "strand", s, n)
      PROVE  HeldBy(Writes(st2), w, "strand", s, n)
  <2>1. st2 \in Seq(Tasks)
    BY <1>2, <1>4
  <2>2. \A i \in DOMAIN ts : ts[i].task # "Write"
    BY <1>1
  <2>3. \/ st2 = strand \o ts
        \/ strand # <<>> /\ Head(strand).task # "Write" /\ st2 = Tail(strand) \o ts
    BY <1>1, <1>4
  <2> QED BY <1>0, <1>5, <2>1, <2>2, <2>3, StrandKept
<1> QED BY <1>3, <1>4, <1>5

\* WriteBuffer writes the one of q and d that goes first.
LEMMA WriteBufferStarts ==
    ASSUME NEW s, NEW q, NEW d, WriteBuffer(s, q, d)
    PROVE  /\ pending_write' \in BOOLEAN
           /\ writing'.kind \in {"none", "buffer"} /\ (pending_write' <=> writing'.kind # "none")
           /\ writing'.sock \in {s, NoSocket} /\ (pending_write' => writing'.sock = s)
           /\ \/ d # <<>> /\ dispatch_writebufs' = d /\ queue_writebufs' = q
              \/ d = <<>> /\ dispatch_writebufs' = q /\ queue_writebufs' = <<>>
  BY DEF WriteBuffer, NoWrite

\* Open leaves its variables typed.
LEMMA OpenTyped ==
    ASSUME RestTyped, NEW result, NEW ts, Open(result, ts)
    PROVE  /\ manuallyClosed' \in BOOLEAN /\ resolved' \in BOOLEAN
           /\ UNCHANGED <<isConnected, pending_read, pSock, reads, sendShut>>
           /\ CandidatepSocks' \subseteq Sockets /\ connecting' \subseteq Sockets
           /\ resolving' \in 0..MaxResolving
<1> USE NumbersAssumption
<1>1. /\ CandidatepSocks \subseteq Sockets /\ connecting \subseteq Sockets
      /\ resolving \in 0..MaxResolving /\ MaxResolving \in Nat /\ resolved \in BOOLEAN
  BY DEF RestTyped
<1>2. manuallyClosed' \in BOOLEAN /\ UNCHANGED <<isConnected, pending_read, pSock, reads, sendShut>>
  BY DEF Open
<1>3. CASE OpenRefused(result, ts)
  BY <1>1, <1>2, <1>3 DEF OpenRefused
<1>4. CASE OpenResolves(result, ts)
  BY <1>1, <1>2, <1>4 DEF OpenResolves
<1>5. CASE OpenTries(result, ts)
  BY <1>1, <1>2, <1>5 DEF OpenTries
<1> QED BY <1>3, <1>4, <1>5 DEF Open

\* Everything but messages keeps its type.
LEMMA TypesStep ==
    ASSUME PInv, [Next]_vars
    PROVE  RestTyped' /\ WriteKnown'
<1> USE NumbersAssumption, SocketsAssumption
<1>0. /\ use \in Uses /\ calls \in 0..Len(use.calls) /\ made \in 0..use.writes
      /\ use.writes \in Nat /\ use.calls \in Seq({"Open", "Close"}) /\ calls \in Nat /\ made \in Nat
      /\ manuallyClosed \in BOOLEAN /\ isConnected \in BOOLEAN /\ pending_read \in BOOLEAN
      /\ pending_write \in BOOLEAN /\ resolved \in BOOLEAN /\ halfOpen \in BOOLEAN
      /\ pSock \in Sockets \cup {NoSocket}
      /\ CandidatepSocks \subseteq Sockets /\ connecting \subseteq Sockets
      /\ reads \subseteq Sockets /\ sendShut \subseteq Sockets
      /\ resolving \in 0..MaxResolving /\ timers \subseteq {"retry", "established"}
      /\ ramp_time_ms \in 0..(RampMod - 1) /\ writing.sock \in Sockets \cup {NoSocket}
  BY UsesAssumption DEF PInv, RestTyped
<1> DEFINE Mem ==
             /\ use \in Uses /\ calls \in 0..Len(use.calls) /\ made \in 0..use.writes
             /\ manuallyClosed \in BOOLEAN /\ isConnected \in BOOLEAN /\ pending_read \in BOOLEAN
             /\ pending_write \in BOOLEAN /\ resolved \in BOOLEAN /\ halfOpen \in BOOLEAN
             /\ pSock \in Sockets \cup {NoSocket}
             /\ CandidatepSocks \subseteq Sockets /\ connecting \subseteq Sockets
             /\ reads \subseteq Sockets /\ sendShut \subseteq Sockets
             /\ resolving \in 0..MaxResolving /\ timers \subseteq {"retry", "established"}
             /\ ramp_time_ms \in 0..(RampMod - 1) /\ writing.sock \in Sockets \cup {NoSocket}
<1>1. Mem' => RestTyped'
  BY DEF RestTyped
<1>2. WriteKnown
  BY DEF PInv
<1>3. CASE UserCall \/ UserWrite
  <2>1. UNCHANGED <<use, connection, opening, writes>>
    BY <1>3 DEF UserCall, UserWrite
  <2>2. calls' \in 0..Len(use.calls) /\ made' \in 0..use.writes
    <3>1. \/ calls < Len(use.calls) /\ calls' = calls + 1 /\ made' = made
          \/ made < use.writes /\ made' = made + 1 /\ calls' = calls
      BY <1>3 DEF UserCall, UserWrite
    <3>2. Len(use.calls) \in Nat
      BY <1>0
    <3>3. \A a, b \in Nat : a < b => a + 1 \in 0..b
      OBVIOUS
    <3>4. CASE calls < Len(use.calls) /\ calls' = calls + 1 /\ made' = made
      BY <1>0, <3>2, <3>3, <3>4
    <3>5. CASE made < use.writes /\ made' = made + 1 /\ calls' = calls
      BY <1>0, <3>2, <3>3, <3>5
    <3> QED BY <3>1, <3>4, <3>5
  <2>3. Mem'
    BY <1>0, <2>1, <2>2 DEF connection, opening, writes
  <2> QED BY <1>1, <1>2, <2>1, <2>3 DEF WriteKnown, connection, writes
<1>4. CASE RunOpen \/ RunAutoOpen \/ RetryHandler
  <2>1. UNCHANGED <<use, calls, made, writes>>
    BY <1>4 DEF RunOpen, RunAutoOpen, RetryHandler
  <2>2. timers' \subseteq {"retry", "established"}
    BY <1>0, <1>4 DEF RunOpen, RunAutoOpen, RetryHandler, SetTimer, opening
  <2>3. \/ UNCHANGED <<connection, resolved, resolving>>
        \/ \E result, ts : Open(result, ts)
    BY <1>4 DEF RunOpen, RunAutoOpen, RetryHandler, opening
  <2>4. /\ manuallyClosed' \in BOOLEAN /\ resolved' \in BOOLEAN
        /\ UNCHANGED <<isConnected, pending_read, pSock, reads, sendShut>>
        /\ CandidatepSocks' \subseteq Sockets /\ connecting' \subseteq Sockets
        /\ resolving' \in 0..MaxResolving
    <3>1. CASE UNCHANGED <<connection, resolved, resolving>>
      BY <1>0, <3>1 DEF connection
    <3>2. CASE \E result, ts : Open(result, ts)
      BY <3>2, OpenTyped DEF PInv
    <3> QED BY <2>3, <3>1, <3>2
  <2>5. ramp_time_ms' \in 0..(RampMod - 1)
    <3>1. /\ min_retry_time % RampMod \in 0..(RampMod - 1) /\ max_retry_time % RampMod \in 0..(RampMod - 1)
          /\ (ramp_time_ms * 2) % RampMod \in 0..(RampMod - 1)
      <4>1. \A a \in Nat, b \in Nat \ {0} : a % b \in 0..(b - 1)
        OBVIOUS
      <4>2. min_retry_time \in Nat /\ max_retry_time \in Nat /\ RampMod \in Nat \ {0} /\ ramp_time_ms * 2 \in Nat
        BY <1>0
      <4> QED BY <4>1, <4>2
    <3>2. RampNow \in 0..(RampMod - 1)
      BY <1>0, <3>1 DEF RampNow
    <3>3. Doubled(ramp_time_ms) \in 0..(RampMod - 1)
      BY <3>1 DEF Doubled
    <3>4. ramp_time_ms' \in {ramp_time_ms, min_retry_time % RampMod, RampNow, Doubled(ramp_time_ms)}
      BY <1>4 DEF RunOpen, RunAutoOpen, RetryHandler, opening
    <3> QED BY <1>0, <3>1, <3>2, <3>3, <3>4
  <2>6. Mem'
    BY <1>0, <2>1, <2>2, <2>4, <2>5 DEF writes
  <2> QED BY <1>1, <1>2, <2>1, <2>4, <2>6 DEF WriteKnown, writes
<1>5. CASE RunClose \/ RunAutoClose
  <2>1. UNCHANGED <<use, calls, made, writes, pSock, connecting, reads, pending_read, resolved, resolving>>
    BY <1>5 DEF RunClose, RunAutoClose, opening
  <2>2. /\ manuallyClosed' \in BOOLEAN /\ isConnected' \in BOOLEAN /\ (isConnected' => isConnected)
        /\ timers' \subseteq {"retry", "established"} /\ CandidatepSocks' \subseteq Sockets
        /\ ramp_time_ms' \in 0..(RampMod - 1)
    <3>1. /\ manuallyClosed' \in {manuallyClosed, TRUE} /\ isConnected' \in {isConnected, FALSE}
          /\ timers' \in {{}, timers} /\ CandidatepSocks' \in {{}, CandidatepSocks}
          /\ ramp_time_ms' \in {0, ramp_time_ms}
      BY <1>5 DEF RunClose, RunAutoClose, opening
    <3>2. 0 \in 0..(RampMod - 1)
      OBVIOUS
    <3>3. /\ timers' \subseteq {"retry", "established"} /\ CandidatepSocks' \subseteq Sockets
          /\ ramp_time_ms' \in 0..(RampMod - 1)
      BY <1>0, <3>1, <3>2
    <3>4. manuallyClosed' \in BOOLEAN /\ isConnected' \in BOOLEAN /\ (isConnected' => isConnected)
      <4>1. CASE RunClose
        BY <1>0, <4>1 DEF RunClose
      <4>2. CASE RunAutoClose
        BY <1>0, <4>2 DEF RunAutoClose
      <4> QED BY <1>5, <4>1, <4>2
    <3> QED BY <3>3, <3>4
  <2>3. sendShut' \subseteq Sockets
    BY <1>0, <1>2, <1>5 DEF RunClose, RunAutoClose, ShutsNow, WriteKnown
  <2>4. Mem'
    BY <1>0, <2>1, <2>2, <2>3 DEF writes
  <2> QED BY <1>1, <1>2, <2>1, <2>2, <2>4 DEF WriteKnown, writes
<1>6. CASE RunWrite
  <2>1. UNCHANGED <<use, calls, made, connection, opening, halfOpen>>
    BY <1>6 DEF RunWrite
  <2>2. \/ UNCHANGED <<pending_write, writing>>
        \/ /\ isConnected /\ pending_write' = TRUE
           /\ writing'.kind = "direct" /\ writing'.sock = pSock
    BY <1>6 DEF RunWrite
  <2>3. Mem'
    BY <1>0, <2>1, <2>2 DEF connection, opening
  <2> QED BY <1>1, <1>2, <2>1, <2>2, <2>3 DEF WriteKnown, connection
<1>7. CASE EstablishedHandler \/ \E ok \in BOOLEAN : ResolveHandler(ok)
  <2>1. UNCHANGED <<use, calls, made, connection, writes>>
    BY <1>7 DEF EstablishedHandler, ResolveHandler
  <2>2. /\ timers' \subseteq {"retry", "established"} /\ resolved' \in BOOLEAN
        /\ ramp_time_ms' \in 0..(RampMod - 1) /\ resolving' \in 0..MaxResolving
    <3>1. /\ timers' \in {timers, timers \ {"established"}} /\ resolved' \in {TRUE, FALSE, resolved}
          /\ ramp_time_ms' \in {0, ramp_time_ms}
          /\ resolving' = resolving \/ (resolving > 0 /\ resolving' = resolving - 1)
      BY <1>7 DEF EstablishedHandler, ResolveHandler
    <3>2. 0 \in 0..(RampMod - 1) /\ MaxResolving \in Nat
      OBVIOUS
    <3>3. ramp_time_ms' \in 0..(RampMod - 1)
      BY <1>0, <3>1, <3>2
    <3>4. resolving' \in 0..MaxResolving
      BY <1>0, <3>1, <3>2
    <3>5. timers' \subseteq {"retry", "established"} /\ resolved' \in BOOLEAN
      BY <1>0, <3>1
    <3> QED BY <3>3, <3>4, <3>5
  <2>3. Mem'
    BY <1>0, <2>1, <2>2 DEF connection, writes
  <2> QED BY <1>1, <1>2, <2>1, <2>3 DEF WriteKnown, connection, writes
<1>8. CASE \E s \in Sockets : ConnectFails(s) \/ ReadFails(s)
  <2>1. UNCHANGED <<use, calls, made, manuallyClosed, isConnected, pSock, sendShut, opening, writes>>
    BY <1>8 DEF ConnectFails, ReadFails
  <2>2. /\ pending_read' \in BOOLEAN /\ reads' \subseteq Sockets
        /\ connecting' \subseteq Sockets /\ CandidatepSocks' \subseteq Sockets
    BY <1>0, <1>8 DEF ConnectFails, ReadFails
  <2>3. Mem'
    BY <1>0, <2>1, <2>2 DEF opening, writes
  <2> QED BY <1>1, <1>2, <2>1, <2>3 DEF WriteKnown, writes
<1>9. ASSUME NEW s \in Sockets, Connects(s) PROVE RestTyped' /\ WriteKnown'
  <2>1. /\ UNCHANGED <<use, calls, made, manuallyClosed, resolved, resolving, ramp_time_ms>>
        /\ connecting' = connecting \ {s} /\ CandidatepSocks' = CandidatepSocks \ {s}
    BY <1>9 DEF Connects
  <2>2. CASE isConnected
    <3>1. UNCHANGED <<isConnected, pending_read, pSock, reads, sendShut, timers, writes>>
      BY <1>9, <2>2 DEF Connects
    <3>2. Mem'
      BY <1>0, <2>1, <3>1 DEF writes
    <3> QED BY <1>1, <1>2, <3>1, <3>2 DEF WriteKnown, writes
  <2>3. CASE ~isConnected
    <3>1. /\ pSock' = s /\ isConnected' = TRUE /\ pending_read' = TRUE
          /\ reads' = reads \cup {s} /\ sendShut' = sendShut \ {s} /\ halfOpen' = pending_write
          /\ timers' \subseteq {"retry", "established"} /\ BufferedGoesOut(s)
      BY <1>0, <1>9, <2>3 DEF Connects, SetTimer
    <3>2. \/ UNCHANGED <<pending_write, writing>>
          \/ WriteBuffer(s, queue_writebufs, dispatch_writebufs)
      BY <3>1 DEF BufferedGoesOut
    <3>3. /\ pending_write' \in BOOLEAN /\ writing'.sock \in Sockets \cup {NoSocket}
          /\ writing'.kind \in {"none", "direct", "buffer"}
          /\ pending_write' <=> writing'.kind # "none"
          /\ pending_write' => writing'.sock \in Sockets
      <4>1. CASE UNCHANGED <<pending_write, writing>>
        BY <1>0, <1>2, <4>1 DEF WriteKnown
      <4>2. CASE WriteBuffer(s, queue_writebufs, dispatch_writebufs)
        BY <4>2, WriteBufferStarts
      <4> QED BY <3>2, <4>1, <4>2
    <3>4. Mem'
      BY <1>0, <2>1, <3>1, <3>3
    <3> QED BY <1>1, <3>1, <3>3, <3>4 DEF WriteKnown
  <2> QED BY <2>2, <2>3, <1>0
<1>10. CASE WriteHandler
  <2>1. PICK q, d : /\ writing.kind # "none" /\ CheckLastWrite(writing.sock, q, d)
                    /\ UNCHANGED <<use, calls, made, manuallyClosed, isConnected, pending_read,
                                   pSock, CandidatepSocks, connecting, reads, opening>>
    <3>1. (\E n : DirectWriteHandler(n)) \/ (\E done, part : BufferWriteHandler(done, part))
      BY <1>10 DEF WriteHandler
    <3> QED BY <3>1 DEF DirectWriteHandler, BufferWriteHandler
  <2>2. writing.sock \in Sockets
    BY <1>2, <2>1 DEF WriteKnown
  <2>3. /\ pending_write' \in BOOLEAN /\ writing'.sock \in Sockets \cup {NoSocket}
        /\ writing'.kind \in {"none", "direct", "buffer"}
        /\ pending_write' <=> writing'.kind # "none"
        /\ pending_write' => writing'.sock \in Sockets
        /\ sendShut' \subseteq Sockets /\ halfOpen' \in BOOLEAN
    <3>1. CASE Active(writing.sock)
      <4>1. WriteBuffer(writing.sock, q, d) /\ halfOpen' = FALSE /\ UNCHANGED sendShut
        BY <2>1, <3>1 DEF CheckLastWrite
      <4> QED BY <1>0, <2>2, <4>1, WriteBufferStarts
    <3>2. CASE ~Active(writing.sock)
      <4>1. /\ pending_write' = FALSE /\ writing' = NoWrite
            /\ sendShut' = sendShut \cup {writing.sock} /\ UNCHANGED halfOpen
        BY <2>1, <3>2 DEF CheckLastWrite
      <4> QED BY <1>0, <2>2, <4>1 DEF NoWrite
    <3> QED BY <3>1, <3>2
  <2>4. Mem'
    BY <1>0, <2>1, <2>3 DEF opening
  <2> QED BY <1>1, <1>2, <2>1, <2>3, <2>4 DEF WriteKnown
<1>11. CASE UNCHANGED vars
  <2>1. Mem'
    BY <1>0, <1>11 DEF vars, connection, opening, writes
  <2> QED BY <1>1, <1>2, <1>11, <2>1 DEF WriteKnown, vars, connection, writes
<1> QED BY <1>3, <1>4, <1>5, <1>6, <1>7, <1>8, <1>9, <1>10, <1>11 DEF Next

\* What the invariant says in the next state, when the strand is quiet.
LEMMA QuietPlaced ==
    ASSUME PInv, QuietStrand, use' = use,
           NEW w, NEW k, NEW q, NEW d, NEW wr, NEW x, NEW s,
           Placed(w, use.writes, k, strand, q, d, wr, x, s)
    PROVE  Placed(w, use.writes, k, strand', q, d, wr, x, s)
<1>1. HeldBy(Writes(strand), w, "strand", s, use.writes)
  BY DEF Placed
<1>2. HeldBy(Writes(strand'), w, "strand", s, use.writes)
  BY <1>1, QuietKeeps
<1> QED BY <1>2 DEF Placed

\* push_back to a queue that may be full.
LEMMA QueuedPlaced ==
    ASSUME use \in Uses, NEW k, NEW w, NEW st, NEW q \in Seq(Messages(use.writes)), NEW d, NEW wr,
           NEW x, x \subseteq Messages(use.writes), NEW s, NEW b \in Messages(use.writes),
           Len(q) <= use.buffer_limit,
           Placed(w, use.writes, k, st, Append(q, b), d, wr, x, s)
    PROVE  /\ Queued(q, b) \in Seq(Messages(use.writes)) /\ Len(Queued(q, b)) <= use.buffer_limit
           /\ x \cup DroppedBy(q, b) \subseteq Messages(use.writes)
           /\ \E v : Placed(v, use.writes, k, st, Queued(q, b), d, wr, x \cup DroppedBy(q, b), s)
<1>0. use.writes \in Nat /\ use.buffer_limit \in Nat \ {0}
  BY UsesAssumption
<1>1. PICK a : a = Append(q, b)
  OBVIOUS
<1>2. a \in Seq(Messages(use.writes)) /\ Len(a) = Len(q) + 1 /\ Len(q) \in Nat
  BY <1>1
<1>3. CASE Len(a) > use.buffer_limit
  <2>1. Queued(q, b) = Tail(a)
    BY <1>1, <1>3 DEF Queued
  <2>2. a # <<>> /\ Tail(a) \in Seq(Messages(use.writes)) /\ Len(Tail(a)) = Len(q)
        /\ Head(a) \in Messages(use.writes)
    BY <1>2
  <2>3. Tail(a) # a
    BY <1>2, <2>2
  <2>4. DroppedBy(q, b) = {Head(a)}
    BY <1>1, <2>1, <2>3 DEF DroppedBy
  <2>5. PICK n : n = use.writes
    OBVIOUS
  <2>6. \E v : Placed(v, n, k, st, Tail(a), d, wr, x \cup {Head(a)}, s)
    <3>1. a \in Seq(Messages(n)) /\ n \in Nat /\ Placed(w, n, k, st, a, d, wr, x, s)
      BY <1>0, <1>1, <1>2, <2>5
    <3> QED BY <2>2, <3>1, FirstDropped
  <2>7. x \cup {Head(a)} \subseteq Messages(use.writes)
    BY <2>2
  <2> QED BY <2>1, <2>2, <2>4, <2>5, <2>6, <2>7
<1>4. CASE ~(Len(a) > use.buffer_limit)
  <2>1. Queued(q, b) = a
    BY <1>1, <1>4 DEF Queued
  <2>2. DroppedBy(q, b) = {}
    BY <1>1, <2>1 DEF DroppedBy
  <2>3. Len(a) <= use.buffer_limit
    BY <1>0, <1>2, <1>4
  <2>4. x \cup {} = x
    OBVIOUS
  <2> QED BY <1>1, <1>2, <2>1, <2>2, <2>3, <2>4
<1> QED BY <1>3, <1>4

\* Write posts a message.
LEMMA UserWriteKeeps ==
    ASSUME PInv, UserWrite
    PROVE  StrandTyped' /\ QueuesTyped' /\ AllPlaced'
<1> USE DEF PInv
<1>1. /\ made < use.writes /\ made' = made + 1 /\ made \in Nat /\ use.writes \in Nat
      /\ UNCHANGED <<use, queue_writebufs, dispatch_writebufs, writing, sent, dropped>>
  BY UsesAssumption DEF UserWrite, writes, RestTyped
<1>2. PICK b : b = [id |-> made + 1, from |-> 1]
  OBVIOUS
<1>3. PICK e : e = [task |-> "Write", buf |-> b]
  OBVIOUS
<1>4. strand \in Seq(Tasks) /\ strand' = strand \o <<e>>
  BY <1>2, <1>3 DEF UserWrite, Post, StrandTyped
<1>5. b \in Messages(use.writes) /\ e \in Tasks /\ e.buf = b
  BY <1>1, <1>2, <1>3, NumbersAssumption DEF Messages, Tasks
<1>6. /\ strand' = Append(strand, e) /\ strand' \in Seq(Tasks)
      /\ DOMAIN strand' = 1..(Len(strand) + 1) /\ Len(strand) \in Nat
      /\ \A i \in 1..Len(strand) : strand'[i] = strand[i]
      /\ strand'[Len(strand) + 1] = e
  BY <1>4, <1>5
<1>7. StrandTyped'
  <2>1. ASSUME NEW i \in DOMAIN strand'
        PROVE  strand'[i].task \in {"Open", "Close", "AutoOpen", "AutoClose"}
               \/ strand'[i].buf \in Messages(use.writes)
    <3>1. CASE i = Len(strand) + 1
      BY <1>5, <1>6, <3>1
    <3>2. CASE i # Len(strand) + 1
      <4>1. i \in 1..Len(strand)
        BY <1>6, <3>2
      <4> QED BY <1>6, <4>1 DEF StrandTyped
    <3> QED BY <3>1, <3>2
  <2> QED BY <1>1, <1>6, <2>1 DEF StrandTyped
<1>8. QueuesTyped'
  BY <1>1 DEF QueuesTyped
<1>9. AllPlaced'
  <2>1. PICK w : Placed(w, use.writes, made, strand, queue_writebufs, dispatch_writebufs,
                        writing, dropped, sent)
    BY DEF AllPlaced
  <2>2. PICK st2 : st2 = strand'
    OBVIOUS
  <2>3. st2 \in Seq(Tasks)
        /\ st2 = Append(strand, [task |-> "Write", buf |-> [id |-> made + 1, from |-> 1]])
    BY <1>2, <1>3, <1>6, <2>2
  <2>4. \E v : Placed(v, use.writes, made + 1, st2, queue_writebufs, dispatch_writebufs,
                      writing, dropped, sent)
    BY <1>1, <1>4, <2>1, <2>3, WritePosted
  <2> QED BY <1>1, <2>2, <2>4 DEF AllPlaced
<1> QED BY <1>7, <1>8, <1>9

\* The strand runs the task of a message.
LEMMA RunWriteKeeps ==
    ASSUME PInv, RunWrite
    PROVE  StrandTyped' /\ QueuesTyped' /\ AllPlaced'
<1> USE DEF PInv
<1>1. /\ strand # <<>> /\ Head(strand).task = "Write" /\ strand' = Tail(strand) \o <<>>
      /\ UNCHANGED <<use, made, dispatch_writebufs, sent>>
  BY DEF RunWrite, Take, TakeAndPost
<1>2. /\ strand \in Seq(Tasks) /\ use \in Uses /\ use.writes \in Nat
      /\ QueuesTyped
  BY UsesAssumption DEF StrandTyped, RestTyped
<1>3. /\ strand' = Tail(strand) /\ strand' \in Seq(Tasks) /\ Len(strand) \in Nat
      /\ DOMAIN strand' = 1..(Len(strand) - 1) /\ DOMAIN strand = 1..Len(strand)
      /\ \A i \in 1..(Len(strand) - 1) : strand'[i] = strand[i + 1]
  BY <1>1, <1>2
<1>4. StrandTyped'
  <2>1. \A i \in DOMAIN strand' : i + 1 \in DOMAIN strand /\ strand'[i] = strand[i + 1]
    BY <1>3
  <2> QED BY <1>1, <1>3, <2>1 DEF StrandTyped
<1>5. PICK w : Placed(w, use.writes, made, strand, queue_writebufs, dispatch_writebufs,
                      writing, dropped, sent)
  BY DEF AllPlaced
<1>6. PICK b : b = Head(strand).buf
  OBVIOUS
<1>7. b \in Messages(use.writes)
  <2>1. HeldBy(Writes(strand), w, "strand", sent, use.writes)
    BY <1>5 DEF Placed
  <2> QED BY <1>1, <1>2, <1>6, <2>1, HeadLeaves
<1>8. CASE /\ queue_writebufs' = Queued(queue_writebufs, b)
           /\ dropped' = dropped \cup DroppedBy(queue_writebufs, b)
           /\ UNCHANGED <<pending_write, writing>>
  <2>1. PICK q, x : q = queue_writebufs /\ x = dropped
    OBVIOUS
  <2>2. /\ q \in Seq(Messages(use.writes)) /\ Len(q) <= use.buffer_limit
        /\ x \subseteq Messages(use.writes)
    BY <1>2, <2>1 DEF QueuesTyped
  <2>3. PICK v : Placed(v, use.writes, made, Tail(strand), Append(q, b), dispatch_writebufs,
                        writing, x, sent)
    BY <1>1, <1>2, <1>5, <1>6, <2>1, <2>2, WriteQueued
  <2>4. /\ Queued(q, b) \in Seq(Messages(use.writes)) /\ Len(Queued(q, b)) <= use.buffer_limit
        /\ x \cup DroppedBy(q, b) \subseteq Messages(use.writes)
        /\ \E u : Placed(u, use.writes, made, Tail(strand), Queued(q, b), dispatch_writebufs,
                         writing, x \cup DroppedBy(q, b), sent)
    BY <1>2, <1>7, <2>2, <2>3, QueuedPlaced
  <2>5. QueuesTyped'
    BY <1>1, <1>2, <1>8, <2>1, <2>4 DEF QueuesTyped
  <2>6. AllPlaced'
    BY <1>1, <1>3, <1>8, <2>1, <2>4 DEF AllPlaced
  <2> QED BY <1>4, <2>5, <2>6
<1>9. CASE /\ ~pending_write /\ writing' = [kind |-> "direct", sock |-> pSock, buf |-> b]
           /\ UNCHANGED <<queue_writebufs, dropped>>
  <2>1. PICK wr2 : wr2 = writing'
    OBVIOUS
  <2>2. wr2.kind = "direct" /\ wr2.buf = Head(strand).buf /\ writing.kind # "direct"
    BY <1>6, <1>9, <2>1 DEF WriteKnown
  <2>3. \E v : Placed(v, use.writes, made, Tail(strand), queue_writebufs, dispatch_writebufs,
                      wr2, dropped, sent)
    BY <1>1, <1>2, <1>5, <2>2, WriteStarted
  <2>4. QueuesTyped'
    BY <1>1, <1>2, <1>9 DEF QueuesTyped
  <2>5. AllPlaced'
    BY <1>1, <1>3, <1>9, <2>1, <2>3 DEF AllPlaced
  <2> QED BY <1>4, <2>4, <2>5
<1> QED BY <1>6, <1>8, <1>9 DEF RunWrite

\* A write of the buffers holds no message of its own.
LEMMA NoDirect ==
    ASSUME NEW n, NEW k, NEW w, NEW st, NEW q, NEW d, NEW wr, NEW wr2, NEW x, NEW s,
           Placed(w, n, k, st, q, d, wr, x, s), wr.kind # "direct", wr2.kind # "direct"
    PROVE  Placed(w, n, k, st, q, d, wr2, x, s)
<1>1. PICK f, h : f = Direct(wr) /\ h = Direct(wr2)
  OBVIOUS
<1>2. DOMAIN f = {} /\ DOMAIN h = {}
  BY <1>1, DirectHolds
<1>3. HeldBy(f, w, "direct", s, n)
  BY <1>1 DEF Placed
<1>4. \A m \in 1..n : w[m] # "direct"
  BY <1>2, <1>3, NoneHeld
<1>5. HeldBy(h, w, "direct", s, n)
  BY <1>2, <1>4, NoneHeld
<1> QED BY <1>1, <1>5 DEF Placed

\* The buffers after WriteBuffer, or when they are left as they are.
LEMMA BuffersPlaced ==
    ASSUME NEW n \in Nat, NEW limit, NEW k, NEW w, NEW st, NEW q, NEW d, NEW wr, NEW x, NEW s, NEW sock,
           Placed(w, n, k, st, q, d, wr, x, s), wr.kind # "direct",
           q \in Seq(Messages(n)), d \in Seq(Messages(n)), Len(q) <= limit, Len(d) <= limit, 0 <= limit,
           \/ WriteBuffer(sock, q, d)
           \/ queue_writebufs' = q /\ dispatch_writebufs' = d /\ writing'.kind # "direct"
    PROVE  /\ queue_writebufs' \in Seq(Messages(n)) /\ Len(queue_writebufs') <= limit
           /\ dispatch_writebufs' \in Seq(Messages(n)) /\ Len(dispatch_writebufs') <= limit
           /\ \E v : Placed(v, n, k, st, queue_writebufs', dispatch_writebufs', writing', x, s)
<1>1. PICK wr2 : wr2 = writing'
  OBVIOUS
<1>2. wr2.kind # "direct"
  BY <1>1, WriteBufferStarts
<1>3. Placed(w, n, k, st, q, d, wr2, x, s)
  BY <1>2, NoDirect
<1>4. CASE queue_writebufs' = q /\ dispatch_writebufs' = d
  BY <1>1, <1>3, <1>4
<1>5. CASE d = <<>> /\ dispatch_writebufs' = q /\ queue_writebufs' = <<>>
  <2>1. \E v : Placed(v, n, k, st, <<>>, q, wr2, x, s)
    BY <1>3, <1>5, BuffersSwapped
  <2>2. <<>> \in Seq(Messages(n)) /\ Len(<<>>) = 0
    OBVIOUS
  <2> QED BY <1>1, <1>5, <2>1, <2>2
<1>6. \/ queue_writebufs' = q /\ dispatch_writebufs' = d
      \/ d = <<>> /\ dispatch_writebufs' = q /\ queue_writebufs' = <<>>
  BY WriteBufferStarts
<1> QED BY <1>4, <1>5, <1>6

\* A connection is made.
LEMMA ConnectsKeeps ==
    ASSUME PInv, NEW s \in Sockets, Connects(s), QuietStrand
    PROVE  StrandTyped' /\ QueuesTyped' /\ AllPlaced'
<1> USE DEF PInv
<1>1. UNCHANGED <<use, made, sent, dropped>>
  BY DEF Connects, writes
<1>2. /\ use \in Uses /\ use.writes \in Nat /\ use.buffer_limit \in Nat /\ 0 <= use.buffer_limit
      /\ StrandTyped'
  <2>1. use \in Uses /\ use.writes \in Nat /\ use.buffer_limit \in Nat
    BY UsesAssumption DEF RestTyped
  <2> QED BY <1>1, <2>1, QuietKeeps
<1>3. \/ UNCHANGED <<queue_writebufs, dispatch_writebufs, writing>>
      \/ ~pending_write /\ WriteBuffer(s, queue_writebufs, dispatch_writebufs)
  BY DEF Connects, BufferedGoesOut, writes
<1>4. PICK w : Placed(w, use.writes, made, strand', queue_writebufs, dispatch_writebufs,
                      writing, dropped, sent)
  BY <1>1, QuietPlaced DEF AllPlaced
<1>5. CASE UNCHANGED <<queue_writebufs, dispatch_writebufs, writing>>
  <2>1. QueuesTyped'
    BY <1>1, <1>5 DEF QueuesTyped
  <2>2. AllPlaced'
    BY <1>1, <1>4, <1>5 DEF AllPlaced
  <2> QED BY <1>2, <2>1, <2>2
<1>6. CASE ~pending_write /\ WriteBuffer(s, queue_writebufs, dispatch_writebufs)
  <2>1. writing.kind # "direct"
    BY <1>6 DEF WriteKnown
  <2>2. PICK n, limit, q, d, st : n = use.writes /\ limit = use.buffer_limit /\ q = queue_writebufs
                                  /\ d = dispatch_writebufs /\ st = strand'
    OBVIOUS
  <2>3. /\ n \in Nat /\ 0 <= limit /\ q \in Seq(Messages(n)) /\ d \in Seq(Messages(n))
        /\ Len(q) <= limit /\ Len(d) <= limit /\ WriteBuffer(s, q, d)
        /\ Placed(w, n, made, st, q, d, writing, dropped, sent)
    BY <1>2, <1>4, <1>6, <2>2 DEF QueuesTyped
  <2>4. /\ queue_writebufs' \in Seq(Messages(n)) /\ Len(queue_writebufs') <= limit
        /\ dispatch_writebufs' \in Seq(Messages(n)) /\ Len(dispatch_writebufs') <= limit
        /\ \E v : Placed(v, n, made, st, queue_writebufs', dispatch_writebufs', writing', dropped, sent)
    BY <2>1, <2>3, BuffersPlaced
  <2>5. QueuesTyped'
    BY <1>1, <2>2, <2>4 DEF QueuesTyped
  <2>6. AllPlaced'
    BY <1>1, <2>2, <2>4 DEF AllPlaced
  <2> QED BY <1>2, <2>5, <2>6
<1> QED BY <1>3, <1>5, <1>6

\* A direct write of which c pieces were written, t in all; the write is not repeated.
WrittenPart(w, n, k, st, q, d, wr, wr2, x, s, t, b, c) ==
    /\ n \in Nat /\ c \in Nat /\ q \in Seq(Messages(n))
    /\ Placed(w, n, k, st, q, d, wr, x, s) /\ wr.kind = "direct" /\ wr2.kind # "direct"
    /\ wr.buf = b /\ c <= PiecesLeft(b)
    /\ Advanced(s, t, b, c, n)

LEMMA RestPlaced ==
    ASSUME NEW n, NEW k, NEW w, NEW st, NEW q, NEW d, NEW wr, NEW wr2, NEW x, NEW s, NEW t, NEW b, NEW c,
           WrittenPart(w, n, k, st, q, d, wr, wr2, x, s, t, b, c)
    PROVE  /\ c < PiecesLeft(b) => /\ Rest(b, c) \in Messages(n)
                                   /\ \E v : Placed(v, n, k, st, Append(q, Rest(b, c)), d, wr2, x, t)
           /\ ~(c < PiecesLeft(b)) => \E v : Placed(v, n, k, st, q, d, wr2, x, t)
<1>1. /\ n \in Nat /\ c \in Nat /\ q \in Seq(Messages(n)) /\ wr.buf = b
      /\ Placed(w, n, k, st, q, d, wr, x, s) /\ wr.kind = "direct" /\ wr2.kind # "direct"
      /\ c <= PiecesLeft(wr.buf) /\ Advanced(s, t, wr.buf, c, n)
  BY DEF WrittenPart
<1>2. /\ c < PiecesLeft(wr.buf) =>
           /\ Rest(wr.buf, c) \in Messages(n)
           /\ \E v : Placed(v, n, k, st, Append(q, Rest(wr.buf, c)), d, wr2, x, t)
      /\ ~(c < PiecesLeft(wr.buf)) => \E v : Placed(v, n, k, st, q, d, wr2, x, t)
  BY <1>1, DirectWritten
<1> QED BY <1>1, <1>2

\* The first `done` buffers of d were written, and part of the next.
WrittenOf(n, d, done, part) ==
    /\ n \in Nat /\ d \in Seq(Messages(n)) /\ done \in 0..Len(d) /\ part \in Nat
    /\ done < Len(d) => part < PiecesLeft(d[done + 1])

LEMMA RemainderTyped ==
    ASSUME NEW n, NEW d, NEW done, NEW part, WrittenOf(n, d, done, part)
    PROVE  /\ Remainder(d, done, part) \in Seq(Messages(n))
           /\ Len(Remainder(d, done, part)) = Len(d) - done
<1>1. /\ n \in Nat /\ d \in Seq(Messages(n)) /\ done \in 0..Len(d) /\ part \in Nat
      /\ done < Len(d) => part < PiecesLeft(d[done + 1])
  BY DEF WrittenOf
<1> SUFFICES ASSUME n \in Nat, d \in Seq(Messages(n)), done \in 0..Len(d), part \in Nat,
                    done < Len(d) => part < PiecesLeft(d[done + 1])
             PROVE  /\ Remainder(d, done, part) \in Seq(Messages(n))
                    /\ Len(Remainder(d, done, part)) = Len(d) - done
  BY <1>1
<1> QED BY RemainderHolds

\* The messages of the strand st are those of the strand, k were given to Write.
SameMessages(n, k, st) ==
    \A w, q, d, wr, x, s : Placed(w, n, k, strand, q, d, wr, x, s)
                              => Placed(w, n, k, st, q, d, wr, x, s)

\* A write's handler goes into CheckLastWrite with every message in its place.
EndsWith(n, st, q, d, v, wr, t, x, sock) ==
    /\ Placed(v, n, made, st, q, d, wr, x, t) /\ wr.kind # "direct"
    /\ q \in Seq(Messages(n)) /\ d \in Seq(Messages(n))
    /\ Len(q) <= use.buffer_limit /\ Len(d) <= use.buffer_limit
    /\ Hist(t, n) /\ x \subseteq Messages(n)
    /\ CheckLastWrite(sock, q, d) /\ sent' = t /\ dropped' = x /\ UNCHANGED <<use, made>>

\* The handler of a write: what it leaves of the message or of the buffers goes into
\* CheckLastWrite.
LEMMA HandlerLeaves ==
    ASSUME PInv, WriteHandler, NEW n, n = use.writes, NEW st,
           SameMessages(n, made, st)
    PROVE  \E q, d, v, wr, t, x, sock : EndsWith(n, st, q, d, v, wr, t, x, sock)
<1> USE DEF PInv
<1>0. /\ use \in Uses /\ n \in Nat /\ use.buffer_limit \in Nat
      /\ queue_writebufs \in Seq(Messages(n)) /\ Len(queue_writebufs) <= use.buffer_limit
      /\ dispatch_writebufs \in Seq(Messages(n)) /\ Len(dispatch_writebufs) <= use.buffer_limit
      /\ Hist(sent, n) /\ dropped \subseteq Messages(n)
  BY UsesAssumption DEF RestTyped, QueuesTyped
<1>1. PICK w : Placed(w, n, made, st, queue_writebufs, dispatch_writebufs, writing, dropped, sent)
  BY DEF AllPlaced, SameMessages
<1>2. ASSUME NEW c \in 0..Pieces, DirectWriteHandler(c)
      PROVE  \E q, d, v, wr, t, x, sock : EndsWith(n, st, q, d, v, wr, t, x, sock)
  <2>1. PICK wr, wr2, k, q, d, x, s : /\ wr = writing /\ wr2 = NoWrite /\ k = made
                                      /\ q = queue_writebufs /\ d = dispatch_writebufs
                                      /\ x = dropped /\ s = sent
    OBVIOUS
  <2>2. PICK b : b = wr.buf
    OBVIOUS
  <2>3. wr2.kind # "direct" /\ wr.kind = "direct" /\ c <= PiecesLeft(b) /\ c \in Nat
    BY <1>2, <2>1, <2>2, NumbersAssumption DEF NoWrite, DirectWriteHandler
  <2>4. PICK t : t = Counted(s, b, c)
    OBVIOUS
  <2>5. sent' = t /\ UNCHANGED <<use, made>>
    BY <1>2, <2>1, <2>2, <2>4 DEF DirectWriteHandler, Counted
  <2>6. /\ q \in Seq(Messages(n)) /\ Len(q) <= use.buffer_limit /\ x \subseteq Messages(n)
        /\ d \in Seq(Messages(n)) /\ Len(d) <= use.buffer_limit
        /\ Hist(s, n) /\ Placed(w, n, k, st, q, d, wr, x, s)
    BY <1>0, <1>1, <2>1
  <2>7. b \in Messages(n) /\ Upto(b, s)
    <3>1. PICK f : f = Direct(wr)
      OBVIOUS
    <3>2. HeldBy(f, w, "direct", s, n)
      BY <2>6, <3>1 DEF Placed
    <3>3. DOMAIN f = {1} /\ f[1] = b
      BY <2>2, <2>3, <3>1, DirectHolds
    <3> QED BY <3>2, <3>3 DEF HeldBy
  <2>8. Advanced(s, t, b, c, n)
    BY <1>0, <2>3, <2>4, <2>6, <2>7, PartCounted
  <2>9. Hist(t, n)
    BY <2>8 DEF Advanced
  <2>10. /\ c < PiecesLeft(b) => /\ Rest(b, c) \in Messages(n)
                                 /\ \E v : Placed(v, n, k, st, Append(q, Rest(b, c)), d, wr2, x, t)
         /\ ~(c < PiecesLeft(b)) => \E v : Placed(v, n, k, st, q, d, wr2, x, t)
    <3>1. WrittenPart(w, n, k, st, q, d, wr, wr2, x, s, t, b, c)
      BY <1>0, <2>2, <2>3, <2>6, <2>8 DEF WrittenPart
    <3> QED BY <3>1, RestPlaced
  <2>11. CASE c < PiecesLeft(b)
    <3>1. PICK e : e = Rest(b, c)
      OBVIOUS
    <3>2. PICK u, a : /\ a = Append(q, e) /\ e \in Messages(n)
                      /\ Placed(u, n, k, st, a, d, wr2, x, t)
      BY <2>10, <2>11, <3>1
    <3>3. PICK h, y : h = Queued(q, e) /\ y = x \cup DroppedBy(q, e)
      OBVIOUS
    <3>4. /\ h \in Seq(Messages(n)) /\ Len(h) <= use.buffer_limit /\ y \subseteq Messages(n)
          /\ \E v : Placed(v, n, k, st, h, d, wr2, y, t)
      <4>1. /\ q \in Seq(Messages(use.writes)) /\ x \subseteq Messages(use.writes)
            /\ e \in Messages(use.writes) /\ Placed(u, use.writes, k, st, Append(q, e), d, wr2, x, t)
        BY <2>6, <3>2
      <4>2. /\ Queued(q, e) \in Seq(Messages(use.writes)) /\ Len(Queued(q, e)) <= use.buffer_limit
            /\ x \cup DroppedBy(q, e) \subseteq Messages(use.writes)
            /\ \E v : Placed(v, use.writes, k, st, Queued(q, e), d, wr2, x \cup DroppedBy(q, e), t)
        <5> HIDE DEF PInv
        <5> QED BY <1>0, <2>6, <4>1, QueuedPlaced
      <4> QED BY <3>3, <4>2
    <3>5. dropped' = y /\ CheckLastWrite(writing.sock, h, d)
      BY <1>2, <2>1, <2>2, <2>11, <3>1, <3>3 DEF DirectWriteHandler
    <3>6. PICK v : Placed(v, n, k, st, h, d, wr2, y, t)
      BY <3>4
    <3>7. EndsWith(n, st, h, d, v, wr2, t, y, writing.sock)
      BY <2>1, <2>3, <2>5, <2>6, <2>9, <3>4, <3>5, <3>6 DEF EndsWith
    <3> QED BY <3>7
  <2>12. CASE ~(c < PiecesLeft(b))
    <3>1. dropped' = x /\ CheckLastWrite(writing.sock, q, d)
      BY <1>2, <2>1, <2>2, <2>12 DEF DirectWriteHandler
    <3>2. PICK v : Placed(v, n, k, st, q, d, wr2, x, t)
      BY <2>10, <2>12
    <3>3. EndsWith(n, st, q, d, v, wr2, t, x, writing.sock)
      BY <2>1, <2>3, <2>5, <2>6, <2>9, <3>1, <3>2 DEF EndsWith
    <3> QED BY <3>3
  <2> QED BY <2>11, <2>12
<1>3. ASSUME NEW done \in 0..Len(dispatch_writebufs), NEW part \in 0..(Pieces - 1),
             BufferWriteHandler(done, part)
      PROVE  \E q, d, v, wr, t, x, sock : EndsWith(n, st, q, d, v, wr, t, x, sock)
  <2>1. PICK d, t : d = dispatch_writebufs /\ t = CountedIn(sent, d, done, part)
    OBVIOUS
  <2>2. /\ d \in Seq(Messages(n)) /\ Len(d) <= use.buffer_limit /\ part \in Nat
        /\ done \in 0..Len(d) /\ Len(d) \in Nat /\ done \in Nat
        /\ Placed(w, n, made, st, queue_writebufs, d, writing, dropped, sent)
    BY <1>0, <1>1, <1>3, <2>1, NumbersAssumption
  <2>3. /\ done = Len(d) => part = 0
        /\ done < Len(d) => part < PiecesLeft(d[done + 1])
    <3>1. IF done = Len(d) THEN part = 0 ELSE part < PiecesLeft(d[done + 1])
      BY <1>3, <2>1 DEF BufferWriteHandler
    <3>2. done < Len(d) => done # Len(d)
      BY <2>2
    <3> QED BY <3>1, <3>2
  <2>4. /\ writing.kind # "direct" /\ sent' = t /\ dropped' = dropped /\ UNCHANGED <<use, made>>
        /\ CheckLastWrite(writing.sock, queue_writebufs, Remainder(d, done, part))
    BY <1>3, <2>1 DEF BufferWriteHandler, CountedIn
  <2>5. Consumed(sent, t, d, done, part, n)
    <3>1. HeldBy(d, w, "dispatch", sent, n)
      BY <2>2 DEF Placed
    <3> QED BY <1>0, <2>1, <2>2, <2>3, <3>1, BufferCounted
  <2>6. Hist(t, n)
    BY <2>5 DEF Consumed
  <2>7. \E v : Placed(v, n, made, st, queue_writebufs, Remainder(d, done, part), writing, dropped, t)
    <3>1. PICK wr, k, q, x, s : /\ wr = writing /\ k = made /\ q = queue_writebufs
                                /\ x = dropped /\ s = sent
      OBVIOUS
    <3>2. Placed(w, n, k, st, q, d, wr, x, s) /\ Consumed(s, t, d, done, part, n) /\ n \in Nat
      BY <1>0, <2>2, <2>5, <3>1
    <3>3. \E v : Placed(v, n, k, st, q, Remainder(d, done, part), wr, x, t)
      <4> HIDE DEF PInv
      <4> QED BY <2>2, <2>3, <3>2, BufferWritten
    <3> QED BY <3>1, <3>3
  <2>8. /\ Remainder(d, done, part) \in Seq(Messages(n))
        /\ Len(Remainder(d, done, part)) = Len(d) - done
    <3>1. WrittenOf(n, d, done, part)
      BY <1>0, <2>2, <2>3 DEF WrittenOf
    <3> QED BY <3>1, RemainderTyped
  <2>9. Len(Remainder(d, done, part)) <= use.buffer_limit
    BY <1>0, <2>2, <2>8
  <2>10. PICK v : Placed(v, n, made, st, queue_writebufs, Remainder(d, done, part), writing, dropped, t)
    BY <2>7
  <2>11. EndsWith(n, st, queue_writebufs, Remainder(d, done, part), v, writing, t, dropped, writing.sock)
    BY <1>0, <2>4, <2>6, <2>8, <2>9, <2>10 DEF EndsWith
  <2> QED BY <2>11
<1> QED BY <1>2, <1>3 DEF WriteHandler

LEMMA WriteHandlerKeeps ==
    ASSUME PInv, WriteHandler, QuietStrand
    PROVE  StrandTyped' /\ QueuesTyped' /\ AllPlaced'
<1>1. use' = use /\ made' = made
  BY DEF WriteHandler, DirectWriteHandler, BufferWriteHandler
<1>2. StrandTyped'
  BY <1>1, QuietKeeps
<1>3. PICK n, st, limit, k : n = use.writes /\ st = strand' /\ limit = use.buffer_limit /\ k = made
  OBVIOUS
<1>4. n \in Nat /\ limit \in Nat /\ 0 <= limit
  <2>1. n \in Nat /\ limit \in Nat
    BY <1>3, UsesAssumption DEF PInv, RestTyped
  <2> QED BY <2>1
<1>5. SameMessages(n, made, st)
  BY <1>1, <1>3, QuietPlaced DEF SameMessages
<1>6. PICK q, d, v, wr, t, x, sock : EndsWith(n, st, q, d, v, wr, t, x, sock)
  BY <1>3, <1>5, HandlerLeaves
<1>7. \/ WriteBuffer(sock, q, d)
      \/ queue_writebufs' = q /\ dispatch_writebufs' = d /\ writing'.kind # "direct"
  BY <1>6 DEF EndsWith, CheckLastWrite, NoWrite
<1>8. /\ Placed(v, n, k, st, q, d, wr, x, t) /\ wr.kind # "direct"
      /\ q \in Seq(Messages(n)) /\ d \in Seq(Messages(n)) /\ Len(q) <= limit /\ Len(d) <= limit
      /\ Hist(t, n) /\ x \subseteq Messages(n) /\ sent' = t /\ dropped' = x
  BY <1>3, <1>6 DEF EndsWith
<1>9. /\ queue_writebufs' \in Seq(Messages(n)) /\ Len(queue_writebufs') <= limit
      /\ dispatch_writebufs' \in Seq(Messages(n)) /\ Len(dispatch_writebufs') <= limit
      /\ \E u : Placed(u, n, k, st, queue_writebufs', dispatch_writebufs', writing', x, t)
  BY <1>4, <1>7, <1>8, BuffersPlaced
<1>10. QueuesTyped'
  BY <1>1, <1>3, <1>8, <1>9 DEF QueuesTyped
<1>11. AllPlaced'
  BY <1>1, <1>3, <1>8, <1>9 DEF AllPlaced
<1> QED BY <1>2, <1>10, <1>11

\* The steps that neither write nor queue.
LEMMA OtherStepsKeep ==
    ASSUME PInv, QuietStrand,
           UNCHANGED <<use, made, queue_writebufs, dispatch_writebufs, writing, sent, dropped>>
    PROVE  StrandTyped' /\ QueuesTyped' /\ AllPlaced'
<1>1. StrandTyped'
  BY QuietKeeps
<1>2. QueuesTyped'
  BY DEF PInv, QueuesTyped
<1>3. PICK w : Placed(w, use.writes, made, strand, queue_writebufs, dispatch_writebufs,
                      writing, dropped, sent)
  BY DEF PInv, AllPlaced
<1>4. Placed(w, use.writes, made, strand', queue_writebufs, dispatch_writebufs, writing, dropped, sent)
  BY <1>3, QuietPlaced
<1>5. AllPlaced'
  BY <1>4 DEF AllPlaced
<1> QED BY <1>1, <1>2, <1>5

LEMMA NextPInv == PInv /\ [Next]_vars => PInv'
<1> SUFFICES ASSUME PInv, [Next]_vars PROVE PInv'
  OBVIOUS
<1>1. RestTyped' /\ WriteKnown'
  BY TypesStep
<1>2. StrandTyped' /\ QueuesTyped' /\ AllPlaced'
  <2>1. CASE UserWrite
    BY <2>1, UserWriteKeeps
  <2>2. CASE RunWrite
    BY <2>2, RunWriteKeeps
  <2>3. CASE ~UserWrite /\ ~RunWrite
    <3>1. QuietStrand
      BY <2>3, QuietSteps
    <3>2. CASE WriteHandler
      BY <3>1, <3>2, WriteHandlerKeeps
    <3>3. CASE \E s \in Sockets : Connects(s)
      BY <3>1, <3>3, ConnectsKeeps
    <3>4. CASE ~WriteHandler /\ ~\E s \in Sockets : Connects(s)
      <4>1. UNCHANGED <<use, made, queue_writebufs, dispatch_writebufs, writing, sent, dropped>>
        BY <2>3, <3>4 DEF Next, vars, writes, UserCall, RunOpen, RunClose, RunAutoOpen, RunAutoClose,
           RetryHandler, EstablishedHandler, ResolveHandler, ConnectFails, ReadFails
      <4> QED BY <3>1, <4>1, OtherStepsKeep
    <3> QED BY <3>2, <3>3, <3>4
  <2> QED BY <2>1, <2>2, <2>3
<1> QED BY <1>1, <1>2 DEF PInv

LEMMA InitPInv == Init => PInv
<1> SUFFICES ASSUME Init PROVE PInv
  OBVIOUS
<1> USE DEF Init
<1>0. use \in Uses /\ use.calls \in Seq({"Open", "Close"}) /\ use.writes \in Nat /\ use.buffer_limit \in Nat \ {0}
  BY UsesAssumption
<1>1. RestTyped
  <2>1. calls \in 0..Len(use.calls) /\ made \in 0..use.writes
    BY <1>0
  <2>2. resolving \in 0..MaxResolving /\ ramp_time_ms \in 0..(RampMod - 1)
    BY NumbersAssumption
  <2>3. writing.sock \in Sockets \cup {NoSocket}
    BY DEF NoWrite
  <2> QED BY <1>0, <2>1, <2>2, <2>3 DEF RestTyped
<1>2. WriteKnown
  BY DEF WriteKnown, NoWrite
<1>3. StrandTyped
  BY DEF StrandTyped
<1>4. QueuesTyped
  BY <1>0 DEF QueuesTyped, Hist
<1>5. AllPlaced
  <2>1. PICK n, w, s, wr : /\ n = use.writes /\ s = sent /\ wr = writing
                           /\ w = [m \in 1..n |-> "later"]
    OBVIOUS
  <2>2. /\ n \in Nat /\ w \in [1..n -> Places] /\ \A m \in 1..n : w[m] = "later" /\ m > 0
        /\ \A m \in 1..n, p \in 1..Pieces : s[<<m, p>>] = 0
        /\ wr.kind # "direct"
    BY <1>0, <2>1 DEF Places, NoWrite
  <2>3. \A m \in 1..n : w[m] \notin {"strand", "queue", "dispatch", "direct", "dropped", "sent"}
    BY <2>2
  <2>4. DOMAIN Writes(<<>>) = {} /\ DOMAIN Direct(wr) = {} /\ DOMAIN Dropped({}) = {} /\ DOMAIN <<>> = {}
    BY <2>2 DEF Writes, Direct, Dropped
  <2>5. /\ HeldBy(Writes(<<>>), w, "strand", s, n) /\ HeldBy(<<>>, w, "queue", s, n)
        /\ HeldBy(<<>>, w, "dispatch", s, n) /\ HeldBy(Direct(wr), w, "direct", s, n)
        /\ HeldBy(Dropped({}), w, "dropped", s, n)
    BY <2>3, <2>4, NoneHeld
  <2>6. Placed(w, n, 0, <<>>, <<>>, <<>>, wr, {}, s)
    BY <2>2, <2>3, <2>5 DEF Placed
  <2> QED BY <2>1, <2>6 DEF AllPlaced
<1> QED BY <1>1, <1>2, <1>3, <1>4, <1>5 DEF PInv

LEMMA PInvConserves == PInv => PiecesConserved
<1> SUFFICES ASSUME PInv PROVE PiecesConserved
  OBVIOUS
<1>1. TypeOK
  BY DEF PInv, RestTyped, StrandTyped, QueuesTyped, TypeOK, Bufs, Messages, Hist
<1>2. PICK w : Placed(w, use.writes, made, strand, queue_writebufs, dispatch_writebufs,
                      writing, dropped, sent)
  BY DEF PInv, AllPlaced
<1>3. PICK n, k : n = use.writes /\ k = made
  OBVIOUS
<1>4. n \in Nat /\ k \in 0..n /\ Hist(sent, n)
  BY <1>3, UsesAssumption DEF PInv, RestTyped, QueuesTyped
<1>5. ASSUME NEW m \in 1..k, NEW p \in 1..Pieces
      PROVE  OnceIn(m, p, strand, queue_writebufs, dispatch_writebufs, writing, dropped, sent)
  <2>1. m \in 1..n /\ ~(m > k)
    BY <1>4
  <2>2. PICK st, q, d, wr, x, s : /\ st = strand /\ q = queue_writebufs /\ d = dispatch_writebufs
                                  /\ wr = writing /\ x = dropped /\ s = sent
    OBVIOUS
  <2>3. Placed(w, n, k, st, q, d, wr, x, s) /\ Hist(s, n)
    BY <1>2, <1>3, <1>4, <2>2
  <2>4. OnceIn(m, p, st, q, d, wr, x, s)
    BY <1>4, <2>1, <2>3, PlacedOnce
  <2> QED BY <2>2, <2>4
<1> QED BY <1>1, <1>3, <1>5 DEF PiecesConserved, OnceIn

\* Every piece of every message given to Write was written once, or is held once, or was
\* dropped because the queue was full, whatever fails and however it is used: a user
\* who opens before a close is finished included.
THEOREM EachPieceOnce == Spec => []PiecesConserved
<1>1. PInv /\ UNCHANGED vars => PInv'
  BY NextPInv
<1> QED BY InitPInv, NextPInv, PInvConserves, PTL DEF Spec
=============================================================================
