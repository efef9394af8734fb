-------------------------- MODULE SerialLinkProofs --------------------------
(* Proofs about the serial ports and the link over them, for any number of     *)
(* ports, any size of the queue and any number of messages.                    *)
EXTENDS SerialLink, KeySequences, FiniteSetTheorems, TLAPS

-----------------------------------------------------------------------------
(* Queues *)

\* What is in a queue after an element was put at its end.
LEMMA QueueAppend ==
    ASSUME NEW S, NEW q \in Seq(S), NEW x \in S
    PROVE  /\ Append(q, x) \in Seq(S) /\ Append(q, x) # <<>>
           /\ ToSet(Append(q, x)) = ToSet(q) \cup {x}
<1> DEFINE t == Append(q, x)
<1>1. /\ t \in Seq(S) /\ Len(t) = Len(q) + 1
      /\ \A i \in 1..Len(q) : t[i] = q[i]
      /\ t[Len(q) + 1] = x
      /\ DOMAIN t = 1..Len(t) /\ DOMAIN q = 1..Len(q)
  OBVIOUS
<1> HIDE DEF t
<1>2. t # <<>>
  BY <1>1
<1>3. ToSet(t) \subseteq ToSet(q) \cup {x}
  BY <1>1 DEF ToSet
<1>4. ToSet(q) \cup {x} \subseteq ToSet(t)
  BY <1>1 DEF ToSet
<1> QED BY <1>1, <1>2, <1>3, <1>4 DEF t

\* What is in a queue, and after its head was taken.
LEMMA QueueTail ==
    ASSUME NEW S, NEW q \in Seq(S), q # <<>>
    PROVE  /\ Tail(q) \in Seq(S) /\ Head(q) \in S
           /\ ToSet(q) = {Head(q)} \cup ToSet(Tail(q))
<1> DEFINE t == Tail(q)
<1>1. /\ t \in Seq(S) /\ Len(t) = Len(q) - 1 /\ Len(q) \in Nat \ {0}
      /\ \A i \in 1..Len(t) : t[i] = q[i + 1]
      /\ Head(q) = q[1] /\ Head(q) \in S
      /\ DOMAIN t = 1..Len(t) /\ DOMAIN q = 1..Len(q)
  OBVIOUS
<1> HIDE DEF t
<1>2. ToSet(q) \subseteq {Head(q)} \cup ToSet(t)
  <2> SUFFICES ASSUME NEW i \in 1..Len(q) PROVE q[i] \in {Head(q)} \cup ToSet(t)
    BY <1>1 DEF ToSet
  <2>1. CASE i = 1
    BY <1>1, <2>1
  <2>2. CASE i # 1
    <3>1. i - 1 \in 1..Len(t) /\ t[i - 1] = q[i]
      BY <1>1, <2>2
    <3> QED BY <1>1, <3>1 DEF ToSet
  <2> QED BY <2>1, <2>2
<1>3. {Head(q)} \cup ToSet(t) \subseteq ToSet(q)
  BY <1>1 DEF ToSet
<1> QED BY <1>1, <1>2, <1>3 DEF t

\* The elements of a queue.
LEMMA QueueElements ==
    ASSUME NEW S, NEW q \in Seq(S)
    PROVE  ToSet(q) \subseteq S /\ (q = <<>> => ToSet(q) = {})
  BY DEF ToSet

\* Putting an element that is not there at the end keeps the elements distinct.
LEMMA DistinctAppend ==
    ASSUME NEW S, NEW q \in Seq(S), NEW x \in S, NoRepeats(q), x \notin ToSet(q)
    PROVE  NoRepeats(Append(q, x))
<1> DEFINE t == Append(q, x)
<1>1. /\ DOMAIN t = 1..(Len(q) + 1) /\ Len(q) \in Nat /\ DOMAIN q = 1..Len(q)
      /\ \A i \in 1..Len(q) : t[i] = q[i]
      /\ t[Len(q) + 1] = x
  OBVIOUS
<1>2. \A i \in 1..Len(q) : q[i] # x
  BY <1>1 DEF ToSet
<1> HIDE DEF t
<1>3. NoRepeats(t)
  BY <1>1, <1>2 DEF NoRepeats
<1> QED BY <1>3 DEF t

\* Taking the head of distinct elements removes just that one.
LEMMA DistinctTail ==
    ASSUME NEW S, NEW q \in Seq(S), q # <<>>, NoRepeats(q)
    PROVE  NoRepeats(Tail(q)) /\ Head(q) \notin ToSet(Tail(q))
<1> DEFINE t == Tail(q)
<1>1. /\ t \in Seq(S) /\ Len(t) = Len(q) - 1 /\ Len(q) \in Nat \ {0}
      /\ \A i \in 1..Len(t) : t[i] = q[i + 1]
      /\ Head(q) = q[1]
      /\ DOMAIN t = 1..Len(t) /\ DOMAIN q = 1..Len(q)
  OBVIOUS
<1> HIDE DEF t
<1>2. NoRepeats(t)
  <2> SUFFICES ASSUME NEW i \in 1..Len(t), NEW j \in 1..Len(t), t[i] = t[j]
               PROVE  i = j
    BY DEF NoRepeats
  <2>1. i + 1 \in 1..Len(q) /\ j + 1 \in 1..Len(q) /\ q[i + 1] = q[j + 1]
    BY <1>1
  <2>2. i + 1 = j + 1
    BY <2>1 DEF NoRepeats
  <2> QED BY <2>2
<1>3. \A i \in 1..Len(t) : t[i] # Head(q)
  BY <1>1 DEF NoRepeats
<1>4. Head(q) \notin ToSet(t)
  BY <1>1, <1>3 DEF ToSet
<1> QED BY <1>2, <1>4 DEF t

\* Taking the last of distinct elements removes just that one.
LEMMA DistinctFront ==
    ASSUME NEW S, NEW q \in Seq(S), q # <<>>, NoRepeats(q)
    PROVE  /\ Front(q) \in Seq(S) /\ Last(q) \in S
           /\ ToSet(q) = ToSet(Front(q)) \cup {Last(q)}
           /\ NoRepeats(Front(q)) /\ Last(q) \notin ToSet(Front(q))
<1> DEFINE t == Front(q)
<1>1. /\ t \in Seq(S) /\ Len(t) = Len(q) - 1 /\ Len(q) \in Nat \ {0}
      /\ \A i \in 1..Len(t) : t[i] = q[i]
      /\ Last(q) = q[Len(q)] /\ Last(q) \in S
      /\ DOMAIN t = 1..Len(t) /\ DOMAIN q = 1..Len(q)
  <2>1. Len(q) \in Nat \ {0} /\ DOMAIN q = 1..Len(q)
    OBVIOUS
  <2>2. Last(q) = q[Len(q)] /\ Last(q) \in S
    BY <2>1 DEF Last
  <2>3. t = SubSeq(q, 1, Len(q) - 1)
    BY DEF Front
  <2> HIDE DEF t
  <2>4. t \in Seq(S) /\ Len(t) = Len(q) - 1
    BY <2>1, <2>3
  <2>5. \A i \in 1..Len(t) : t[i] = q[i]
    BY <2>1, <2>3, <2>4
  <2>6. DOMAIN t = 1..Len(t)
    BY <2>4
  <2> QED BY <2>1, <2>2, <2>4, <2>5, <2>6
<1> HIDE DEF t
<1>2. NoRepeats(t)
  BY <1>1 DEF NoRepeats
<1>3. \A i \in 1..Len(t) : t[i] # Last(q)
  BY <1>1 DEF NoRepeats
<1>4. Last(q) \notin ToSet(t)
  BY <1>1, <1>3 DEF ToSet
<1>5. ToSet(q) \subseteq ToSet(t) \cup {Last(q)}
  BY <1>1 DEF ToSet
<1>6. ToSet(t) \cup {Last(q)} \subseteq ToSet(q)
  BY <1>1 DEF ToSet
<1> QED BY <1>1, <1>2, <1>4, <1>5, <1>6 DEF t

\* How often something is in a queue of distinct elements.
LEMMA TimesInQueue ==
    ASSUME NEW S, NEW q \in Seq(S), NoRepeats(q), NEW x
    PROVE  Cardinality({i \in DOMAIN q : q[i] = x}) = IF x \in ToSet(q) THEN 1 ELSE 0
<1> DEFINE at == {i \in DOMAIN q : q[i] = x}
<1>1. DOMAIN q = 1..Len(q)
  OBVIOUS
<1>2. CASE x \in ToSet(q)
  <2>1. PICK i \in DOMAIN q : q[i] = x
    BY <1>2 DEF ToSet
  <2>2. at = {i}
    BY <1>1, <2>1 DEF NoRepeats
  <2> QED BY <1>2, <2>2, FS_Singleton
<1>3. CASE x \notin ToSet(q)
  <2>1. at = {}
    BY <1>3 DEF ToSet
  <2> QED BY <1>3, <2>1, FS_EmptySet
<1> QED BY <1>2, <1>3

USE SerialAssumption

-----------------------------------------------------------------------------
(* The invariant of the ports *)

\* A port is idle, or has one write, posted or under way.
PortStates ==
    \A p \in Ports :
        \/ Idle(p) /\ posted[p] = None /\ writing[p] = None
        \/ ~Idle(p) /\ posted[p] # None /\ writing[p] = None
        \/ ~Idle(p) /\ posted[p] = None /\ writing[p] # None

\* No message waits while a port is idle; no port is listed twice.
IdleList == NoRepeats(idle_port_idx_q) /\ (write_q # <<>> => idle_port_idx_q = <<>>)

\* The places of the messages on their way share nothing, with each other or with
\* what was lost, and hold a message once; no message is there that was not written.
Apart ==
    /\ NoRepeats(write_q)
    /\ \A p \in Ports : /\ NoRepeats(line[p])
                        /\ ToSet(write_q) \cap (WithPort(p) \cup OnLine(p)) = {}
    /\ \A p, r \in Ports : /\ WithPort(p) \cap OnLine(r) = {}
                           /\ p # r => /\ WithPort(p) \cap WithPort(r) = {}
                                       /\ OnLine(p) \cap OnLine(r) = {}
    /\ (failed \cup dropped) \cap InFlight = {} /\ failed \cap dropped = {}
    /\ InFlight \cup failed \cup dropped \subseteq 1..count

QInv == PortsTypeOK /\ PortStates /\ IdleList /\ Apart

-----------------------------------------------------------------------------
(* The state of the ports, as the invariant sees it *)

\* The numbers of messages, and the elements of the queues.
LEMMA PortFacts ==
    ASSUME PortsTypeOK
    PROVE  /\ count \in Nat /\ MaxMessages \in Nat /\ count <= MaxMessages
           /\ None \notin Messages /\ 1..count \subseteq Messages
           /\ ToSet(idle_port_idx_q) \subseteq Ports
           /\ ToSet(write_q) \subseteq Messages
           /\ \A p \in Ports : OnLine(p) \subseteq Messages /\ WithPort(p) \subseteq Messages
<1>1. count \in Nat /\ MaxMessages \in Nat /\ count <= MaxMessages
  BY DEF PortsTypeOK
<1>2. None \notin Messages /\ 1..count \subseteq Messages
  BY <1>1 DEF None, Messages
<1>3. ToSet(idle_port_idx_q) \subseteq Ports
  BY QueueElements DEF PortsTypeOK
<1>4. ToSet(write_q) \subseteq Messages
  BY QueueElements DEF PortsTypeOK
<1>5. ASSUME NEW p \in Ports PROVE OnLine(p) \subseteq Messages /\ WithPort(p) \subseteq Messages
  <2>1. line[p] \in Seq(Messages) /\ posted[p] \in {None} \cup Messages
        /\ writing[p] \in {None} \cup Messages
    BY DEF PortsTypeOK
  <2>2. OnLine(p) \subseteq Messages
    BY <2>1, QueueElements DEF OnLine
  <2> QED BY <2>1, <2>2 DEF WithPort
<1> QED BY <1>1, <1>2, <1>3, <1>4, <1>5

\* The message a port has.
LEMMA WithPortIs ==
    ASSUME PortStates, NEW p \in Ports
    PROVE  /\ posted[p] # None => WithPort(p) = {posted[p]} /\ writing[p] = None /\ ~Idle(p)
           /\ writing[p] # None => WithPort(p) = {writing[p]} /\ posted[p] = None /\ ~Idle(p)
           /\ Idle(p) => WithPort(p) = {} /\ posted[p] = None /\ writing[p] = None
  BY DEF PortStates, WithPort

\* What the ports and lines have is on its way.
LEMMA InFlightIs ==
    /\ ToSet(write_q) \subseteq InFlight
    /\ \A p \in Ports : WithPort(p) \subseteq InFlight /\ OnLine(p) \subseteq InFlight
    /\ \A m \in InFlight : \/ m \in ToSet(write_q)
                           \/ \E p \in Ports : m \in WithPort(p) \/ m \in OnLine(p)
  BY DEF InFlight

-----------------------------------------------------------------------------
(* Write *)

\* A message that is written is new.
LEMMA NewMessage ==
    ASSUME QInv, count < MaxMessages
    PROVE  /\ count + 1 \in Messages /\ count + 1 # None /\ count + 1 \notin 1..count
           /\ count + 1 \in 1..(count + 1) /\ 1..count \subseteq 1..(count + 1)
  BY PortFacts DEF QInv, Messages, None

\* A message that an idle port takes.
LEMMA WriteToIdleKeeps ==
    ASSUME QInv, Write, WriteToIdle
    PROVE  QInv' /\ InFlight' = InFlight \cup {count + 1} /\ dropped' = dropped
<1> DEFINE m == count + 1
<1>1. /\ count' = m /\ count < MaxMessages
      /\ UNCHANGED <<writing, line, reading, open, stopping, failed, write_q, dropped>>
      /\ idle_port_idx_q # <<>> /\ idle_port_idx_q' = Tail(idle_port_idx_q)
  BY DEF Write, WriteToIdle
<1>2. PICK h : h = Head(idle_port_idx_q)
  OBVIOUS
<1>3. /\ h \in Ports /\ Tail(idle_port_idx_q) \in Seq(Ports)
      /\ ToSet(idle_port_idx_q) = {h} \cup ToSet(Tail(idle_port_idx_q))
      /\ NoRepeats(Tail(idle_port_idx_q)) /\ h \notin ToSet(Tail(idle_port_idx_q))
  BY <1>1, <1>2, QueueTail, DistinctTail DEF QInv, PortsTypeOK, IdleList
<1>4. posted' = [posted EXCEPT ![h] = m]
  BY <1>2 DEF WriteToIdle, PostWrite
<1>5. m \in Messages /\ m # None /\ m \notin 1..count /\ m \in 1..m /\ 1..count \subseteq 1..m
  BY <1>1, NewMessage
<1> HIDE DEF m
<1>6. WithPort(h) = {} /\ posted[h] = None /\ writing[h] = None
  BY <1>3, WithPortIs DEF QInv, Idle
<1>7. /\ posted'[h] = m /\ \A p \in Ports : p # h => posted'[p] = posted[p]
      /\ posted' \in [Ports -> {None} \cup Messages]
  BY <1>3, <1>4, <1>5 DEF QInv, PortsTypeOK
<1>8. \A p \in Ports : Idle(p)' <=> Idle(p) /\ p # h
  BY <1>1, <1>3 DEF Idle
<1>9. PortsTypeOK'
  <2>1. count' \in 0..MaxMessages
    BY <1>1, PortFacts DEF QInv, m
  <2> QED BY <1>1, <1>3, <1>7, <2>1 DEF QInv, PortsTypeOK
<1>10. PortStates'
  BY <1>1, <1>5, <1>6, <1>7, <1>8 DEF QInv, PortStates
<1>11. IdleList'
  BY <1>1, <1>3 DEF QInv, IdleList
<1>12. \A p \in Ports : WithPort(p)' = IF p = h THEN {m} ELSE WithPort(p)
  BY <1>1, <1>5, <1>6, <1>7 DEF WithPort
<1>13. \A p \in Ports : OnLine(p)' = OnLine(p)
  BY <1>1 DEF OnLine
<1>14. InFlight' = InFlight \cup {m}
  BY <1>1, <1>3, <1>6, <1>12, <1>13 DEF InFlight
<1>15. m \notin InFlight \cup failed \cup dropped
  BY <1>5 DEF QInv, Apart
<1>16. \A p \in Ports : m \notin OnLine(p) /\ m \notin WithPort(p)
  BY <1>15, InFlightIs
<1>17. m \notin ToSet(write_q)
  BY <1>15, InFlightIs
<1>18. Apart'
  BY <1>1, <1>5, <1>12, <1>13, <1>14, <1>15, <1>16, <1>17 DEF QInv, Apart
<1> QED BY <1>1, <1>9, <1>10, <1>11, <1>14, <1>18 DEF QInv, m

\* What a Write drops: nothing, or the message that waited longest.
Drops(gone) ==
    /\ gone \in {{}} \cup {{f} : f \in InFlight \cup {count + 1}}
    /\ InFlight' = (InFlight \cup {count + 1}) \ gone
    /\ dropped' = dropped \cup gone

\* A message that waits, for which another may have to go.
LEMMA WriteToQueueKeeps ==
    ASSUME QInv, Write, WriteToQueue
    PROVE  QInv' /\ \E gone : Drops(gone)
<1> DEFINE m == count + 1
           q == Append(write_q, m)
           kept == IF FullQueue THEN Tail(q) ELSE q
           gone == ToSet(q) \ ToSet(kept)
<1>1. /\ count' = m /\ count < MaxMessages
      /\ UNCHANGED <<writing, line, reading, open, stopping, failed, idle_port_idx_q, posted>>
      /\ idle_port_idx_q = <<>>
  BY DEF Write, WriteToQueue
<1>2. write_q' = kept /\ dropped' = dropped \cup gone
  BY DEF WriteToQueue, DropOldest
<1>3. m \in Messages /\ m # None /\ m \notin 1..count /\ m \in 1..m /\ 1..count \subseteq 1..m
  BY <1>1, NewMessage
<1>4. m \notin InFlight \cup failed \cup dropped
  BY <1>3 DEF QInv, Apart
<1>5. /\ m \notin ToSet(write_q)
      /\ \A p \in Ports : m \notin OnLine(p) /\ m \notin WithPort(p)
  BY <1>4, InFlightIs
<1>6. write_q \in Seq(Messages) /\ NoRepeats(write_q) /\ Len(write_q) <= MaxWriteQSz
  BY DEF QInv, PortsTypeOK, Apart
<1>7. /\ q \in Seq(Messages) /\ q # <<>> /\ ToSet(q) = ToSet(write_q) \cup {m}
      /\ NoRepeats(q) /\ Len(q) = Len(write_q) + 1
  BY <1>3, <1>5, <1>6, QueueAppend, DistinctAppend
<1> HIDE DEF q, m
<1>8. /\ Tail(q) \in Seq(Messages) /\ ToSet(q) = {Head(q)} \cup ToSet(Tail(q))
      /\ NoRepeats(Tail(q)) /\ Head(q) \notin ToSet(Tail(q)) /\ Len(Tail(q)) = Len(q) - 1
  BY <1>7, QueueTail, DistinctTail
<1>9. /\ kept \in Seq(Messages) /\ NoRepeats(kept) /\ Len(kept) <= MaxWriteQSz
  <2>1. CASE FullQueue
    BY <1>6, <1>7, <1>8, <2>1
  <2>2. CASE ~FullQueue
    BY <1>6, <1>7, <2>2 DEF FullQueue
  <2> QED BY <2>1, <2>2
<1>10. /\ \/ gone = {} /\ ToSet(kept) = ToSet(q)
          \/ gone = {Head(q)} /\ ToSet(kept) = ToSet(q) \ {Head(q)}
       /\ Head(q) \in ToSet(write_q) \cup {m}
  <2>1. CASE FullQueue
    BY <1>7, <1>8, <2>1
  <2>2. CASE ~FullQueue
    BY <1>7, <1>8, <2>2
  <2> QED BY <2>1, <2>2
<1>11. /\ gone \in {{}} \cup {{f} : f \in InFlight \cup {m}}
       /\ gone \subseteq ToSet(write_q) \cup {m}
       /\ ToSet(kept) = (ToSet(write_q) \cup {m}) \ gone
  <2>1. Head(q) \in InFlight \cup {m}
    BY <1>10, InFlightIs
  <2> QED BY <1>7, <1>10, <2>1
<1> HIDE DEF kept, gone
<1>12. \A p \in Ports : WithPort(p)' = WithPort(p) /\ OnLine(p)' = OnLine(p)
  BY <1>1 DEF WithPort, OnLine
<1>13. \A p \in Ports : gone \cap (WithPort(p) \cup OnLine(p)) = {}
  BY <1>5, <1>11 DEF QInv, Apart
<1>14. InFlight' = (InFlight \cup {m}) \ gone
  <2>1. \A x : x \in InFlight' <=> \/ x \in ToSet(kept)
                                   \/ \E p \in Ports : x \in WithPort(p) \cup OnLine(p)
    BY <1>2, <1>12 DEF InFlight
  <2>2. \A x : x \in InFlight <=> \/ x \in ToSet(write_q)
                                  \/ \E p \in Ports : x \in WithPort(p) \cup OnLine(p)
    BY DEF InFlight
  <2>3. \A x : x \in InFlight' <=> x \in (InFlight \cup {m}) \ gone
    BY <1>11, <1>13, <2>1, <2>2
  <2> QED BY <2>3
<1>15. PortsTypeOK'
  <2>1. count' \in 0..MaxMessages
    BY <1>1, PortFacts DEF QInv, m
  <2>2. dropped' \subseteq Messages
    <3>1. gone \subseteq Messages
      BY <1>3, <1>11, PortFacts DEF QInv
    <3> QED BY <1>2, <3>1 DEF QInv, PortsTypeOK
  <2> QED BY <1>1, <1>2, <1>9, <2>1, <2>2 DEF QInv, PortsTypeOK
<1>16. PortStates' /\ IdleList'
  BY <1>1 DEF QInv, PortStates, IdleList, Idle
<1>17. Apart'
  <2>1. gone \cap (failed \cup dropped) = {}
    BY <1>4, <1>11, InFlightIs DEF QInv, Apart
  <2>2. InFlight' \cup failed' \cup dropped' \subseteq 1..count'
    BY <1>1, <1>2, <1>3, <1>11, <1>14 DEF QInv, Apart
  <2>3. (failed' \cup dropped') \cap InFlight' = {} /\ failed' \cap dropped' = {}
    BY <1>1, <1>2, <1>4, <1>14, <2>1 DEF QInv, Apart
  <2>4. \A p \in Ports : ToSet(write_q') \cap (WithPort(p)' \cup OnLine(p)') = {}
    BY <1>2, <1>5, <1>11, <1>12 DEF QInv, Apart
  <2> QED BY <1>1, <1>2, <1>9, <1>12, <2>2, <2>3, <2>4 DEF QInv, Apart
<1>18. Drops(gone)
  BY <1>2, <1>11, <1>14 DEF Drops, m
<1> QED BY <1>15, <1>16, <1>17, <1>18 DEF QInv

\* Write keeps the invariant.
LEMMA WriteKeeps ==
    ASSUME QInv, Write
    PROVE  QInv' /\ \E gone : Drops(gone)
<1>1. CASE WriteToIdle
  <2>1. QInv' /\ InFlight' = InFlight \cup {count + 1} /\ dropped' = dropped
    BY <1>1, WriteToIdleKeeps
  <2>2. Drops({})
    BY <2>1 DEF Drops
  <2> QED BY <2>1, <2>2
<1>2. CASE WriteToQueue
  BY <1>2, WriteToQueueKeeps
<1> QED BY <1>1, <1>2 DEF Write

-----------------------------------------------------------------------------
(* The end of a write *)

\* The port takes the next message or becomes idle: the messages that wait or are
\* with a port are the same but for the one that was written.
LEMMA TakeNextKeeps ==
    ASSUME QInv, NEW p \in Ports, writing[p] # None,
           writing' = [writing EXCEPT ![p] = None], TakeNext(p)
    PROVE  /\ idle_port_idx_q' \in Seq(Ports)
           /\ write_q' \in Seq(Messages) /\ Len(write_q') <= MaxWriteQSz
           /\ posted' \in [Ports -> {None} \cup Messages]
           /\ writing' \in [Ports -> {None} \cup Messages]
           /\ PortStates' /\ IdleList'
           /\ NoRepeats(write_q')
           /\ ToSet(write_q) = ToSet(write_q') \cup WithPort(p)'
           /\ ToSet(write_q') \cap WithPort(p)' = {}
           /\ \A r \in Ports : r # p => WithPort(r)' = WithPort(r)
<1>1. WithPort(p) = {writing[p]} /\ posted[p] = None /\ ~Idle(p)
  BY WithPortIs DEF QInv
<1>2. /\ writing' \in [Ports -> {None} \cup Messages] /\ writing'[p] = None
      /\ \A r \in Ports : r # p => writing'[r] = writing[r]
  BY DEF QInv, PortsTypeOK
<1>3. write_q \in Seq(Messages) /\ NoRepeats(write_q) /\ Len(write_q) <= MaxWriteQSz
  BY DEF QInv, PortsTypeOK, Apart
<1>4. CASE /\ write_q # <<>> /\ posted' = [posted EXCEPT ![p] = Head(write_q)]
           /\ write_q' = Tail(write_q) /\ idle_port_idx_q' = idle_port_idx_q
  <2>1. PICK h : h = Head(write_q)
    OBVIOUS
  <2>2. /\ h \in Messages /\ write_q' \in Seq(Messages) /\ ToSet(write_q) = {h} \cup ToSet(write_q')
        /\ NoRepeats(write_q') /\ h \notin ToSet(write_q') /\ Len(write_q') = Len(write_q) - 1
    BY <1>3, <1>4, <2>1, QueueTail, DistinctTail
  <2>3. /\ posted'[p] = h /\ \A r \in Ports : r # p => posted'[r] = posted[r]
        /\ posted' \in [Ports -> {None} \cup Messages]
    BY <1>4, <2>1, <2>2 DEF QInv, PortsTypeOK
  <2>4. h # None
    BY <2>2, PortFacts DEF QInv
  <2>5. WithPort(p)' = {h} /\ \A r \in Ports : r # p => WithPort(r)' = WithPort(r)
    BY <1>2, <2>3, <2>4 DEF WithPort
  <2>6. \A r \in Ports : Idle(r)' <=> Idle(r)
    BY <1>4 DEF Idle
  <2>7. PortStates'
    BY <1>1, <1>2, <2>3, <2>4, <2>6 DEF QInv, PortStates
  <2>8. IdleList'
    BY <1>4 DEF QInv, IdleList
  <2>9. Len(write_q') <= MaxWriteQSz
    BY <1>3, <2>2
  <2>10. idle_port_idx_q' \in Seq(Ports)
    BY <1>4 DEF QInv, PortsTypeOK
  <2> QED BY <1>2, <2>2, <2>3, <2>5, <2>7, <2>8, <2>9, <2>10
<1>5. CASE /\ write_q = <<>> /\ idle_port_idx_q' = Append(idle_port_idx_q, p)
           /\ UNCHANGED <<write_q, posted>>
  <2>1. /\ idle_port_idx_q' \in Seq(Ports) /\ NoRepeats(idle_port_idx_q')
        /\ ToSet(idle_port_idx_q') = ToSet(idle_port_idx_q) \cup {p}
    BY <1>1, <1>5, QueueAppend, DistinctAppend DEF QInv, PortsTypeOK, IdleList, Idle
  <2>2. \A r \in Ports : Idle(r)' <=> Idle(r) \/ r = p
    BY <2>1 DEF Idle
  <2>3. WithPort(p)' = {} /\ \A r \in Ports : r # p => WithPort(r)' = WithPort(r)
    BY <1>1, <1>2, <1>5 DEF WithPort
  <2>4. PortStates'
    BY <1>1, <1>2, <1>5, <2>2 DEF QInv, PortStates
  <2>5. IdleList'
    BY <1>5, <2>1 DEF IdleList
  <2>6. posted' \in [Ports -> {None} \cup Messages]
    BY <1>5 DEF QInv, PortsTypeOK
  <2> QED BY <1>2, <1>3, <1>5, <2>1, <2>3, <2>4, <2>5, <2>6
<1> QED BY <1>4, <1>5 DEF TakeNext, PostWrite

\* The message goes on the line.
LEMMA WriteDoneKeeps ==
    ASSUME QInv, NEW p \in Ports, WriteDone(p)
    PROVE  QInv' /\ InFlight' = InFlight
<1>1. /\ writing[p] # None /\ writing' = [writing EXCEPT ![p] = None] /\ TakeNext(p)
      /\ line' = [line EXCEPT ![p] = Append(@, writing[p])]
      /\ UNCHANGED <<reading, open, stopping, count, failed, dropped>>
  BY DEF WriteDone
<1>2. PICK m : m = writing[p]
  OBVIOUS
<1>3. WithPort(p) = {m} /\ m \in Messages
  BY <1>1, <1>2, WithPortIs, PortFacts DEF QInv
<1>4. /\ idle_port_idx_q' \in Seq(Ports)
      /\ write_q' \in Seq(Messages) /\ Len(write_q') <= MaxWriteQSz
      /\ posted' \in [Ports -> {None} \cup Messages]
      /\ writing' \in [Ports -> {None} \cup Messages]
      /\ PortStates' /\ IdleList'
      /\ NoRepeats(write_q')
      /\ ToSet(write_q) = ToSet(write_q') \cup WithPort(p)'
      /\ ToSet(write_q') \cap WithPort(p)' = {}
      /\ \A r \in Ports : r # p => WithPort(r)' = WithPort(r)
  BY <1>1, TakeNextKeeps
<1>5. line[p] \in Seq(Messages) /\ NoRepeats(line[p]) /\ m \notin OnLine(p)
  BY <1>3 DEF QInv, PortsTypeOK, Apart
<1>6. /\ Append(line[p], m) \in Seq(Messages) /\ NoRepeats(Append(line[p], m))
      /\ ToSet(Append(line[p], m)) = OnLine(p) \cup {m}
  BY <1>3, <1>5, QueueAppend, DistinctAppend DEF OnLine
<1>7. /\ line' \in [Ports -> Seq(Messages)] /\ line'[p] = Append(line[p], m)
      /\ \A r \in Ports : r # p => line'[r] = line[r]
  BY <1>1, <1>2, <1>6 DEF QInv, PortsTypeOK
<1>8. /\ OnLine(p)' = OnLine(p) \cup {m}
      /\ \A r \in Ports : r # p => OnLine(r)' = OnLine(r)
      /\ \A r \in Ports : NoRepeats(line'[r])
  BY <1>6, <1>7 DEF OnLine, QInv, Apart
<1>9. PortsTypeOK'
  BY <1>1, <1>4, <1>7 DEF QInv, PortsTypeOK
<1>10. InFlight' = InFlight
  <2>1. \A x : x \in InFlight' <=> \/ x \in ToSet(write_q')
                                   \/ \E r \in Ports : x \in WithPort(r)' \cup OnLine(r)'
    BY DEF InFlight
  <2>2. \A x : x \in InFlight <=> \/ x \in ToSet(write_q)
                                  \/ \E r \in Ports : x \in WithPort(r) \cup OnLine(r)
    BY DEF InFlight
  <2>3. \A x : x \in InFlight' <=> x \in InFlight
    BY <1>3, <1>4, <1>8, <2>1, <2>2
  <2> QED BY <2>3
<1>11. Apart'
  <2>1. m \notin ToSet(write_q) /\ \A r \in Ports : m \notin OnLine(r)
    BY <1>3 DEF QInv, Apart
  <2>2. \A r \in Ports : r # p => m \notin WithPort(r)
    BY <1>3 DEF QInv, Apart
  <2>3. \A r \in Ports : ToSet(write_q') \cap (WithPort(r)' \cup OnLine(r)') = {}
    BY <1>4, <1>8, <2>1 DEF QInv, Apart
  <2>4. \A r, s \in Ports : r # s => WithPort(r)' \cap WithPort(s)' = {}
    BY <1>4 DEF QInv, Apart
  <2>5. \A r, s \in Ports : r # s => OnLine(r)' \cap OnLine(s)' = {}
    BY <1>8, <2>1 DEF QInv, Apart
  <2>6. \A r, s \in Ports : WithPort(r)' \cap OnLine(s)' = {}
    <3>1. WithPort(p)' \subseteq ToSet(write_q)
      BY <1>4
    <3> QED BY <1>4, <1>8, <2>1, <2>2, <3>1 DEF QInv, Apart
  <2> QED BY <1>1, <1>4, <1>8, <1>10, <2>3, <2>4, <2>5, <2>6 DEF QInv, Apart
<1> QED BY <1>4, <1>9, <1>10, <1>11 DEF QInv

\* The message is lost, and with nobody any more.
LEMMA WriteFailsKeeps ==
    ASSUME QInv, NEW p \in Ports, WriteFails(p)
    PROVE  /\ QInv' /\ writing[p] \in InFlight
           /\ InFlight' = InFlight \ {writing[p]}
           /\ failed' = failed \cup {writing[p]} /\ dropped' = dropped
<1>1. /\ writing[p] # None /\ writing' = [writing EXCEPT ![p] = None] /\ TakeNext(p)
      /\ failed' = failed \cup {writing[p]}
      /\ UNCHANGED <<line, reading, open, stopping, count, dropped>>
  BY DEF WriteFails
<1>2. PICK m : m = writing[p]
  OBVIOUS
<1>3. WithPort(p) = {m} /\ m \in Messages /\ m \in InFlight
  BY <1>1, <1>2, WithPortIs, PortFacts, InFlightIs DEF QInv
<1>4. /\ idle_port_idx_q' \in Seq(Ports)
      /\ write_q' \in Seq(Messages) /\ Len(write_q') <= MaxWriteQSz
      /\ posted' \in [Ports -> {None} \cup Messages]
      /\ writing' \in [Ports -> {None} \cup Messages]
      /\ PortStates' /\ IdleList'
      /\ NoRepeats(write_q')
      /\ ToSet(write_q) = ToSet(write_q') \cup WithPort(p)'
      /\ ToSet(write_q') \cap WithPort(p)' = {}
      /\ \A r \in Ports : r # p => WithPort(r)' = WithPort(r)
  BY <1>1, TakeNextKeeps
<1>5. \A r \in Ports : OnLine(r)' = OnLine(r)
  BY <1>1 DEF OnLine
<1>6. /\ m \notin ToSet(write_q) /\ \A r \in Ports : m \notin OnLine(r)
      /\ \A r \in Ports : r # p => m \notin WithPort(r)
  BY <1>3 DEF QInv, Apart
<1>7. PortsTypeOK'
  BY <1>1, <1>2, <1>3, <1>4 DEF QInv, PortsTypeOK
<1>8. InFlight' = InFlight \ {m}
  <2>1. \A x : x \in InFlight' <=> \/ x \in ToSet(write_q')
                                   \/ \E r \in Ports : x \in WithPort(r)' \cup OnLine(r)'
    BY DEF InFlight
  <2>2. \A x : x \in InFlight <=> \/ x \in ToSet(write_q)
                                  \/ \E r \in Ports : x \in WithPort(r) \cup OnLine(r)
    BY DEF InFlight
  <2>3. \A x : x \in InFlight' <=> x \in InFlight \ {m}
    BY <1>3, <1>4, <1>5, <1>6, <2>1, <2>2
  <2> QED BY <2>3
<1>9. Apart'
  <2>1. \A r \in Ports : ToSet(write_q') \cap (WithPort(r)' \cup OnLine(r)') = {}
    BY <1>4, <1>5 DEF QInv, Apart
  <2>2. \A r, s \in Ports : r # s => WithPort(r)' \cap WithPort(s)' = {}
    BY <1>4 DEF QInv, Apart
  <2>3. \A r, s \in Ports : WithPort(r)' \cap OnLine(s)' = {}
    <3>1. WithPort(p)' \subseteq ToSet(write_q)
      BY <1>4
    <3> QED BY <1>4, <1>5, <3>1 DEF QInv, Apart
  <2>4. /\ (failed' \cup dropped') \cap InFlight' = {} /\ failed' \cap dropped' = {}
        /\ InFlight' \cup failed' \cup dropped' \subseteq 1..count'
    BY <1>1, <1>2, <1>3, <1>8 DEF QInv, Apart
  <2> QED BY <1>1, <1>4, <1>5, <2>1, <2>2, <2>3, <2>4 DEF QInv, Apart
<1> QED BY <1>1, <1>2, <1>3, <1>4, <1>7, <1>8, <1>9 DEF QInv

-----------------------------------------------------------------------------
(* The other steps *)

\* A posted write starts: the message stays with its port.
LEMMA WriteStartsKeeps ==
    ASSUME QInv, NEW p \in Ports, WriteStarts(p)
    PROVE  QInv' /\ InFlight' = InFlight
<1>1. /\ posted[p] # None /\ writing' = [writing EXCEPT ![p] = posted[p]]
      /\ posted' = [posted EXCEPT ![p] = None]
      /\ UNCHANGED <<idle_port_idx_q, write_q, line, reading, open, stopping, count, failed,
                     dropped>>
  BY DEF WriteStarts
<1>2. WithPort(p) = {posted[p]} /\ writing[p] = None /\ ~Idle(p)
  BY <1>1, WithPortIs DEF QInv
<1>3. /\ posted'[p] = None /\ writing'[p] = posted[p]
      /\ \A r \in Ports : r # p => posted'[r] = posted[r] /\ writing'[r] = writing[r]
      /\ posted' \in [Ports -> {None} \cup Messages]
      /\ writing' \in [Ports -> {None} \cup Messages]
  BY <1>1 DEF QInv, PortsTypeOK
<1>4. \A r \in Ports : WithPort(r)' = WithPort(r) /\ OnLine(r)' = OnLine(r)
  BY <1>1, <1>2, <1>3 DEF WithPort, OnLine
<1>5. InFlight' = InFlight
  BY <1>1, <1>4 DEF InFlight
<1>6. PortsTypeOK'
  BY <1>1, <1>3 DEF QInv, PortsTypeOK
<1>7. \A r \in Ports : Idle(r)' <=> Idle(r)
  BY <1>1 DEF Idle
<1>8. PortStates'
  BY <1>1, <1>2, <1>3, <1>7 DEF QInv, PortStates
<1>9. IdleList'
  BY <1>1 DEF QInv, IdleList
<1>10. Apart'
  BY <1>1, <1>4, <1>5 DEF QInv, Apart
<1> QED BY <1>5, <1>6, <1>8, <1>9, <1>10 DEF QInv

\* A message leaves a line, at either end of it, and may count as lost then.
LEMMA LineKeeps ==
    ASSUME QInv, NEW p \in Ports, NEW m, NEW q \in Seq(Messages),
           ToSet(line[p]) = ToSet(q) \cup {m}, m \notin ToSet(q), NoRepeats(q),
           line' = [line EXCEPT ![p] = q], failed' \in {failed, failed \cup {m}},
           UNCHANGED <<writers, reading, open, stopping, count, dropped>>
    PROVE  QInv' /\ m \in InFlight /\ InFlight' = InFlight \ {m}
<1>1. UNCHANGED <<idle_port_idx_q, write_q, posted, writing>>
  BY DEF writers
<1>2. /\ line' \in [Ports -> Seq(Messages)] /\ line'[p] = q
      /\ \A r \in Ports : r # p => line'[r] = line[r]
  BY DEF QInv, PortsTypeOK
<1>3. /\ OnLine(p) = OnLine(p)' \cup {m} /\ m \notin OnLine(p)'
      /\ \A r \in Ports : r # p => OnLine(r)' = OnLine(r)
      /\ \A r \in Ports : WithPort(r)' = WithPort(r)
      /\ \A r \in Ports : NoRepeats(line'[r])
  BY <1>1, <1>2 DEF OnLine, WithPort, QInv, Apart
<1>4. /\ m \notin ToSet(write_q) /\ \A r \in Ports : m \notin WithPort(r)
      /\ \A r \in Ports : r # p => m \notin OnLine(r)
  BY <1>3 DEF QInv, Apart
<1>5. m \in Messages /\ m \in InFlight
  BY <1>3, PortFacts, InFlightIs DEF QInv
<1>6. InFlight' = InFlight \ {m}
  <2>1. \A x : x \in InFlight' <=> \/ x \in ToSet(write_q')
                                   \/ \E r \in Ports : x \in WithPort(r)' \cup OnLine(r)'
    BY DEF InFlight
  <2>2. \A x : x \in InFlight <=> \/ x \in ToSet(write_q)
                                  \/ \E r \in Ports : x \in WithPort(r) \cup OnLine(r)
    BY DEF InFlight
  <2>3. \A x : x \in InFlight' <=> x \in InFlight \ {m}
    BY <1>1, <1>3, <1>4, <2>1, <2>2
  <2> QED BY <2>3
<1>7. PortsTypeOK'
  BY <1>1, <1>2, <1>5 DEF QInv, PortsTypeOK
<1>8. PortStates' /\ IdleList'
  BY <1>1 DEF QInv, PortStates, IdleList, Idle
<1>9. Apart'
  <2>1. \A r \in Ports : ToSet(write_q') \cap (WithPort(r)' \cup OnLine(r)') = {}
    BY <1>1, <1>3 DEF QInv, Apart
  <2>2. \A r, s \in Ports : /\ WithPort(r)' \cap OnLine(s)' = {}
                            /\ r # s => /\ WithPort(r)' \cap WithPort(s)' = {}
                                        /\ OnLine(r)' \cap OnLine(s)' = {}
    BY <1>3 DEF QInv, Apart
  <2>3. /\ (failed' \cup dropped') \cap InFlight' = {} /\ failed' \cap dropped' = {}
        /\ InFlight' \cup failed' \cup dropped' \subseteq 1..count'
    BY <1>5, <1>6 DEF QInv, Apart
  <2> QED BY <1>1, <1>3, <2>1, <2>2, <2>3 DEF QInv, Apart
<1> QED BY <1>5, <1>6, <1>7, <1>8, <1>9 DEF QInv

\* A message is read.
LEMMA ReadDoneKeeps ==
    ASSUME QInv, NEW p \in Ports, ReadDone(p)
    PROVE  /\ QInv' /\ Head(line[p]) \in InFlight
           /\ InFlight' = InFlight \ {Head(line[p])}
<1>1. /\ line[p] # <<>> /\ line' = [line EXCEPT ![p] = Tail(line[p])]
      /\ UNCHANGED <<writers, reading, open, stopping, count, failed, dropped>>
  BY DEF ReadDone
<1>2. line[p] \in Seq(Messages) /\ NoRepeats(line[p])
  BY DEF QInv, PortsTypeOK, Apart
<1>3. /\ Tail(line[p]) \in Seq(Messages) /\ NoRepeats(Tail(line[p]))
      /\ ToSet(line[p]) = ToSet(Tail(line[p])) \cup {Head(line[p])}
      /\ Head(line[p]) \notin ToSet(Tail(line[p]))
  BY <1>1, <1>2, QueueTail, DistinctTail
<1>4. PICK m, q : m = Head(line[p]) /\ q = Tail(line[p])
  OBVIOUS
<1> QED BY <1>1, <1>3, <1>4, LineKeeps

\* Noise spoils a message.
LEMMA NoiseKeeps ==
    ASSUME QInv, NEW p \in Ports, Noise(p)
    PROVE  /\ QInv' /\ Last(line[p]) \in InFlight
           /\ InFlight' = InFlight \ {Last(line[p])}
           /\ failed' = failed \cup {Last(line[p])} /\ dropped' = dropped
<1>1. /\ line[p] # <<>> /\ line' = [line EXCEPT ![p] = Front(line[p])]
      /\ failed' = failed \cup {Last(line[p])}
      /\ UNCHANGED <<writers, reading, open, stopping, count, dropped>>
  BY DEF Noise
<1>2. line[p] \in Seq(Messages) /\ NoRepeats(line[p])
  BY DEF QInv, PortsTypeOK, Apart
<1>3. /\ Front(line[p]) \in Seq(Messages) /\ NoRepeats(Front(line[p]))
      /\ ToSet(line[p]) = ToSet(Front(line[p])) \cup {Last(line[p])}
      /\ Last(line[p]) \notin ToSet(Front(line[p]))
  BY <1>1, <1>2, DistinctFront
<1>4. PICK m, q : m = Last(line[p]) /\ q = Front(line[p])
  OBVIOUS
<1> QED BY <1>1, <1>3, <1>4, LineKeeps

\* What concerns neither a message nor the list of idle ports.
LEMMA QuietKeeps ==
    ASSUME QInv, UNCHANGED <<writers, line, count, failed, dropped>>,
           reading' \in [Ports -> {"none", "posted", "reading", "failed"}],
           open' \subseteq Ends \X Ports, stopping' \subseteq Ends \X Ports
    PROVE  QInv' /\ InFlight' = InFlight
<1>1. UNCHANGED <<idle_port_idx_q, write_q, posted, writing, line, count, failed, dropped>>
  BY DEF writers
<1>2. \A r \in Ports : WithPort(r)' = WithPort(r) /\ OnLine(r)' = OnLine(r)
  BY <1>1 DEF WithPort, OnLine
<1>3. InFlight' = InFlight
  BY <1>1, <1>2 DEF InFlight
<1>4. PortsTypeOK'
  BY <1>1 DEF QInv, PortsTypeOK
<1>5. PortStates' /\ IdleList'
  BY <1>1 DEF QInv, PortStates, IdleList, Idle
<1>6. Apart'
  BY <1>1, <1>2, <1>3 DEF QInv, Apart
<1> QED BY <1>3, <1>4, <1>5, <1>6 DEF QInv

\* The steps of a port or of an end as a whole that move no message.
Housekeeping ==
    \/ Start
    \/ \E p \in Ports : ReadStarts(p) \/ ReadFails(p)
    \/ \E e \in Ends : Stop(e) \/ \E p \in Ports : Close(e, p)

\* They change the state of the read loops and the ports only.
LEMMA HousekeepingKeeps ==
    ASSUME QInv, Housekeeping
    PROVE  QInv' /\ InFlight' = InFlight /\ UNCHANGED <<count, failed, dropped>>
<1>1. /\ reading \in [Ports -> {"none", "posted", "reading", "failed"}]
      /\ open \subseteq Ends \X Ports /\ stopping \subseteq Ends \X Ports
  BY DEF QInv, PortsTypeOK
<1>2. /\ UNCHANGED <<writers, line, count, failed, dropped>>
      /\ reading' \in [Ports -> {"none", "posted", "reading", "failed"}]
      /\ open' \subseteq Ends \X Ports /\ stopping' \subseteq Ends \X Ports
  <2>1. CASE Start
    BY <1>1, <2>1 DEF Start
  <2>2. CASE \E p \in Ports : ReadStarts(p) \/ ReadFails(p)
    BY <1>1, <2>2 DEF ReadStarts, ReadFails
  <2>3. ASSUME NEW e \in Ends, Stop(e)
        PROVE  /\ UNCHANGED <<writers, line, count, failed, dropped, reading, open>>
               /\ stopping' \subseteq Ends \X Ports
    BY <1>1, <2>3 DEF Stop
  <2>4. ASSUME NEW e \in Ends, NEW p \in Ports, Close(e, p)
        PROVE  /\ UNCHANGED <<writers, line, count, failed, dropped, reading>>
               /\ open' \subseteq Ends \X Ports /\ stopping' \subseteq Ends \X Ports
    BY <1>1, <2>4 DEF Close
  <2> QED BY <1>1, <2>1, <2>2, <2>3, <2>4 DEF Housekeeping
<1> QED BY <1>2, QuietKeeps

\* In the beginning nothing was written and every port is idle.
LEMMA QInvInit ==
    ASSUME PortsInit
    PROVE  QInv /\ InFlight = {}
<1>1. /\ idle_port_idx_q = [p \in Ports |-> p] /\ write_q = <<>>
      /\ posted = [p \in Ports |-> None] /\ writing = [p \in Ports |-> None]
      /\ line = [p \in Ports |-> <<>>] /\ reading = [p \in Ports |-> "none"]
      /\ open = Ends \X Ports /\ stopping = {} /\ count = 0 /\ failed = {} /\ dropped = {}
  BY DEF PortsInit
<1>2. /\ idle_port_idx_q \in Seq(Ports) /\ Len(idle_port_idx_q) = num_ports
      /\ DOMAIN idle_port_idx_q = Ports
      /\ \A p \in Ports : idle_port_idx_q[p] = p
  BY <1>1 DEF Ports
<1>3. NoRepeats(idle_port_idx_q) /\ ToSet(idle_port_idx_q) = Ports
  BY <1>2 DEF NoRepeats, ToSet, Ports
<1>4. write_q \in Seq(Messages) /\ Len(write_q) = 0 /\ ToSet(write_q) = {} /\ NoRepeats(write_q)
  BY <1>1 DEF NoRepeats, ToSet
<1>5. \A p \in Ports : /\ line[p] \in Seq(Messages) /\ OnLine(p) = {} /\ NoRepeats(line[p])
                       /\ WithPort(p) = {}
  BY <1>1 DEF OnLine, WithPort, NoRepeats, ToSet
<1>6. InFlight = {}
  BY <1>4, <1>5 DEF InFlight
<1>7. PortsTypeOK
  <2>1. line \in [Ports -> Seq(Messages)]
    BY <1>1, <1>5
  <2>2. count \in 0..MaxMessages /\ Len(write_q) <= MaxWriteQSz
    BY <1>1, <1>4
  <2> QED BY <1>1, <1>2, <1>4, <2>1, <2>2 DEF PortsTypeOK
<1>8. PortStates /\ IdleList
  BY <1>1, <1>3 DEF PortStates, IdleList, Idle
<1>9. Apart
  BY <1>1, <1>4, <1>5, <1>6 DEF Apart
<1> QED BY <1>6, <1>7, <1>8, <1>9 DEF QInv

\* Every step of the ports keeps the invariant.
LEMMA QInvStep == QInv /\ [PortsNext]_portVars => QInv'
<1> SUFFICES ASSUME QInv, [PortsNext]_portVars PROVE QInv'
  OBVIOUS
<1>1. CASE Write
  BY <1>1, WriteKeeps
<1>2. ASSUME NEW p \in Ports, WriteStarts(p) PROVE QInv'
  BY <1>2, WriteStartsKeeps
<1>3. ASSUME NEW p \in Ports, WriteDone(p) PROVE QInv'
  BY <1>3, WriteDoneKeeps
<1>4. ASSUME NEW p \in Ports, WriteFails(p) PROVE QInv'
  BY <1>4, WriteFailsKeeps
<1>5. ASSUME NEW p \in Ports, Noise(p) PROVE QInv'
  BY <1>5, NoiseKeeps
<1>6. ASSUME NEW p \in Ports, ReadDone(p) PROVE QInv'
  BY <1>6, ReadDoneKeeps
<1>7. CASE Housekeeping
  BY <1>7, HousekeepingKeeps
<1>8. CASE UNCHANGED portVars
  BY <1>8, QuietKeeps DEF portVars, QInv, PortsTypeOK
<1> QED BY <1>1, <1>2, <1>3, <1>4, <1>5, <1>6, <1>7, <1>8 DEF PortsNext, Housekeeping

\* The invariant says of the ports what PortsAccountedFor does.
LEMMA QInvEnough == QInv => PortsAccountedFor
<1> SUFFICES ASSUME QInv PROVE PortsAccountedFor
  OBVIOUS
<1>1. idle_port_idx_q \in Seq(Ports) /\ NoRepeats(idle_port_idx_q)
  BY DEF QInv, PortsTypeOK, IdleList
<1>2. IsInjective(idle_port_idx_q)
  BY <1>1 DEF IsInjective, NoRepeats
<1> QED BY <1>2 DEF QInv, PortStates, IdleList, PortsAccountedFor

-----------------------------------------------------------------------------
(* The ports by themselves *)

\* SerialPortsManager never forgets a port, starts no write on a port while another
\* one is in progress there, leaves no message waiting while a port is idle and
\* keeps the queue to its limit (Write, Write(pBuf, idx) and the completion handler
\* of async_write, in any order on the strands).
THEOREM PortsNeverForgotten == PortsSpec => []PortsAccountedFor
<1>1. PortsInit => QInv
  BY QInvInit
<1>2. PortsSpec => []QInv
  BY <1>1, QInvStep, PTL DEF PortsSpec
<1> QED BY <1>2, QInvEnough, PTL

-----------------------------------------------------------------------------
(* The ports as part of the link *)

\* What every step of the link is to the ports.
LEMMA LinkStepIsPortsStep == [Next]_vars => [PortsNext]_portVars
<1> SUFFICES ASSUME [Next]_vars PROVE PortsNext \/ UNCHANGED portVars
  OBVIOUS
<1>1. CASE Received \/ BufferReturns \/ Tick
  BY <1>1 DEF Received, BufferReturns, Tick
<1>2. CASE RcvUDPHandler
  BY <1>2 DEF RcvUDPHandler, PortsNext
<1>3. CASE PortStep
  <2>1. CASE Lifecycle
    BY <2>1 DEF Lifecycle, StopOne, PortsNext
  <2>2. CASE \E p \in Ports : Quiet(p) \/ Loses(p) \/ FailsClosed(p)
    BY <2>2 DEF Quiet, Loses, FailsClosed, PortsNext
  <2> QED BY <1>3, <2>1, <2>2 DEF PortStep
<1>4. CASE \E p \in Ports : ReadHandler(p)
  BY <1>4 DEF ReadHandler, PortsNext
<1>5. CASE UNCHANGED vars
  BY <1>5 DEF vars
<1> QED BY <1>1, <1>2, <1>3, <1>4, <1>5 DEF Next

\* The invariant of the ports holds in the link.
LEMMA QInvInLink == Spec => []QInv
<1>1. Init => QInv
  BY QInvInit DEF Init
<1>2. QInv /\ [Next]_vars => QInv'
  BY QInvStep, LinkStepIsPortsStep
<1> QED BY <1>1, <1>2, PTL DEF Spec

\* The ports are accounted for also when two ProtoConvs use them as a link.
THEOREM LinkPortsAccountedFor == Spec => []PortsAccountedFor
  BY QInvInLink, QInvEnough, PTL

-----------------------------------------------------------------------------
(* The link implements the stream that DelimFragHandler assumes *)

\* The instance counts as this module does.
LEMMA SameCardinality == \A S : D!Cardinality(S) = Cardinality(S)
  BY DEF D!Cardinality, Cardinality

\* There is room in the abstract stream: what is on its way, or lost, was written.
LEMMA StreamHasRoom ==
    ASSUME QInv
    PROVE  /\ Cardinality(InFlight) \in Nat /\ Cardinality(InFlight) <= count
           /\ Cardinality(failed \cup dropped) \in Nat
           /\ Cardinality(failed \cup dropped) <= count
           /\ InFlight # {} => Cardinality(failed \cup dropped) < count
<1>1. InFlight \subseteq 1..count /\ failed \cup dropped \subseteq (1..count) \ InFlight
  BY DEF QInv, Apart
<1>2. count \in Nat
  BY PortFacts DEF QInv
<1>3. IsFiniteSet(1..count) /\ Cardinality(1..count) = count
  <2>1. /\ IsFiniteSet(1..count)
        /\ Cardinality(1..count) = IF 1 > count THEN 0 ELSE count - 1 + 1
    <3>1. 1 \in Int /\ count \in Int
      BY <1>2
    <3> QED BY <3>1, FS_Interval
  <2> QED BY <1>2, <2>1
<1>4. IsFiniteSet(InFlight) /\ Cardinality(InFlight) <= count
  BY <1>1, <1>3, FS_Subset
<1>5. IsFiniteSet(failed \cup dropped) /\ Cardinality(failed \cup dropped) <= count
  BY <1>1, <1>3, FS_Subset
<1>6. InFlight # {} => failed \cup dropped # 1..count
  BY <1>1
<1>7. Cardinality(InFlight) \in Nat /\ Cardinality(failed \cup dropped) \in Nat
  BY <1>4, <1>5, FS_CardinalityType
<1>8. InFlight # {} => Cardinality(failed \cup dropped) < count
  <2>1. Cardinality(1..count) = Cardinality(failed \cup dropped) => 1..count = failed \cup dropped
    BY <1>1, <1>3, FS_Subset
  <2> QED BY <1>2, <1>3, <1>5, <1>6, <1>7, <2>1
<1> QED BY <1>4, <1>5, <1>7, <1>8

\* The link starts as the stream does.
LEMMA LinkInit == Init => D!Init
<1> SUFFICES ASSUME Init PROVE D!Init
  OBVIOUS
<1>1. InFlight = {} /\ failed \cup dropped = {} /\ count = 0
  BY QInvInit DEF Init, PortsInit
<1>2. 0 % SeqSize = 0 /\ (0 - 1) % SeqSize = SeqSize - 1
  BY LinkAssumption
<1> QED BY <1>1, <1>2 DEF Init, D!Init

\* A message that is written is a frame that is sent; one that waited may go for it.
LEMMA LinkSends ==
    ASSUME QInv, RcvUDPHandler
    PROVE  D!Next
<1>1. PICK gone : Drops(gone)
  BY WriteKeeps DEF RcvUDPHandler
<1>2. /\ count < MaxMessages /\ count' = count + 1 /\ failed' = failed
      /\ number' = Append(number, DelimSeq) /\ DelimSeq' = (DelimSeq + 1) % SeqSize
      /\ UNCHANGED <<frame_q, expected_seq, last_top_seq, top_latency, written, early>>
  BY DEF RcvUDPHandler, Write, handler
<1>3. /\ Cardinality(InFlight) < MaxMessages /\ Cardinality(failed \cup dropped) < MaxMessages
      /\ count < 0 + MaxMessages
  BY <1>2, StreamHasRoom, PortFacts DEF QInv
<1>4. (failed \cup dropped)' = (failed \cup dropped) \cup gone
  BY <1>1, <1>2 DEF Drops
<1>5. D!AddDelim(gone)
  BY <1>1, <1>2, <1>3, <1>4, SameCardinality DEF Drops, D!AddDelim, D!receiver
<1> QED BY <1>1, <1>5 DEF Drops, D!Next

\* A message that is read is a frame that arrives, however many it overtook.
LEMMA LinkDelivers ==
    ASSUME QInv, NEW p \in Ports, ReadHandler(p)
    PROVE  D!Next
<1>1. PICK m : m = Head(line[p])
  OBVIOUS
<1>2. m \in InFlight /\ InFlight' = InFlight \ {m}
  BY <1>1, ReadDoneKeeps DEF ReadHandler
<1>3. \A g \in InFlight : g \in 1..MaxMessages
  BY PortFacts DEF QInv, Apart, Messages
<1>4. \A g \in InFlight : m <= g + MaxMessages
  BY <1>2, <1>3
<1>5. UNCHANGED <<count, failed, dropped, DelimSeq, number>>
  BY DEF ReadHandler, ReadDone, sender
<1>6. D!HandleFrame(m)
  BY <1>1, <1>2, <1>4, <1>5 DEF ReadHandler, D!HandleFrame, D!sender
<1> QED BY <1>2, <1>6 DEF D!Next

\* A message that fails is a frame that is lost.
LEMMA LinkLoses ==
    ASSUME QInv, NEW p \in Ports, WriteFails(p) \/ Noise(p), UNCHANGED <<udp, sender, handler>>
    PROVE  D!Next
<1>1. PICK m : /\ m \in InFlight /\ InFlight' = InFlight \ {m}
               /\ failed' = failed \cup {m} /\ dropped' = dropped
  BY WriteFailsKeeps, NoiseKeeps
<1>2. Cardinality(failed \cup dropped) < MaxMessages
  BY <1>1, StreamHasRoom, PortFacts DEF QInv
<1>3. UNCHANGED <<count, DelimSeq, number, frame_q, expected_seq, last_top_seq, top_latency,
                  written, early>>
  BY DEF WriteFails, Noise, sender, handler
<1>4. (failed \cup dropped)' = (failed \cup dropped) \cup {m}
  BY <1>1
<1>5. D!Lose(m)
  BY <1>1, <1>2, <1>3, <1>4, SameCardinality DEF D!Lose, D!sender, D!receiver
<1> QED BY <1>1, <1>5 DEF D!Next

\* What else happens to the ports changes nothing of the stream.
LEMMA LinkStutters ==
    ASSUME InFlight' = InFlight, UNCHANGED <<count, failed, dropped, sender, handler>>
    PROVE  UNCHANGED D!vars
  BY DEF sender, handler, D!vars, D!sender, D!receiver

\* Every step of the link is one of the stream and the handler, or none.
LEMMA LinkStep == QInv /\ [Next]_vars => [D!Next]_D!vars
<1> SUFFICES ASSUME QInv, [Next]_vars PROVE D!Next \/ UNCHANGED D!vars
  OBVIOUS
<1>1. ASSUME UNCHANGED portVars
      PROVE  InFlight' = InFlight /\ UNCHANGED <<count, failed, dropped>>
  BY <1>1, QuietKeeps DEF portVars, QInv, PortsTypeOK
<1>2. CASE Received \/ BufferReturns
  <2>1. UNCHANGED portVars /\ UNCHANGED <<sender, handler>>
    BY <1>2 DEF Received, BufferReturns
  <2> QED BY <1>1, <2>1, LinkStutters
<1>3. CASE RcvUDPHandler
  BY <1>3, LinkSends
<1>4. CASE PortStep
  <2>1. UNCHANGED <<udp, sender, handler>>
    BY <1>4 DEF PortStep
  <2>2. CASE Housekeeping
    BY <2>1, <2>2, HousekeepingKeeps, LinkStutters
  <2>3. ASSUME NEW p \in Ports, WriteStarts(p) PROVE UNCHANGED D!vars
    <3>1. UNCHANGED <<count, failed, dropped>>
      BY <2>3 DEF WriteStarts
    <3> QED BY <2>1, <2>3, <3>1, WriteStartsKeeps, LinkStutters
  <2>4. ASSUME NEW p \in Ports, WriteDone(p) PROVE UNCHANGED D!vars
    <3>1. UNCHANGED <<count, failed, dropped>>
      BY <2>4 DEF WriteDone
    <3> QED BY <2>1, <2>4, <3>1, WriteDoneKeeps, LinkStutters
  <2>5. ASSUME NEW p \in Ports, WriteFails(p) \/ Noise(p) PROVE D!Next
    BY <2>1, <2>5, LinkLoses
  <2>6. \/ Housekeeping
        \/ \E p \in Ports : \/ WriteStarts(p) \/ WriteDone(p)
                            \/ WriteFails(p) \/ Noise(p)
    BY <1>4 DEF PortStep, Lifecycle, StopOne, Quiet, Loses, FailsClosed, Housekeeping
  <2> QED BY <2>2, <2>3, <2>4, <2>5, <2>6
<1>5. ASSUME NEW p \in Ports, ReadHandler(p) PROVE D!Next
  BY <1>5, LinkDelivers
<1>6. CASE Tick
  <2>1. InFlight' = InFlight /\ UNCHANGED <<count, failed, dropped, DelimSeq, number>>
    BY <1>1, <1>6 DEF Tick, sender
  <2>2. D!Tick
    BY <1>6, <2>1 DEF Tick, D!Tick, D!sender
  <2> QED BY <2>2 DEF D!Next
<1>7. CASE UNCHANGED vars
  BY <1>1, <1>7, LinkStutters DEF vars
<1> QED BY <1>2, <1>3, <1>4, <1>5, <1>6, <1>7 DEF Next

\* Two ProtoConvs joined by serial ports are, to the far end's DelimFragHandler, a
\* stream that overtakes and loses frames and nothing else: none is duplicated,
\* none appears that was not sent, and the sequence numbers are those of AddDelim.
THEOREM LinkIsStream == Spec => LinkImplements
<1>1. Spec => []QInv
  BY QInvInLink
<1> QED BY <1>1, LinkInit, LinkStep, PTL DEF Spec, LinkImplements, D!Spec

-----------------------------------------------------------------------------
(* What is proved of the framing holds for the link *)

\* The proofs about the framing, for the stream that the link is.
DP == INSTANCE DelimFragHandlerProofs WITH
        inFlight <- InFlight, lost <- failed \cup dropped, sent <- count, first <- 0,
        channel <- [reorder |-> MaxMessages, delay |-> MaxDelay],
        restarts <- 0, ambiguous <- FALSE,
        FirstFrames <- {0}, MaxFrames <- MaxMessages, MaxInFlight <- MaxMessages,
        MaxLost <- MaxMessages, Reorders <- {MaxMessages}, Delays <- {MaxDelay},
        MaxRestarts <- 0

\* The constants of the link are as the framing assumes.
LEMMA FramingAssumptions ==
    /\ SeqSize \in Nat /\ SeqSize > 2
    /\ {SeqMaxQ, SeqMaxT, MaxMessages, MaxMessages, MaxMessages, 0}
         \cup {0} \cup {MaxMessages} \cup {MaxDelay} \subseteq Nat
  BY LinkAssumption

\* D and DP are instances of the same definitions.
LEMMA SameTops == \A q : DP!Tops(q) = D!Tops(q)
  BY DEF DP!Tops, D!Tops, DP!FrameCmp, D!FrameCmp, DP!seq, D!seq, DP!Half, D!Half
\* The same for the smaller ones.
LEMMA SameHelpers ==
    /\ \A f : DP!seq(f) = D!seq(f)
    /\ \A S : DP!Cardinality(S) = D!Cardinality(S)
    /\ \A q, run : DP!Remaining(q, run) = D!Remaining(q, run)
  BY DEF DP!seq, D!seq, DP!Cardinality, D!Cardinality, DP!Remaining, D!Remaining
\* The same for the reasons to give up.
LEMMA SameGiveUp ==
    ASSUME NEW q, NEW latency
    PROVE  DP!GiveUp(q, latency) <=> D!GiveUp(q, latency)
  BY SameHelpers DEF DP!GiveUp, D!GiveUp, DP!TooMany, D!TooMany
\* The same for what the loop writes.
LEMMA SameRun ==
    ASSUME NEW q, NEW top, NEW e, NEW run
    PROVE  D!IsRun(q, top, e, run) => DP!IsRun(q, top, e, run)
  BY SameHelpers, SameTops DEF DP!IsRun, D!IsRun
\* The same for HandleFrame's task.
LEMMA SameHandle ==
    ASSUME NEW f, NEW onTheWay, D!Handle(f, onTheWay)
    PROVE  DP!Handle(f, onTheWay)
<1> DEFINE q == frame_q \cup {f}
           latency(top) == IF D!seq(top) # last_top_seq THEN 0 ELSE top_latency
           e(top) == IF D!seq(top) # expected_seq /\ D!GiveUp(q, latency(top))
                     THEN D!seq(top) ELSE expected_seq
<1>1. PICK top \in D!Tops(q), run \in UNION {[1..n -> q] : n \in 0..D!Cardinality(q)} :
         /\ D!IsRun(q, top, e(top), run)
         /\ last_top_seq' = D!seq(top)
         /\ top_latency' = latency(top)
         /\ written' = written \o run
         /\ frame_q' = D!Remaining(q, run)
         /\ expected_seq' = (e(top) + Len(run)) % SeqSize
         /\ early' = (early \/ (e(top) # expected_seq /\ \E g \in onTheWay : g < top))
  BY DEF D!Handle
<1>2. DP!seq(top) = D!seq(top) /\ (DP!GiveUp(q, latency(top)) <=> D!GiveUp(q, latency(top)))
  BY SameHelpers, SameGiveUp
<1>3. DP!IsRun(q, top, e(top), run)
  BY <1>1, SameRun
<1> QED BY <1>1, <1>2, <1>3, SameTops, SameHelpers DEF DP!Handle

\* A step of the stream is a step of the stream.
LEMMA SameStep == [D!Next]_D!vars => [DP!Next]_DP!vars
<1> SUFFICES ASSUME [D!Next]_D!vars PROVE DP!Next \/ UNCHANGED DP!vars
  OBVIOUS
<1>1. ASSUME NEW gone \in {{}} \cup {{f} : f \in InFlight \cup {count + 1}}, D!AddDelim(gone)
      PROVE  DP!Next
  <2>1. DP!AddDelim(gone)
    BY <1>1, SameHelpers DEF D!AddDelim, DP!AddDelim, D!receiver, DP!receiver
  <2> QED BY <2>1 DEF DP!Next
<1>2. ASSUME D!Tick PROVE DP!Next
  <2>1. DP!Tick
    BY <1>2 DEF D!Tick, DP!Tick, D!Later, DP!Later, D!sender, DP!sender
  <2> QED BY <2>1 DEF DP!Next
<1>3. ASSUME NEW f \in InFlight, D!HandleFrame(f) PROVE DP!Next
  <2>1. PICK onTheWay : onTheWay = InFlight'
    OBVIOUS
  <2>2. DP!Handle(f, InFlight')
    BY <1>3, <2>1, SameHandle DEF D!HandleFrame
  <2>3. DP!HandleFrame(f)
    BY <1>3, <2>2 DEF D!HandleFrame, DP!HandleFrame, D!sender, DP!sender
  <2> QED BY <2>3 DEF DP!Next
<1>4. ASSUME NEW f \in InFlight, D!Lose(f) PROVE DP!Next
  <2>1. DP!Lose(f)
    BY <1>4, SameHelpers DEF D!Lose, DP!Lose, D!sender, DP!sender, D!receiver, DP!receiver
  <2> QED BY <2>1 DEF DP!Next
<1>5. ~D!ReceiverRestarts /\ \A gone \in SUBSET InFlight : ~D!SenderRestarts(gone)
  BY DEF D!ReceiverRestarts, D!SenderRestarts
<1>6. ASSUME UNCHANGED D!vars PROVE UNCHANGED DP!vars
  BY <1>6 DEF D!vars, DP!vars, D!sender, DP!sender, D!receiver, DP!receiver
<1> QED BY <1>1, <1>2, <1>3, <1>4, <1>5, <1>6 DEF D!Next

\* Every message is on its way, lost, held or written, and nowhere twice.
LEMMA FInvInLink == Spec => []DP!FInv
<1>1. DP!Init => DP!FInv
  BY FramingAssumptions, DP!FInvInit
<1>2. DP!FInv /\ [DP!Next]_DP!vars => DP!FInv'
  BY FramingAssumptions, DP!FInvStep
<1>3. Init => DP!Init
  BY LinkInit DEF D!Init, DP!Init
<1>4. Init => DP!FInv
  BY <1>1, <1>3
<1>5. QInv /\ DP!FInv /\ [Next]_vars => DP!FInv'
  BY <1>2, LinkStep, SameStep
<1> QED BY <1>4, <1>5, QInvInLink, PTL DEF Spec

\* The messages that the far end writes are in the order in which the near end received
\* them, unless a wait was given up while the frame was on its way; and if none is
\* dropped or fails, none is skipped.
LinkInOrder ==
    ~early => /\ \A i, j \in DOMAIN written : i < j => written[i] < written[j]
              /\ failed \cup dropped = {} => \A i \in DOMAIN written : written[i] = i

\* The message after the last one written.
LinkDue == IF written = <<>> THEN 1 ELSE written[Len(written)] + 1

\* No message on its way or held is half the sequence numbers (2^31) ahead of that one.
WindowKept == \A m \in InFlight \cup frame_q : m - LinkDue < (SeqSize - 1) \div 2

\* Messages that share several serial ports are written in order at the far end, however
\* many are sent and lost and however often the sequence numbers wrap, as long as
\* those on their way or held are never half the sequence numbers ahead of the last one
\* written.
THEOREM LinkWritesInOrder == Spec /\ []WindowKept => []LinkInOrder
<1>1. WindowKept => DP!Close
  BY DEF WindowKept, LinkDue, DP!Close, DP!Live, DP!Due, DP!Half
<1>2. DP!Init => DP!InTurn
  BY FramingAssumptions, DP!InTurnInit
<1>3. DP!FInv /\ DP!Close /\ DP!InTurn /\ [DP!Next]_DP!vars => DP!InTurn'
  BY FramingAssumptions, DP!InTurnStep
<1>4. DP!FInv /\ DP!Close /\ DP!InTurn => DP!WrittenInOrder
  BY FramingAssumptions, DP!InTurnOrders
<1>5. ASSUME DP!FInv, DP!WrittenInOrder PROVE LinkInOrder
  <2>1. written \in Seq(DP!Sent)
    BY <1>5 DEF DP!FInv, DP!TypeOK
  <2>2. \A i \in DOMAIN written : 0 + i = i
    BY <2>1
  <2>3. ~early => /\ \A i, j \in DOMAIN written : i < j => written[i] < written[j]
                  /\ failed \cup dropped = {} => \A i \in DOMAIN written : written[i] = 0 + i
    BY <1>5 DEF DP!WrittenInOrder
  <2> QED BY <2>2, <2>3 DEF LinkInOrder
<1>6. Init => DP!InTurn
  BY <1>2, LinkInit DEF D!Init, DP!Init
<1>7. QInv /\ DP!FInv /\ WindowKept /\ DP!InTurn /\ [Next]_vars => DP!InTurn'
  BY <1>1, <1>3, LinkStep, SameStep
<1>8. DP!FInv /\ WindowKept /\ DP!InTurn => LinkInOrder
  BY <1>1, <1>4, <1>5
<1> QED BY <1>6, <1>7, <1>8, QInvInLink, FInvInLink, PTL DEF Spec

-----------------------------------------------------------------------------
(* The receive buffers of the near end *)

\* The buffers there are.
Allocated == 1..buffers

\* A buffer is free, receives, waits to be handled or is on its way back, and is in
\* one of these places only.
Buffers ==
    /\ buffers \in 1..MaxBuffers /\ receiving \in Allocated
    /\ rcv_buf_q \in Seq(Allocated) /\ process_q \in Seq(Allocated)
    /\ returning \in Seq(Allocated)
    /\ NoRepeats(rcv_buf_q) /\ NoRepeats(process_q) /\ NoRepeats(returning)
    /\ receiving \notin ToSet(rcv_buf_q) \cup ToSet(process_q) \cup ToSet(returning)
    /\ ToSet(rcv_buf_q) \cap ToSet(process_q) = {}
    /\ ToSet(rcv_buf_q) \cap ToSet(returning) = {}
    /\ ToSet(process_q) \cap ToSet(returning) = {}

\* What waits to be handled is what was received after the last message, in order.
Contents ==
    /\ content \in [1..MaxBuffers -> Nat]
    /\ carried = [m \in 1..count |-> m]
    /\ \A i \in DOMAIN process_q : content[process_q[i]] = count + i
    /\ datagrams = count + Len(process_q)

UInv == Buffers /\ Contents

\* RcvUDP takes a buffer that nobody else uses.
LEMMA RcvUDPKeeps ==
    ASSUME UInv, QInv, Received
    PROVE  UInv'
<1>1. /\ datagrams' = datagrams + 1 /\ content' = [content EXCEPT ![receiving] = datagrams + 1]
      /\ process_q' = Append(process_q, receiving)
      /\ UNCHANGED <<portVars, returning, sender>>
  BY DEF Received
<1>2. count' = count /\ carried' = carried
  BY <1>1 DEF portVars, sender
<1>3. /\ count \in Nat /\ MaxBuffers \in Nat /\ buffers \in Nat /\ buffers <= MaxBuffers
      /\ receiving \in 1..MaxBuffers /\ Allocated \subseteq 1..MaxBuffers
  BY PortFacts, LinkAssumption DEF QInv, UInv, Buffers, Allocated
<1>4. process_q \in Seq(Allocated) /\ NoRepeats(process_q) /\ receiving \notin ToSet(process_q)
      /\ receiving \in Allocated
  BY DEF UInv, Buffers
<1>5. /\ process_q' \in Seq(Allocated) /\ ToSet(process_q') = ToSet(process_q) \cup {receiving}
      /\ NoRepeats(process_q')
  BY <1>1, <1>4, QueueAppend, DistinctAppend
<1>6. /\ Len(process_q') = Len(process_q) + 1 /\ Len(process_q) \in Nat
      /\ \A i \in 1..Len(process_q) : process_q'[i] = process_q[i]
      /\ process_q'[Len(process_q) + 1] = receiving
      /\ DOMAIN process_q = 1..Len(process_q) /\ DOMAIN process_q' = 1..Len(process_q')
  BY <1>1, <1>4
<1>7. Contents'
  <2>1. datagrams = count + Len(process_q) /\ datagrams \in Nat /\ datagrams + 1 \in Nat
    BY <1>3, <1>6 DEF UInv, Contents
  <2>2. content' \in [1..MaxBuffers -> Nat]
    BY <1>1, <1>3, <2>1 DEF UInv, Contents
  <2>3. datagrams' = count' + Len(process_q')
    BY <1>1, <1>2, <1>3, <1>6, <2>1
  <2>4. ASSUME NEW i \in DOMAIN process_q' PROVE content'[process_q'[i]] = count' + i
    <3>1. CASE i = Len(process_q) + 1
      <4>1. content'[receiving] = datagrams + 1
        BY <1>1, <1>3 DEF UInv, Contents
      <4> QED BY <1>2, <1>3, <1>6, <2>1, <3>1, <4>1
    <3>2. CASE i # Len(process_q) + 1
      <4>1. i \in 1..Len(process_q)
        BY <1>6, <3>2
      <4>2. process_q[i] # receiving /\ process_q[i] \in 1..MaxBuffers
        <5>1. process_q[i] \in Allocated /\ process_q[i] \in ToSet(process_q)
          BY <1>4, <1>6, <4>1 DEF ToSet
        <5> QED BY <1>3, <1>4, <5>1
      <4>3. content'[process_q[i]] = content[process_q[i]]
        BY <1>1, <4>2 DEF UInv, Contents
      <4> QED BY <1>2, <1>6, <4>1, <4>3 DEF UInv, Contents
    <3> QED BY <3>1, <3>2
  <2> QED BY <1>2, <2>2, <2>3, <2>4 DEF UInv, Contents
<1>8. CASE /\ rcv_buf_q # <<>> /\ receiving' = Head(rcv_buf_q)
           /\ rcv_buf_q' = Tail(rcv_buf_q) /\ buffers' = buffers
  <2>1. /\ rcv_buf_q \in Seq(Allocated) /\ NoRepeats(rcv_buf_q)
    BY DEF UInv, Buffers
  <2>2. /\ rcv_buf_q' \in Seq(Allocated) /\ receiving' \in Allocated
        /\ ToSet(rcv_buf_q) = {receiving'} \cup ToSet(rcv_buf_q')
        /\ NoRepeats(rcv_buf_q') /\ receiving' \notin ToSet(rcv_buf_q')
    BY <1>8, <2>1, QueueTail, DistinctTail
  <2>3. receiving # receiving'
    BY <2>2 DEF UInv, Buffers
  <2>4. Buffers'
    <3>1. Allocated' = Allocated
      BY <1>8 DEF Allocated
    <3> QED BY <1>1, <1>5, <1>8, <2>2, <2>3, <3>1 DEF UInv, Buffers
  <2> QED BY <1>7, <2>4 DEF UInv
<1>9. CASE /\ rcv_buf_q = <<>> /\ buffers < MaxBuffers /\ buffers' = buffers + 1
           /\ receiving' = buffers' /\ rcv_buf_q' = rcv_buf_q
  <2>1. buffers' \in 1..MaxBuffers /\ receiving' \in Allocated' /\ Allocated \subseteq Allocated'
        /\ receiving' \notin Allocated
    BY <1>3, <1>9 DEF Allocated
  <2>2. /\ rcv_buf_q \in Seq(Allocated) /\ returning \in Seq(Allocated)
    BY DEF UInv, Buffers
  <2>3. /\ rcv_buf_q \in Seq(Allocated') /\ returning \in Seq(Allocated')
        /\ process_q' \in Seq(Allocated')
    BY <1>5, <2>1, <2>2
  <2>4. /\ ToSet(rcv_buf_q) \subseteq Allocated /\ ToSet(returning) \subseteq Allocated
        /\ ToSet(process_q') \subseteq Allocated
    BY <1>5, <2>2, QueueElements
  <2>5. Buffers'
    BY <1>1, <1>5, <1>9, <2>1, <2>3, <2>4 DEF UInv, Buffers
  <2> QED BY <1>7, <2>5 DEF UInv
<1> QED BY <1>8, <1>9 DEF Received, RcvUDP

\* RcvUDPHandler copies the datagram that is next before it gives the buffer back.
LEMMA RcvUDPHandlerKeeps ==
    ASSUME UInv, QInv, RcvUDPHandler
    PROVE  UInv'
<1>1. /\ process_q # <<>> /\ process_q' = Tail(process_q)
      /\ returning' = Append(returning, Head(process_q))
      /\ carried' = Append(carried, content[Head(process_q)]) /\ count' = count + 1
      /\ UNCHANGED <<rcv_buf_q, buffers, receiving, content, datagrams>>
  BY DEF RcvUDPHandler, Write
<1>2. process_q \in Seq(Allocated) /\ NoRepeats(process_q) /\ count \in Nat
      /\ returning \in Seq(Allocated) /\ NoRepeats(returning)
      /\ ToSet(process_q) \cap ToSet(returning) = {}
  BY PortFacts DEF UInv, Buffers, QInv
<1>3. PICK h : h = Head(process_q)
  OBVIOUS
<1>4. /\ process_q' \in Seq(Allocated) /\ h \in Allocated
      /\ ToSet(process_q) = {h} \cup ToSet(process_q')
      /\ NoRepeats(process_q') /\ h \notin ToSet(process_q')
  BY <1>1, <1>2, <1>3, QueueTail, DistinctTail
<1>5. returning' = Append(returning, h) /\ h \notin ToSet(returning)
  BY <1>1, <1>2, <1>3, <1>4
<1>6. /\ returning' \in Seq(Allocated) /\ ToSet(returning') = ToSet(returning) \cup {h}
      /\ NoRepeats(returning')
  BY <1>2, <1>4, <1>5, QueueAppend, DistinctAppend
<1>7. Buffers'
  <2>1. Allocated' = Allocated
    BY <1>1 DEF Allocated
  <2> QED BY <1>1, <1>4, <1>6, <2>1 DEF UInv, Buffers
<1>8. /\ Len(process_q') = Len(process_q) - 1 /\ Len(process_q) \in Nat \ {0}
      /\ \A i \in 1..Len(process_q') : process_q'[i] = process_q[i + 1]
      /\ h = process_q[1]
      /\ DOMAIN process_q = 1..Len(process_q) /\ DOMAIN process_q' = 1..Len(process_q')
  BY <1>1, <1>2, <1>3
<1>9. content[h] = count + 1
  BY <1>8 DEF UInv, Contents
<1>10. carried' = [m \in 1..count' |-> m]
  <2>1. carried = [m \in 1..count |-> m] /\ carried' = Append(carried, count + 1)
    BY <1>1, <1>3, <1>9 DEF UInv, Contents
  <2>2. carried \in Seq(Nat) /\ Len(carried) = count
    BY <1>2, <2>1
  <2>3. carried' = [m \in 1..(count + 1) |-> IF m <= count THEN carried[m] ELSE count + 1]
    BY <1>2, <2>1, <2>2
  <2>4. \A m \in 1..(count + 1) : (IF m <= count THEN carried[m] ELSE count + 1) = m
    BY <1>2, <2>1
  <2> QED BY <1>1, <2>3, <2>4
<1>11. \A i \in DOMAIN process_q' : content'[process_q'[i]] = count' + i
  <2> SUFFICES ASSUME NEW i \in 1..Len(process_q') PROVE content'[process_q'[i]] = count' + i
    BY <1>8
  <2>1. i + 1 \in DOMAIN process_q /\ process_q'[i] = process_q[i + 1]
    BY <1>8
  <2>2. content[process_q[i + 1]] = count + (i + 1)
    BY <2>1 DEF UInv, Contents
  <2> QED BY <1>1, <1>2, <1>8, <2>1, <2>2
<1>12. datagrams' = count' + Len(process_q')
  BY <1>1, <1>2, <1>8 DEF UInv, Contents
<1>13. Contents'
  BY <1>1, <1>10, <1>11, <1>12 DEF UInv, Contents
<1> QED BY <1>7, <1>13 DEF UInv

\* Every step of the link keeps it.
LEMMA UInvStep == UInv /\ QInv /\ [Next]_vars => UInv'
<1> SUFFICES ASSUME UInv, QInv, [Next]_vars PROVE UInv'
  OBVIOUS
<1>1. ASSUME UNCHANGED <<udp, carried, count>> PROVE UInv'
  BY <1>1 DEF udp, UInv, Buffers, Contents, Allocated
<1>2. CASE BufferReturns
  <2>1. /\ returning # <<>> /\ rcv_buf_q' = Append(rcv_buf_q, Head(returning))
        /\ returning' = Tail(returning)
        /\ UNCHANGED <<portVars, buffers, receiving, content, process_q, datagrams, sender>>
    BY <1>2 DEF BufferReturns
  <2>2. /\ rcv_buf_q \in Seq(Allocated) /\ NoRepeats(rcv_buf_q)
        /\ returning \in Seq(Allocated) /\ NoRepeats(returning)
        /\ ToSet(rcv_buf_q) \cap ToSet(returning) = {}
    BY DEF UInv, Buffers
  <2>3. PICK h : h = Head(returning)
    OBVIOUS
  <2>4. /\ returning' \in Seq(Allocated) /\ h \in Allocated
        /\ ToSet(returning) = {h} \cup ToSet(returning')
        /\ NoRepeats(returning') /\ h \notin ToSet(returning')
    BY <2>1, <2>2, <2>3, QueueTail, DistinctTail
  <2>5. rcv_buf_q' = Append(rcv_buf_q, h) /\ h \notin ToSet(rcv_buf_q)
    BY <2>1, <2>2, <2>3, <2>4
  <2>6. /\ rcv_buf_q' \in Seq(Allocated) /\ ToSet(rcv_buf_q') = ToSet(rcv_buf_q) \cup {h}
        /\ NoRepeats(rcv_buf_q')
    BY <2>2, <2>4, <2>5, QueueAppend, DistinctAppend
  <2>7. Buffers'
    <3>1. Allocated' = Allocated
      BY <2>1 DEF Allocated
    <3> QED BY <2>1, <2>4, <2>6, <3>1 DEF UInv, Buffers
  <2>8. Contents'
    BY <2>1 DEF UInv, Contents, portVars, sender
  <2> QED BY <2>7, <2>8 DEF UInv
<1>3. CASE Received
  BY <1>3, RcvUDPKeeps
<1>4. CASE RcvUDPHandler
  BY <1>4, RcvUDPHandlerKeeps
<1>5. CASE PortStep
  <2>1. UNCHANGED <<udp, carried>>
    BY <1>5 DEF PortStep, sender
  <2>2. UNCHANGED count
    <3>1. CASE Lifecycle
      BY <3>1 DEF Lifecycle, StopOne, Start, Stop, Close
    <3>2. ASSUME NEW p \in Ports, Quiet(p) \/ Loses(p) \/ FailsClosed(p) PROVE UNCHANGED count
      BY <3>2 DEF Quiet, Loses, FailsClosed, WriteStarts, WriteDone, ReadStarts, ReadFails,
                  WriteFails, Noise
    <3> QED BY <1>5, <3>1, <3>2 DEF PortStep
  <2> QED BY <1>1, <2>1, <2>2
<1>6. ASSUME NEW p \in Ports, ReadHandler(p) PROVE UInv'
  BY <1>1, <1>6 DEF ReadHandler, ReadDone, sender
<1>7. CASE Tick \/ UNCHANGED vars
  BY <1>1, <1>7 DEF Tick, vars, portVars, sender
<1> QED BY <1>2, <1>3, <1>4, <1>5, <1>6, <1>7 DEF Next

\* It holds when the first buffer receives.
LEMMA UInvInit == Init => UInv
<1> SUFFICES ASSUME Init PROVE UInv
  OBVIOUS
<1>1. /\ rcv_buf_q = <<>> /\ buffers = 1 /\ receiving = 1 /\ process_q = <<>>
      /\ returning = <<>> /\ datagrams = 0 /\ carried = <<>> /\ count = 0
      /\ content = [b \in 1..MaxBuffers |-> None]
  BY DEF Init, PortsInit
<1>2. Buffers
  <2>1. buffers \in 1..MaxBuffers /\ receiving \in Allocated
    BY <1>1, LinkAssumption DEF Allocated
  <2>2. ToSet(<<>>) = {} /\ NoRepeats(<<>>) /\ <<>> \in Seq(Allocated)
    BY DEF ToSet, NoRepeats
  <2> QED BY <1>1, <2>1, <2>2 DEF Buffers
<1>3. Contents
  <2>1. content \in [1..MaxBuffers -> Nat]
    BY <1>1 DEF None
  <2>2. carried = [m \in 1..count |-> m]
    BY <1>1
  <2> QED BY <1>1, <2>1, <2>2 DEF Contents
<1> QED BY <1>2, <1>3 DEF UInv

\* It always holds.
LEMMA UInvInLink == Spec => []UInv
  BY UInvInit, UInvStep, QInvInLink, PTL DEF Spec

-----------------------------------------------------------------------------
(* Every datagram is in one place *)

\* The invariant of the framing, in the terms of the link.
LEMMA FarEnd ==
    ASSUME DP!FInv, count \in Nat
    PROVE  /\ InFlight \cup failed \cup dropped \cup frame_q \cup ToSet(written) = 1..count
           /\ frame_q \cap (InFlight \cup failed \cup dropped) = {}
           /\ ToSet(written) \cap (InFlight \cup failed \cup dropped \cup frame_q) = {}
           /\ written \in Seq(1..count) /\ NoRepeats(written)
<1>1. DP!Sent = 1..count
  BY DEF DP!Sent
<1>2. DP!ToSet(written) = ToSet(written)
  BY DEF DP!ToSet, ToSet
<1>3. DP!NoRepeats(written) <=> NoRepeats(written)
  BY DEF DP!NoRepeats, NoRepeats
<1>4. written \in Seq(1..count)
  BY <1>1 DEF DP!FInv, DP!TypeOK
<1> QED BY <1>1, <1>2, <1>3, <1>4 DEF DP!FInv, DP!Placed

\* How often a message is with the ports.
LEMMA TimesWithPorts ==
    ASSUME QInv, NEW m, m # None
    PROVE  /\ Cardinality({p \in DOMAIN posted : posted[p] = m})
                = IF \E p \in Ports : posted[p] = m THEN 1 ELSE 0
           /\ Cardinality({p \in DOMAIN writing : writing[p] = m})
                = IF \E p \in Ports : writing[p] = m THEN 1 ELSE 0
           /\ ~ \E p, r \in Ports : posted[p] = m /\ writing[r] = m
<1>1. DOMAIN posted = Ports /\ DOMAIN writing = Ports
  BY DEF QInv, PortsTypeOK
<1>2. ASSUME NEW p \in Ports, NEW r \in Ports,
             \/ posted[p] = m /\ posted[r] = m
             \/ writing[p] = m /\ writing[r] = m
             \/ posted[p] = m /\ writing[r] = m
      PROVE  p = r
  <2>1. m \in WithPort(p) /\ m \in WithPort(r)
    BY <1>2 DEF WithPort
  <2> QED BY <2>1 DEF QInv, Apart
<1>3. Cardinality({p \in Ports : posted[p] = m})
        = IF \E p \in Ports : posted[p] = m THEN 1 ELSE 0
  <2>1. CASE \E p \in Ports : posted[p] = m
    <3>1. PICK p \in Ports : posted[p] = m
      BY <2>1
    <3>2. {r \in Ports : posted[r] = m} = {p}
      BY <1>2, <3>1
    <3> QED BY <2>1, <3>2, FS_Singleton
  <2>2. CASE ~ \E p \in Ports : posted[p] = m
    <3>1. {r \in Ports : posted[r] = m} = {}
      BY <2>2
    <3> QED BY <2>2, <3>1, FS_EmptySet
  <2> QED BY <2>1, <2>2
<1>4. Cardinality({p \in Ports : writing[p] = m})
        = IF \E p \in Ports : writing[p] = m THEN 1 ELSE 0
  <2>1. CASE \E p \in Ports : writing[p] = m
    <3>1. PICK p \in Ports : writing[p] = m
      BY <2>1
    <3>2. {r \in Ports : writing[r] = m} = {p}
      BY <1>2, <3>1
    <3> QED BY <2>1, <3>2, FS_Singleton
  <2>2. CASE ~ \E p \in Ports : writing[p] = m
    <3>1. {r \in Ports : writing[r] = m} = {}
      BY <2>2
    <3> QED BY <2>2, <3>1, FS_EmptySet
  <2> QED BY <2>1, <2>2
<1>5. ~ \E p, r \in Ports : posted[p] = m /\ writing[r] = m
  <2> SUFFICES ASSUME NEW p \in Ports, NEW r \in Ports, posted[p] = m, writing[r] = m PROVE FALSE
    OBVIOUS
  <2>1. p = r
    BY <1>2
  <2> QED BY <2>1, WithPortIs DEF QInv
<1> QED BY <1>1, <1>3, <1>4, <1>5

\* How often a message is on the lines.
LEMMA TimesOnTheLines ==
    ASSUME QInv, NEW m
    PROVE  Cardinality(UNION {{p} \X {i \in DOMAIN line[p] : line[p][i] = m} : p \in Ports})
             = IF \E p \in Ports : m \in OnLine(p) THEN 1 ELSE 0
<1> DEFINE at(p) == {i \in DOMAIN line[p] : line[p][i] = m}
           all == UNION {{p} \X at(p) : p \in Ports}
<1>1. \A p \in Ports : line[p] \in Seq(Messages) /\ NoRepeats(line[p])
  BY DEF QInv, PortsTypeOK, Apart
<1>2. \A p \in Ports : m \notin OnLine(p) => at(p) = {}
  BY DEF OnLine, ToSet
<1>3. CASE \E p \in Ports : m \in OnLine(p)
  <2>1. PICK p \in Ports : m \in OnLine(p)
    BY <1>3
  <2>2. \A r \in Ports : r # p => m \notin OnLine(r)
    BY <2>1 DEF QInv, Apart
  <2>3. PICK i \in DOMAIN line[p] : line[p][i] = m
    BY <2>1 DEF OnLine, ToSet
  <2>4. at(p) = {i}
    <3>1. DOMAIN line[p] = 1..Len(line[p]) /\ NoRepeats(line[p])
      BY <1>1
    <3> QED BY <2>3, <3>1 DEF NoRepeats
  <2>5. \A r \in Ports : r # p => at(r) = {}
    BY <1>2, <2>2
  <2> HIDE DEF at
  <2>6. all = {<<p, i>>}
    BY <2>4, <2>5
  <2> HIDE DEF all
  <2>7. Cardinality(all) = 1
    BY <2>6, FS_Singleton
  <2> QED BY <1>3, <2>7 DEF all, at
<1>4. CASE ~ \E p \in Ports : m \in OnLine(p)
  <2>1. \A p \in Ports : at(p) = {}
    BY <1>2, <1>4
  <2> HIDE DEF at
  <2>2. all = {}
    BY <2>1
  <2> HIDE DEF all
  <2>3. Cardinality(all) = 0
    BY <2>2, FS_EmptySet
  <2> QED BY <1>4, <2>3 DEF all, at
<1> QED BY <1>3, <1>4

\* The three invariants together say that every datagram is in one place.
LEMMA LinkInvEnough == QInv /\ UInv /\ DP!FInv => DatagramsConserved
<1> SUFFICES ASSUME QInv, UInv, DP!FInv PROVE DatagramsConserved
  OBVIOUS
<1>1. count \in Nat /\ write_q \in Seq(Messages) /\ NoRepeats(write_q)
  BY PortFacts DEF QInv, PortsTypeOK, Apart
<1> DEFINE Once(b) == IF b THEN 1 ELSE 0
           At(s, m) == {i \in DOMAIN s : s[i] = m}
<1>2. ASSUME NEW m \in 1..count
      PROVE  Cardinality(At(write_q, m)) + Cardinality(At(posted, m)) + Cardinality(At(writing, m))
               + Cardinality(UNION {{p} \X At(line[p], m) : p \in Ports})
               + Cardinality(At(written, m))
               + Once(m \in frame_q) + Once(m \in failed) + Once(m \in dropped) = 1
  <2> DEFINE P == \E p \in Ports : posted[p] = m
             W == \E p \in Ports : writing[p] = m
             L == \E p \in Ports : m \in OnLine(p)
             Q == m \in ToSet(write_q)
             T == m \in ToSet(written)
  <2>1. m # None
    BY <1>1 DEF None
  <2>2. Cardinality(At(write_q, m)) = Once(Q)
    BY <1>1, TimesInQueue
  <2>3. Cardinality(At(written, m)) = Once(T)
    BY <1>1, FarEnd, TimesInQueue
  <2>4. /\ Cardinality(At(posted, m)) = Once(P) /\ Cardinality(At(writing, m)) = Once(W)
        /\ ~(P /\ W)
    BY <2>1, TimesWithPorts
  <2>5. Cardinality(UNION {{p} \X At(line[p], m) : p \in Ports}) = Once(L)
    BY TimesOnTheLines
  <2>6. \A p \in Ports : m \in WithPort(p) <=> posted[p] = m \/ writing[p] = m
    BY <2>1 DEF WithPort
  <2>7. m \in InFlight <=> Q \/ P \/ W \/ L
    BY <2>6 DEF InFlight
  <2>8. ~(Q /\ (P \/ W \/ L)) /\ ~((P \/ W) /\ L)
    BY <2>6 DEF QInv, Apart
  <2>9. /\ m \in failed => m \notin dropped /\ m \notin InFlight
        /\ m \in dropped => m \notin InFlight
    BY DEF QInv, Apart
  <2>10. /\ m \in InFlight \/ m \in failed \/ m \in dropped \/ m \in frame_q \/ T
         /\ m \in frame_q => m \notin InFlight /\ m \notin failed /\ m \notin dropped
         /\ T => m \notin InFlight /\ m \notin failed /\ m \notin dropped /\ m \notin frame_q
    BY <1>1, FarEnd
  <2> HIDE DEF P, W, L, Q, T, At
  <2>11. Once(Q) + Once(P) + Once(W) + Once(L) + Once(T)
           + Once(m \in frame_q) + Once(m \in failed) + Once(m \in dropped) = 1
    BY <2>4, <2>7, <2>8, <2>9, <2>10
  <2> QED BY <2>2, <2>3, <2>4, <2>5, <2>11
<1>3. /\ carried = [m \in 1..count |-> m]
      /\ \A i \in DOMAIN process_q : content[process_q[i]] = count + i
      /\ datagrams = count + Len(process_q)
  BY DEF UInv, Contents
<1> QED BY <1>2, <1>3 DEF DatagramsConserved

\* No datagram that ProtoConv receives gets lost unseen, is sent twice, or is taken
\* for another because its buffer is used again, on its way from one UDP socket to
\* the other (RcvUDP, RcvUDPHandler, SerialPortsManager::Write, the read loops and
\* DelimFragHandler::HandleFrame).
THEOREM DatagramsAlwaysConserved == Spec => []DatagramsConserved
  BY QInvInLink, UInvInLink, FInvInLink, LinkInvEnough, PTL
=============================================================================
