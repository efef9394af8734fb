----------------------- MODULE DelimFragHandlerProofs -----------------------
(* Proofs about the delimited framing, for any size of the sequence number,    *)
(* any tolerance of the handler and any stream.                                *)
EXTENDS DelimFragHandler, KeySequences, FiniteSetTheorems, WellFoundedInduction, TLAPS

-----------------------------------------------------------------------------
(* Queues *)

\* The elements of a queue.
LEMMA QueueElements ==
    ASSUME NEW S, NEW q \in Seq(S)
    PROVE  ToSet(q) \subseteq S /\ (q = <<>> => ToSet(q) = {})
  BY DEF ToSet

\* Two queues one after the other.
LEMMA QueueConcat ==
    ASSUME NEW S, NEW s \in Seq(S), NEW t \in Seq(S), NoRepeats(s), NoRepeats(t),
           ToSet(s) \cap ToSet(t) = {}
    PROVE  /\ s \o t \in Seq(S) /\ NoRepeats(s \o t)
           /\ ToSet(s \o t) = ToSet(s) \cup ToSet(t)
<1> DEFINE c == s \o t
<1>1. /\ c \in Seq(S) /\ Len(c) = Len(s) + Len(t)
      /\ DOMAIN c = 1..Len(c) /\ DOMAIN s = 1..Len(s) /\ DOMAIN t = 1..Len(t)
      /\ Len(s) \in Nat /\ Len(t) \in Nat
  OBVIOUS
<1>2. \A i \in 1..Len(c) : c[i] = IF i <= Len(s) THEN s[i] ELSE t[i - Len(s)]
  OBVIOUS
<1> HIDE DEF c
<1>3. /\ \A i \in 1..Len(s) : i \in 1..Len(c) /\ c[i] = s[i]
      /\ \A i \in 1..Len(t) : i + Len(s) \in 1..Len(c) /\ c[i + Len(s)] = t[i]
  <2>1. \A i \in 1..Len(s) : i \in 1..Len(c) /\ c[i] = s[i]
    BY <1>1, <1>2
  <2>2. ASSUME NEW i \in 1..Len(t)
        PROVE  i + Len(s) \in 1..Len(c) /\ c[i + Len(s)] = t[i]
    <3>1. i + Len(s) \in 1..Len(c) /\ ~(i + Len(s) <= Len(s)) /\ (i + Len(s)) - Len(s) = i
      BY <1>1
    <3> QED BY <1>2, <3>1
  <2> QED BY <2>1, <2>2
<1>4. ASSUME NEW i \in 1..Len(c)
      PROVE  \/ i \in 1..Len(s) /\ c[i] = s[i]
             \/ i - Len(s) \in 1..Len(t) /\ c[i] = t[i - Len(s)]
  BY <1>1, <1>2
<1>5. ToSet(c) = ToSet(s) \cup ToSet(t)
  <2>1. ToSet(c) \subseteq ToSet(s) \cup ToSet(t)
    BY <1>1, <1>4 DEF ToSet
  <2>2. ToSet(s) \subseteq ToSet(c) /\ ToSet(t) \subseteq ToSet(c)
    BY <1>1, <1>3 DEF ToSet
  <2> QED BY <2>1, <2>2
<1>6. NoRepeats(c)
  <2> SUFFICES ASSUME NEW i \in 1..Len(c), NEW j \in 1..Len(c), c[i] = c[j] PROVE i = j
    BY DEF NoRepeats
  <2>1. CASE i \in 1..Len(s) /\ j \in 1..Len(s)
    BY <1>3, <2>1 DEF NoRepeats
  <2>2. CASE i \notin 1..Len(s) /\ j \notin 1..Len(s)
    <3>1. /\ i - Len(s) \in 1..Len(t) /\ j - Len(s) \in 1..Len(t)
          /\ t[i - Len(s)] = t[j - Len(s)]
      BY <1>4, <2>2
    <3>2. i - Len(s) = j - Len(s)
      BY <3>1 DEF NoRepeats
    <3> QED BY <1>1, <3>2
  <2>3. \A k \in 1..Len(s), l \in 1..Len(t) : s[k] # t[l]
    BY <1>1 DEF ToSet
  <2> QED BY <1>3, <1>4, <2>1, <2>2, <2>3
<1> QED BY <1>1, <1>5, <1>6 DEF c

\* How often something is in a queue of distinct elements.
LEMMA TimesInQueue ==
    ASSUME NEW S, NEW q \in Seq(S), NoRepeats(q), NEW x
    PROVE  Cardinality({i \in DOMAIN q : q[i] = x}) = IF x \in ToSet(q) THEN 1 ELSE 0
<1> DEFINE at == {i \in DOMAIN q : q[i] = x}
<1>1. DOMAIN q = 1..Len(q)
  OBVIOUS
<1>2. CASE x \in ToSet(q)
  <2>1. PICK i \in DOMAIN q : q[i] = x
    BY <1>2 DEF ToSet
  <2>2. at = {i}
    BY <1>1, <2>1 DEF NoRepeats
  <2> QED BY <1>2, <2>2, FS_Singleton
<1>3. CASE x \notin ToSet(q)
  <2>1. at = {}
    BY <1>3 DEF ToSet
  <2> QED BY <1>3, <2>1, FS_EmptySet
<1> QED BY <1>2, <1>3

\* A nonempty set of natural numbers has a least element.
LEMMA LeastNat ==
    ASSUME NEW T \in SUBSET Nat, T # {}
    PROVE  \E x \in T : \A y \in T : x <= y
<1>1. IsWellFoundedOn(OpToRel(<,Nat), Nat)
  BY NatLessThanWellFounded
<1>2. PICK R : R = OpToRel(<,Nat)
  OBVIOUS
<1>3. \A a, b \in Nat : <<a, b>> \in R <=> a < b
  BY <1>2 DEF OpToRel
<1>4. PICK x \in T : \A y \in T : ~(<<y, x>> \in R)
  BY <1>1, <1>2, WFMin
<1>5. ASSUME NEW y \in T PROVE x <= y
  <2>1. ~(y < x) /\ x \in Nat /\ y \in Nat
    BY <1>3, <1>4
  <2> QED BY <2>1
<1> QED BY <1>5

USE SeqModAssumption, BoundsAssumption

-----------------------------------------------------------------------------
(* The invariant *)

\* Every frame sent is on its way, lost, held or written, and nowhere twice.
Placed ==
    /\ inFlight \cup lost \cup frame_q \cup ToSet(written) = Sent
    /\ inFlight \cap lost = {} /\ inFlight \cap frame_q = {} /\ lost \cap frame_q = {}
    /\ ToSet(written) \cap (inFlight \cup lost \cup frame_q) = {}
    /\ NoRepeats(written)

FInv == TypeOK /\ Placed

\* The numbers involved.
LEMMA DelimFacts ==
    ASSUME TypeOK
    PROVE  /\ first \in Nat /\ sent \in Nat /\ first <= sent /\ sent <= first + MaxFrames
           /\ SeqSize \in Nat /\ SeqMaxQ \in Nat /\ SeqMaxT \in Nat /\ MaxRestarts \in Nat
           /\ MaxFrames \in Nat
           /\ \A f \in Sent : seq(f) \in Seq32
<1>1. /\ first \in Nat /\ SeqSize \in Nat /\ SeqMaxQ \in Nat /\ SeqMaxT \in Nat
      /\ MaxFrames \in Nat /\ MaxRestarts \in Nat
  BY DEF TypeOK
<1>2. sent \in Nat /\ first <= sent /\ sent <= first + MaxFrames
  BY <1>1 DEF TypeOK
<1>3. \A f \in Sent : f - first \in 1..(sent - first)
  BY <1>1, <1>2 DEF Sent
<1> QED BY <1>1, <1>2, <1>3 DEF TypeOK, seq

\* The remainder of a number is below the modulus.
LEMMA ModRange ==
    ASSUME NEW m \in Nat \ {0}, NEW a \in Int
    PROVE  a % m \in 0..(m - 1)
  OBVIOUS
\* So it is a sequence number when taken of their count.
LEMMA NumberRange == \A n \in Int : n % SeqSize \in Seq32
  BY ModRange DEF Seq32

\* A frame at the top is in the queue.
LEMMA TopsIn == \A q : Tops(q) \subseteq q
  BY DEF Tops

-----------------------------------------------------------------------------
(* What HandleFrame's loop writes *)

\* The loop writes frames of the queue, each once, and at least the top if that
\* has the number expected.
LEMMA RunIs ==
    ASSUME NEW q, NEW top \in q, NEW e, NEW n \in Nat, NEW run \in [1..n -> q],
           IsRun(q, top, e, run)
    PROVE  /\ run \in Seq(q) /\ Len(run) = n /\ NoRepeats(run)
           /\ Remaining(q, run) = q \ ToSet(run)
           /\ seq(top) = e => top \in ToSet(run)
<1>1. run \in Seq(q) /\ Len(run) = n /\ DOMAIN run = 1..n
  OBVIOUS
<1>2. \A i \in 1..n : i # 1 => run[i] \in q \ {run[j] : j \in 1..(i - 1)}
  <2> SUFFICES ASSUME NEW i \in 1..n, i # 1
               PROVE  run[i] \in q \ {run[j] : j \in 1..(i - 1)}
    OBVIOUS
  <2>1. run[i] \in Tops(q \ {run[j] : j \in 1..(i - 1)})
    BY <1>1 DEF IsRun
  <2> QED BY <2>1, TopsIn
<1>3. \A i, j \in 1..n : j < i => run[i] # run[j]
  BY <1>2
<1>4. NoRepeats(run)
  BY <1>1, <1>3 DEF NoRepeats
<1>5. Remaining(q, run) = q \ ToSet(run)
  BY DEF Remaining, ToSet
<1>6. seq(top) = e => top \in ToSet(run)
  <2> SUFFICES ASSUME seq(top) = e PROVE top \in ToSet(run)
    OBVIOUS
  <2>1. run # <<>>
    BY DEF IsRun
  <2>2. 1 \in DOMAIN run
    BY <1>1, <2>1
  <2>3. run[1] = top
    BY <2>2 DEF IsRun
  <2> QED BY <2>2, <2>3 DEF ToSet
<1> QED BY <1>1, <1>4, <1>5, <1>6

\* What is held is finite.
LEMMA HeldFinite ==
    ASSUME TypeOK
    PROVE  /\ IsFiniteSet(Sent) /\ IsFiniteSet(frame_q)
           /\ Cardinality(frame_q) \in Nat /\ Cardinality(frame_q) <= SeqMaxQ
<1>1. first + 1 \in Int /\ sent \in Int
  BY DelimFacts
<1>2. IsFiniteSet((first + 1)..sent)
  BY <1>1, FS_Interval
<1>3. IsFiniteSet(Sent)
  BY <1>2 DEF Sent
<1>4. IsFiniteSet(frame_q)
  BY <1>3, FS_Subset DEF TypeOK
<1> QED BY <1>3, <1>4, FS_CardinalityType DEF TypeOK

\* The queue keeps to the tolerance if a frame leaves it whenever there are too many.
LEMMA HeldWithin ==
    ASSUME TypeOK, NEW f \in Sent, NEW rest, rest \subseteq frame_q \cup {f},
           TooMany(frame_q \cup {f}) => rest # frame_q \cup {f}
    PROVE  Cardinality(rest) <= SeqMaxQ
<1> DEFINE q == frame_q \cup {f}
<1>1. IsFiniteSet(q) /\ Cardinality(q) \in Nat /\ Cardinality(q) <= SeqMaxQ + 1
  <2>1. Cardinality(q) = IF f \in frame_q THEN Cardinality(frame_q) ELSE Cardinality(frame_q) + 1
    BY HeldFinite, FS_AddElement
  <2>2. IsFiniteSet(q)
    BY HeldFinite, FS_AddElement
  <2>3. SeqMaxQ \in Nat
    BY DelimFacts
  <2> QED BY <2>1, <2>2, <2>3, HeldFinite
<1> HIDE DEF q
<1>2. /\ IsFiniteSet(rest) /\ Cardinality(rest) <= Cardinality(q)
      /\ Cardinality(q) = Cardinality(rest) => q = rest
  BY <1>1, FS_Subset DEF q
<1>3. Cardinality(rest) \in Nat
  BY <1>2, FS_CardinalityType
<1>4. Cardinality(q) > SeqMaxQ => rest # q
  BY DEF TooMany, q
<1>5. SeqMaxQ \in Nat
  BY DelimFacts
<1>6. Cardinality(q) > SeqMaxQ => Cardinality(rest) # Cardinality(q)
  BY <1>2, <1>4
<1>7. \A r, c, m \in Nat : r <= c /\ c <= m + 1 /\ (c > m => r # c) => r <= m
  OBVIOUS
<1> QED BY <1>1, <1>2, <1>3, <1>5, <1>6, <1>7

\* HandleFrame writes some of what it holds, each frame once, and holds the others.
LEMMA HandleKeeps ==
    ASSUME TypeOK, NEW f \in Sent, NEW onTheWay, Handle(f, onTheWay)
    PROVE  /\ \E run \in Seq(frame_q \cup {f}) :
                /\ NoRepeats(run) /\ written' = written \o run
                /\ frame_q' = (frame_q \cup {f}) \ ToSet(run)
           /\ Cardinality(frame_q') <= SeqMaxQ
           /\ expected_seq' \in Seq32 /\ last_top_seq' \in Seq32
           /\ top_latency' \in 0..(SeqMaxT + 1) /\ early' \in BOOLEAN
<1> DEFINE q == frame_q \cup {f}
           latency(top) == IF seq(top) # last_top_seq THEN 0 ELSE top_latency
           e(top) == IF seq(top) # expected_seq /\ GiveUp(q, latency(top))
                     THEN seq(top) ELSE expected_seq
<1>1. PICK top \in Tops(q), run \in UNION {[1..n -> q] : n \in 0..Cardinality(q)} :
         /\ IsRun(q, top, e(top), run)
         /\ last_top_seq' = seq(top)
         /\ top_latency' = latency(top)
         /\ written' = written \o run
         /\ frame_q' = Remaining(q, run)
         /\ expected_seq' = (e(top) + Len(run)) % SeqSize
         /\ early' = (early \/ (e(top) # expected_seq /\ \E g \in onTheWay : g < top))
  BY DEF Handle
<1>2. early' \in BOOLEAN
  BY <1>1 DEF TypeOK
<1>3. top \in q /\ q \subseteq Sent
  BY TopsIn DEF TypeOK
<1>4. seq(top) \in Seq32 /\ expected_seq \in Seq32
  BY <1>3, DelimFacts DEF TypeOK
<1>5. e(top) \in Seq32
  BY <1>4
<1>6. PICK n \in Nat : run \in [1..n -> q]
  <2>1. PICK n \in 0..Cardinality(q) : run \in [1..n -> q]
    OBVIOUS
  <2>2. IsFiniteSet(q)
    BY HeldFinite, FS_AddElement
  <2>3. Cardinality(q) \in Nat
    BY <2>2, FS_CardinalityType
  <2> QED BY <2>1, <2>3
<1>7. PICK ex : ex = e(top)
  OBVIOUS
<1>8. /\ run \in Seq(q) /\ Len(run) = n /\ NoRepeats(run)
      /\ Remaining(q, run) = q \ ToSet(run)
      /\ seq(top) = e(top) => top \in ToSet(run)
  <2>1. IsRun(q, top, ex, run)
    BY <1>1, <1>7
  <2> HIDE DEF q, e
  <2>2. /\ run \in Seq(q) /\ Len(run) = n /\ NoRepeats(run)
        /\ Remaining(q, run) = q \ ToSet(run)
        /\ seq(top) = ex => top \in ToSet(run)
    BY <1>3, <1>6, <2>1, RunIs
  <2> QED BY <1>7, <2>2
<1>9. TooMany(q) => seq(top) = e(top)
  BY DEF GiveUp
<1>10. Cardinality(frame_q') <= SeqMaxQ
  <2>1. frame_q' \subseteq q /\ (TooMany(q) => frame_q' # q)
    BY <1>1, <1>3, <1>8, <1>9
  <2>2. PICK rest : rest = frame_q'
    OBVIOUS
  <2>3. Cardinality(rest) <= SeqMaxQ
    BY <2>1, <2>2, HeldWithin
  <2> QED BY <2>2, <2>3
<1>11. expected_seq' \in Seq32
  <2>1. ex + Len(run) \in Int
    BY <1>5, <1>7, <1>8 DEF Seq32
  <2>2. (ex + Len(run)) % SeqSize \in Seq32
    BY <2>1, NumberRange
  <2> QED BY <1>1, <1>7, <2>2
<1>12. top_latency' \in 0..(SeqMaxT + 1)
  <2>1. top_latency \in 0..(SeqMaxT + 1)
    BY DEF TypeOK
  <2>2. 0 \in 0..(SeqMaxT + 1)
    BY DelimFacts
  <2>3. top_latency' \in {0, top_latency}
    BY <1>1
  <2> QED BY <2>1, <2>2, <2>3
<1> QED BY <1>1, <1>2, <1>4, <1>8, <1>10, <1>11, <1>12

-----------------------------------------------------------------------------
(* The steps *)

\* In the beginning no frame has been sent.
LEMMA FInvInit == Init => FInv
<1> SUFFICES ASSUME Init PROVE FInv
  OBVIOUS
<1>1. first \in FirstFrames /\ first \in Nat /\ sent = first /\ MaxFrames \in Nat
  BY DEF Init
<1>2. Sent = {} /\ 1..(sent - first) = {} /\ sent \in first..(first + MaxFrames)
  BY <1>1 DEF Sent
<1>3. DelimSeq \in Seq32 /\ expected_seq \in Seq32 /\ last_top_seq \in Seq32
  <2>1. first \in Int /\ first - 1 \in Int
    BY <1>1
  <2> QED BY <2>1, NumberRange DEF Init
<1>4. number \in [1..(sent - first) -> Seq32]
  BY <1>2 DEF Init
<1>5. written \in Seq(Sent) /\ ToSet(written) = {} /\ NoRepeats(written)
  BY DEF Init, ToSet, NoRepeats
<1>6. Cardinality(frame_q) <= SeqMaxQ
  BY FS_EmptySet DEF Init
<1>7. top_latency \in 0..(SeqMaxT + 1) /\ restarts \in 0..MaxRestarts
  <2>1. SeqMaxT \in Nat /\ MaxRestarts \in Nat
    OBVIOUS
  <2> QED BY <2>1 DEF Init
<1>8. {early, ambiguous} \subseteq BOOLEAN
  BY DEF Init
<1>9. TypeOK
  BY <1>1, <1>2, <1>3, <1>4, <1>5, <1>6, <1>7, <1>8 DEF Init, TypeOK
<1>10. Placed
  BY <1>2, <1>5 DEF Init, Placed
<1> QED BY <1>9, <1>10 DEF FInv

\* A new frame is nowhere yet, and may be lost at once.
LEMMA AddDelimKeeps ==
    ASSUME FInv, NEW gone \in {{}} \cup {{f} : f \in inFlight \cup {sent + 1}}, AddDelim(gone)
    PROVE  FInv'
<1>1. /\ sent < first + MaxFrames /\ sent' = sent + 1 /\ first' = first
      /\ number' = Append(number, DelimSeq) /\ DelimSeq' = (DelimSeq + 1) % SeqSize
      /\ inFlight' = (inFlight \cup {sent + 1}) \ gone /\ lost' = lost \cup gone
      /\ UNCHANGED <<frame_q, expected_seq, last_top_seq, top_latency, channel, written, early,
                     restarts, ambiguous>>
  BY DEF AddDelim, receiver
<1>2. first \in Nat /\ sent \in Nat /\ first <= sent /\ MaxFrames \in Nat
  BY DelimFacts DEF FInv
<1>3. /\ Sent' = Sent \cup {sent + 1} /\ sent + 1 \notin Sent
      /\ sent' \in first..(first + MaxFrames)
  BY <1>1, <1>2 DEF Sent
<1>4. gone \subseteq inFlight \cup {sent + 1}
  OBVIOUS
<1>5. DelimSeq' \in Seq32
  <2>1. DelimSeq + 1 \in Int
    BY DEF FInv, TypeOK, Seq32
  <2> QED BY <1>1, <2>1, NumberRange
<1>6. number' \in [1..(sent' - first') -> Seq32]
  <2>1. number \in Seq(Seq32) /\ Len(number) = sent - first /\ DelimSeq \in Seq32
    <3>1. number \in [1..(sent - first) -> Seq32] /\ DelimSeq \in Seq32
      BY DEF FInv, TypeOK
    <3>2. sent - first \in Nat
      BY <1>2
    <3>3. \A n \in Nat : \A t \in [1..n -> Seq32] : t \in Seq(Seq32) /\ Len(t) = n
      OBVIOUS
    <3> QED BY <3>1, <3>2, <3>3
  <2>2. Append(number, DelimSeq) \in Seq(Seq32) /\ Len(Append(number, DelimSeq)) = sent - first + 1
    BY <2>1
  <2>3. sent' - first' = sent - first + 1
    BY <1>1, <1>2
  <2>4. \A t \in Seq(Seq32) : t \in [1..Len(t) -> Seq32]
    OBVIOUS
  <2>5. number' \in [1..Len(number') -> Seq32] /\ Len(number') = sent' - first'
    BY <1>1, <2>2, <2>3, <2>4
  <2> QED BY <2>5
<1>7. written' \in Seq(Sent')
  <2>1. written \in Seq(Sent)
    BY DEF FInv, TypeOK
  <2>2. written \in Seq(Sent \cup {sent + 1})
    BY <2>1
  <2> QED BY <1>1, <1>3, <2>2
<1>8. TypeOK'
  BY <1>1, <1>3, <1>4, <1>5, <1>6, <1>7 DEF FInv, TypeOK
<1>9. Placed'
  <2>1. sent + 1 \notin inFlight \cup lost \cup frame_q \cup ToSet(written)
    BY <1>3 DEF FInv, Placed
  <2> QED BY <1>1, <1>3, <1>4, <2>1 DEF FInv, Placed
<1> QED BY <1>8, <1>9 DEF FInv

\* A frame that is handled is held or written, and so are those held before.
LEMMA HandleFrameKeeps ==
    ASSUME FInv, NEW f \in inFlight, HandleFrame(f)
    PROVE  FInv'
<1>1. /\ inFlight' = inFlight \ {f} /\ Handle(f, inFlight')
      /\ UNCHANGED <<first, DelimSeq, sent, number, channel, lost, restarts, ambiguous>>
  BY DEF HandleFrame, sender
<1>2. f \in Sent /\ Sent' = Sent
  BY <1>1 DEF FInv, TypeOK, Sent
<1>3. PICK onTheWay : onTheWay = inFlight'
  OBVIOUS
<1>4. /\ \E run \in Seq(frame_q \cup {f}) :
           /\ NoRepeats(run) /\ written' = written \o run
           /\ frame_q' = (frame_q \cup {f}) \ ToSet(run)
      /\ Cardinality(frame_q') <= SeqMaxQ
      /\ expected_seq' \in Seq32 /\ last_top_seq' \in Seq32
      /\ top_latency' \in 0..(SeqMaxT + 1) /\ early' \in BOOLEAN
  <2>1. Handle(f, onTheWay)
    BY <1>1, <1>3
  <2> QED BY <1>2, <2>1, HandleKeeps DEF FInv
<1>5. PICK run \in Seq(frame_q \cup {f}) :
           /\ NoRepeats(run) /\ written' = written \o run
           /\ frame_q' = (frame_q \cup {f}) \ ToSet(run)
  BY <1>4
<1>6. ToSet(run) \subseteq frame_q \cup {f} /\ frame_q \subseteq Sent
  BY QueueElements DEF FInv, TypeOK
<1>7. /\ written \in Seq(Sent) /\ run \in Seq(Sent) /\ NoRepeats(written)
      /\ ToSet(written) \cap ToSet(run) = {}
  <2>1. run \in Seq(Sent)
    BY <1>2, <1>6
  <2> QED BY <1>6, <2>1 DEF FInv, TypeOK, Placed
<1>8. /\ written' \in Seq(Sent) /\ NoRepeats(written')
      /\ ToSet(written') = ToSet(written) \cup ToSet(run)
  BY <1>5, <1>7, QueueConcat
<1>9. TypeOK'
  <2>1. frame_q' \in SUBSET Sent
    BY <1>2, <1>5, <1>6
  <2>2. {early', ambiguous'} \subseteq BOOLEAN
    BY <1>1, <1>4 DEF FInv, TypeOK
  <2> QED BY <1>1, <1>2, <1>4, <1>8, <2>1, <2>2 DEF FInv, TypeOK
<1>10. Placed'
  BY <1>1, <1>2, <1>5, <1>6, <1>8 DEF FInv, Placed
<1> QED BY <1>9, <1>10 DEF FInv

\* Losing a frame, the passing of time, a restart: frames move to the lost ones only.
LEMMA OtherStepsKeep ==
    ASSUME FInv,
           \/ Tick \/ ReceiverRestarts \/ UNCHANGED vars
           \/ \E f \in inFlight : Lose(f)
           \/ \E gone \in SUBSET inFlight : SenderRestarts(gone)
    PROVE  FInv'
<1>1. CASE Tick
  <2>1. UNCHANGED <<first, DelimSeq, sent, number, inFlight, channel, lost, restarts, ambiguous,
                    frame_q, expected_seq, last_top_seq, written, early>>
    BY <1>1 DEF Tick, Later, sender
  <2>2. top_latency' \in 0..(SeqMaxT + 1)
    BY <1>1, DelimFacts DEF Tick, Later, FInv, TypeOK
  <2> QED BY <2>1, <2>2 DEF FInv, TypeOK, Placed, Sent
<1>2. CASE ReceiverRestarts
  <2>1. /\ UNCHANGED <<first, DelimSeq, sent, number, inFlight, channel, written, early>>
        /\ frame_q' = {} /\ lost' = lost \cup frame_q
        /\ expected_seq' = 0 /\ last_top_seq' = SeqSize - 1 /\ top_latency' = 0
        /\ restarts < MaxRestarts /\ restarts' = restarts + 1
    BY <1>2 DEF ReceiverRestarts, sender
  <2>2. ambiguous' \in BOOLEAN
    BY <1>2 DEF ReceiverRestarts
  <2>3. {early', ambiguous'} \subseteq BOOLEAN
    BY <2>1, <2>2 DEF FInv, TypeOK
  <2>4. /\ 0 \in Seq32 /\ SeqSize - 1 \in Seq32 /\ 0 \in 0..(SeqMaxT + 1)
        /\ restarts' \in 0..MaxRestarts
    BY <2>1, DelimFacts DEF FInv, TypeOK, Seq32
  <2>5. Cardinality(frame_q') <= SeqMaxQ
    BY <2>1, FS_EmptySet, DelimFacts DEF FInv
  <2>6. Sent' = Sent
    BY <2>1 DEF Sent
  <2>7. TypeOK'
    BY <2>1, <2>3, <2>4, <2>5, <2>6 DEF FInv, TypeOK
  <2>8. Placed'
    BY <2>1, <2>6 DEF FInv, Placed
  <2> QED BY <2>7, <2>8 DEF FInv
<1>3. CASE UNCHANGED vars
  BY <1>3 DEF vars, sender, receiver, FInv, TypeOK, Placed, Sent
<1>4. ASSUME NEW f \in inFlight, Lose(f) PROVE FInv'
  <2>1. /\ inFlight' = inFlight \ {f} /\ lost' = lost \cup {f}
        /\ UNCHANGED <<first, DelimSeq, sent, number, frame_q, expected_seq, last_top_seq,
                       top_latency, channel, written, early, restarts, ambiguous>>
    BY <1>4 DEF Lose, sender, receiver
  <2>2. Sent' = Sent
    BY <2>1 DEF Sent
  <2>3. TypeOK'
    BY <2>1, <2>2 DEF FInv, TypeOK
  <2>4. Placed'
    BY <2>1, <2>2 DEF FInv, Placed
  <2> QED BY <2>3, <2>4 DEF FInv
<1>5. ASSUME NEW gone \in SUBSET inFlight, SenderRestarts(gone) PROVE FInv'
  <2>1. /\ inFlight' = inFlight \ gone /\ lost' = lost \cup gone /\ DelimSeq' = 0
        /\ restarts < MaxRestarts /\ restarts' = restarts + 1
        /\ UNCHANGED <<first, sent, number, frame_q, expected_seq, last_top_seq, top_latency,
                       channel, written, early>>
    BY <1>5 DEF SenderRestarts, receiver
  <2>2. ambiguous' \in BOOLEAN
    BY <1>5 DEF SenderRestarts
  <2>3. {early', ambiguous'} \subseteq BOOLEAN
    BY <2>1, <2>2 DEF FInv, TypeOK
  <2>4. 0 \in Seq32 /\ restarts' \in 0..MaxRestarts
    BY <2>1, DelimFacts DEF FInv, TypeOK, Seq32
  <2>5. Sent' = Sent
    BY <2>1 DEF Sent
  <2>6. TypeOK'
    BY <2>1, <2>3, <2>4, <2>5 DEF FInv, TypeOK
  <2>7. Placed'
    BY <2>1, <2>5 DEF FInv, Placed
  <2> QED BY <2>6, <2>7 DEF FInv
<1> QED BY <1>1, <1>2, <1>3, <1>4, <1>5

-----------------------------------------------------------------------------
(* No frame is lost or repeated *)

\* Every frame in one place is what FramesConserved counts.
LEMMA FInvEnough == FInv => FramesConserved
<1> SUFFICES ASSUME FInv, NEW f \in Sent
             PROVE  (IF f \in inFlight THEN 1 ELSE 0) + (IF f \in lost THEN 1 ELSE 0)
                      + (IF f \in frame_q THEN 1 ELSE 0)
                      + Cardinality({i \in DOMAIN written : written[i] = f}) = 1
  BY DEF FramesConserved, FInv
<1>1. Cardinality({i \in DOMAIN written : written[i] = f}) = IF f \in ToSet(written) THEN 1 ELSE 0
  BY TimesInQueue DEF FInv, TypeOK, Placed
<1>2. \/ f \in inFlight /\ f \notin lost /\ f \notin frame_q /\ f \notin ToSet(written)
      \/ f \notin inFlight /\ f \in lost /\ f \notin frame_q /\ f \notin ToSet(written)
      \/ f \notin inFlight /\ f \notin lost /\ f \in frame_q /\ f \notin ToSet(written)
      \/ f \notin inFlight /\ f \notin lost /\ f \notin frame_q /\ f \in ToSet(written)
  BY DEF FInv, Placed
<1> QED BY <1>1, <1>2

\* Every step keeps the invariant.
LEMMA FInvStep == FInv /\ [Next]_vars => FInv'
  BY AddDelimKeeps, HandleFrameKeeps, OtherStepsKeep DEF Next

\* HandleFrame neither loses nor repeats a frame, whatever order the frames arrive in,
\* whatever their numbers are after a wrap or a restart, and whichever way it finds
\* out of a gap; and it never holds more than SeqMaxQ frames.
THEOREM FramesAlwaysConserved == Spec => []FramesConserved
<1>1. Spec => []FInv
  BY FInvInit, FInvStep, PTL DEF Spec
<1> QED BY <1>1, FInvEnough, PTL

-----------------------------------------------------------------------------
(* Sequence numbers *)

\* A number is a multiple of the modulus and the remainder.
LEMMA ModParts ==
    ASSUME NEW a \in Int
    PROVE  \E d \in Int : a = SeqSize * d + (a % SeqSize)
<1>1. a \div SeqSize \in Int /\ a = SeqSize * (a \div SeqSize) + (a % SeqSize)
  OBVIOUS
<1> QED BY <1>1

\* The remainders of two numbers less than the modulus apart differ as they do, or
\* the number has wrapped between them.
LEMMA ModNear ==
    ASSUME NEW a \in Int, NEW b \in Int, a <= b, b - a < SeqSize
    PROVE  \/ (b % SeqSize) = (a % SeqSize) + (b - a)
           \/ (b % SeqSize) = (a % SeqSize) + (b - a) - SeqSize
<1>1. PICK c \in Int : a = SeqSize * c + (a % SeqSize)
  BY ModParts
<1>2. PICK d \in Int : b = SeqSize * d + (b % SeqSize)
  BY ModParts
<1>3. (a % SeqSize) \in 0..(SeqSize - 1) /\ (b % SeqSize) \in 0..(SeqSize - 1)
  BY NumberRange DEF Seq32
<1>4. SeqSize * (d - c) = (b - a) + (a % SeqSize) - (b % SeqSize)
  BY <1>1, <1>2, <1>3
<1>5. SeqSize * (d - c) > 0 - SeqSize /\ SeqSize * (d - c) < 2 * SeqSize
  BY <1>3, <1>4
<1>6. d - c \in {0, 1}
  <2>1. \A z \in Int : z <= -1 => SeqSize * z <= 0 - SeqSize
    OBVIOUS
  <2>2. \A z \in Int : z >= 2 => SeqSize * z >= 2 * SeqSize
    OBVIOUS
  <2>3. d - c \in Int
    OBVIOUS
  <2>4. ~(d - c <= -1) /\ ~(d - c >= 2)
    <3>1. SeqSize * (d - c) \in Int
      OBVIOUS
    <3> QED BY <1>5, <2>1, <2>2, <2>3, <3>1
  <2> QED BY <2>3, <2>4
<1>7. SeqSize * 0 = 0 /\ SeqSize * 1 = SeqSize
  OBVIOUS
<1> QED BY <1>3, <1>4, <1>6, <1>7

\* Counting on from a remainder is counting on from the number.
LEMMA ModCountOn ==
    ASSUME NEW a \in Int, NEW k \in Int
    PROVE  ((a % SeqSize) + k) % SeqSize = (a + k) % SeqSize
<1>1. PICK p \in 0..(SeqSize - 1) : p = a % SeqSize
  BY NumberRange DEF Seq32
<1>2. PICK x \in 0..(SeqSize - 1) : x = (p + k) % SeqSize
  <2>1. p + k \in Int
    OBVIOUS
  <2> QED BY <2>1, NumberRange DEF Seq32
<1>3. PICK y \in 0..(SeqSize - 1) : y = (a + k) % SeqSize
  <2>1. a + k \in Int
    OBVIOUS
  <2> QED BY <2>1, NumberRange DEF Seq32
<1>4. PICK c \in Int : a = SeqSize * c + p
  BY <1>1, ModParts
<1>5. PICK d \in Int : p + k = SeqSize * d + x
  <2>1. p + k \in Int
    OBVIOUS
  <2> QED BY <1>2, <2>1, ModParts
<1>6. PICK b \in Int : a + k = SeqSize * b + y
  <2>1. a + k \in Int
    OBVIOUS
  <2> QED BY <1>3, <2>1, ModParts
<1>7. PICK z \in Int : z = b - c - d
  OBVIOUS
<1>8. SeqSize * z = x - y
  <2>1. SeqSize * z = SeqSize * b - SeqSize * c - SeqSize * d
    BY <1>7
  <2>2. SeqSize * b \in Int /\ SeqSize * c \in Int /\ SeqSize * d \in Int
    OBVIOUS
  <2> QED BY <1>4, <1>5, <1>6, <2>1, <2>2
<1>9. z = 0
  <2>1. z <= -1 => SeqSize * z <= 0 - SeqSize
    OBVIOUS
  <2>2. z >= 1 => SeqSize * z >= SeqSize
    OBVIOUS
  <2>3. x - y > 0 - SeqSize /\ x - y < SeqSize
    OBVIOUS
  <2> QED BY <1>8, <2>1, <2>2, <2>3
<1>10. x = y
  BY <1>8, <1>9
<1> QED BY <1>1, <1>2, <1>3, <1>10

\* Numbers less than the modulus apart with one remainder are the same.
LEMMA ModSame ==
    ASSUME NEW a \in Int, NEW b \in Int, a - b < SeqSize, b - a < SeqSize,
           (a % SeqSize) = (b % SeqSize)
    PROVE  a = b
<1>1. PICK r \in Int : (a % SeqSize) = r /\ (b % SeqSize) = r
  BY NumberRange DEF Seq32
<1>2. CASE a <= b
  <2>1. \/ (b % SeqSize) = (a % SeqSize) + (b - a)
        \/ (b % SeqSize) = (a % SeqSize) + (b - a) - SeqSize
    BY <1>2, ModNear
  <2> QED BY <1>1, <2>1
<1>3. CASE b <= a
  <2>1. \/ (a % SeqSize) = (b % SeqSize) + (a - b)
        \/ (a % SeqSize) = (b % SeqSize) + (a - b) - SeqSize
    BY <1>3, ModNear
  <2> QED BY <1>1, <2>1
<1> QED BY <1>2, <1>3

\* The number frame x carries if the sender's count was 0 at frame off.
Num(x, off) == (x - off) % SeqSize

\* Half the numbers, rounded down.
LEMMA HalfFacts == Half \in Nat /\ 2 * Half < SeqSize
  BY DEF Half

\* Numbers of frames that are near each other, counted from one start, are the
\* same only if the frames are.
LEMMA NumSame ==
    ASSUME NEW x \in Int, NEW y \in Int, NEW off \in Int, x - y < SeqSize, y - x < SeqSize,
           Num(x, off) = Num(y, off)
    PROVE  x = y
<1>1. x - off \in Int /\ y - off \in Int
  OBVIOUS
<1>2. (x - off) - (y - off) < SeqSize /\ (y - off) - (x - off) < SeqSize
  OBVIOUS
<1>3. x - off = y - off
  BY <1>1, <1>2, ModSame DEF Num
<1> QED BY <1>3

\* Counting on.
LEMMA NumCountOn ==
    ASSUME NEW x \in Int, NEW off \in Int, NEW k \in Int
    PROVE  (Num(x, off) + k) % SeqSize = Num(x + k, off)
<1>1. x - off \in Int /\ (x - off) + k = (x + k) - off
  OBVIOUS
<1> QED BY <1>1, ModCountOn DEF Num

\* FrameCmp puts frames less than half the numbers apart in the order they were sent.
LEMMA CmpIsOrder ==
    ASSUME NEW x \in Int, NEW y \in Int, NEW off \in Int, x # y, x - y < Half, y - x < Half,
           seq(x) = Num(x, off), seq(y) = Num(y, off)
    PROVE  FrameCmp(x, y) <=> x > y
<1>1. PICK a \in 0..(SeqSize - 1) : a = seq(x)
  <2>1. x - off \in Int
    OBVIOUS
  <2> QED BY <2>1, NumberRange DEF Num, Seq32
<1>2. PICK b \in 0..(SeqSize - 1) : b = seq(y)
  <2>1. y - off \in Int
    OBVIOUS
  <2> QED BY <2>1, NumberRange DEF Num, Seq32
<1>3. PICK h \in Nat : h = Half /\ 2 * h < SeqSize
  BY HalfFacts
<1>4. CASE x < y
  <2>1. (x - off) <= (y - off) /\ (y - off) - (x - off) < SeqSize /\ x - off \in Int /\ y - off \in Int
    BY <1>3, <1>4
  <2>2. b = a + ((y - off) - (x - off)) \/ b = a + ((y - off) - (x - off)) - SeqSize
    BY <1>1, <1>2, <2>1, ModNear DEF Num
  <2>3. ~(IF a > b THEN a - b < h ELSE ~(b - a < h))
    BY <1>3, <1>4, <2>2
  <2> QED BY <1>1, <1>2, <1>3, <1>4, <2>3 DEF FrameCmp
<1>5. CASE y < x
  <2>1. (y - off) <= (x - off) /\ (x - off) - (y - off) < SeqSize /\ x - off \in Int /\ y - off \in Int
    BY <1>3, <1>5
  <2>2. a = b + ((x - off) - (y - off)) \/ a = b + ((x - off) - (y - off)) - SeqSize
    BY <1>1, <1>2, <2>1, ModNear DEF Num
  <2>3. IF a > b THEN a - b < h ELSE ~(b - a < h)
    BY <1>3, <1>5, <2>2
  <2> QED BY <1>1, <1>2, <1>3, <1>5, <2>3 DEF FrameCmp
<1> QED BY <1>4, <1>5

\* Frames within half the numbers from frame E on, numbered from frame off on.
Window(q, E, off) ==
    \A x \in q : x \in Nat /\ E <= x /\ x - E < Half /\ seq(x) = Num(x, off)

\* The frame at the top of such a queue is the first that was sent.
LEMMA TopIsFirst ==
    ASSUME NEW q, NEW E \in Int, NEW off \in Int, Window(q, E, off), NEW top \in Tops(q)
    PROVE  top \in q /\ \A x \in q : top <= x
<1>1. \A x, y \in q : x # y => (FrameCmp(x, y) <=> x > y)
  <2> SUFFICES ASSUME NEW x \in q, NEW y \in q, x # y PROVE FrameCmp(x, y) <=> x > y
    OBVIOUS
  <2>1. x \in Int /\ y \in Int /\ seq(x) = Num(x, off) /\ seq(y) = Num(y, off)
    BY DEF Window
  <2>2. x - y < Half /\ y - x < Half
    BY HalfFacts DEF Window
  <2> QED BY <2>1, <2>2, CmpIsOrder
<1>2. top \in q /\ q \in SUBSET Nat
  BY TopsIn DEF Window
<1>3. PICK m \in q : \A x \in q : m <= x
  BY <1>2, LeastNat
<1>4. \A x \in q \ {m} : ~FrameCmp(m, x)
  BY <1>1, <1>2, <1>3
<1>5. \A x \in q \ {top} : ~FrameCmp(top, x)
  BY <1>4 DEF Tops
<1>6. top = m
  BY <1>1, <1>2, <1>3, <1>5
<1> QED BY <1>2, <1>3, <1>6

\* There is one.
LEMMA TopExists ==
    ASSUME NEW q, q # {}
    PROVE  Tops(q) # {}
  BY DEF Tops

\* If the top has the number expected, the loop writes it and the frames that follow
\* on it without a gap, and leaves no frame that would continue them.
LEMMA RunIsInterval ==
    ASSUME NEW q, NEW E \in Int, NEW off \in Int, Window(q, E, off), NEW top \in Tops(q),
           NEW n \in Nat, n <= Half, NEW run \in [1..n -> q], IsRun(q, top, seq(top), run)
    PROVE  /\ n >= 1
           /\ \A i \in 1..n : run[i] = top + i - 1
           /\ top + n \notin q
<1>1. top \in q /\ top \in Nat /\ \A x \in q : top <= x
  BY TopIsFirst DEF Window
<1>2. run \in Seq(q) /\ Len(run) = n /\ DOMAIN run = 1..n
  OBVIOUS
<1>3. n >= 1
  <2>1. run # <<>>
    BY DEF IsRun
  <2> QED BY <1>2, <2>1
<1>4. ASSUME NEW i \in 1..n PROVE run[i] = top + i - 1
  <2>1. CASE i = 1
    BY <1>1, <1>2, <2>1 DEF IsRun
  <2>2. CASE i # 1
    <3>1. seq(run[i]) = (seq(top) + (i - 1)) % SeqSize
      BY <1>2, <2>2 DEF IsRun
    <3>2. seq(top) = Num(top, off) /\ seq(run[i]) = Num(run[i], off) /\ run[i] \in Nat
      BY <1>1 DEF Window
    <3>3. Num(run[i], off) = Num(top + (i - 1), off)
      BY <1>1, <3>1, <3>2, NumCountOn
    <3>4. top + (i - 1) \in Int /\ run[i] - (top + (i - 1)) < SeqSize /\ (top + (i - 1)) - run[i] < SeqSize
      <4>1. top <= run[i] /\ run[i] - E < Half /\ E <= top /\ run[i] \in Nat
        BY <1>1 DEF Window
      <4> QED BY <1>1, <4>1, HalfFacts
    <3>5. run[i] = top + (i - 1)
      BY <3>2, <3>3, <3>4, NumSame
    <3> QED BY <1>1, <3>5
  <2> QED BY <2>1, <2>2
<1>5. top + n \notin q
  <2> SUFFICES ASSUME top + n \in q PROVE FALSE
    OBVIOUS
  <2>1. PICK left : left = q \ {run[j] : j \in 1..n}
    OBVIOUS
  <2>2. top + n \in left
    BY <1>1, <1>4, <2>1
  <2>3. \A x \in left : top + n <= x
    <3> SUFFICES ASSUME NEW x \in left, x < top + n PROVE FALSE
      BY <1>1, <2>1 DEF Window
    <3>1. x \in Nat /\ top <= x
      BY <1>1, <2>1 DEF Window
    <3>2. x - top + 1 \in 1..n /\ run[x - top + 1] = x
      BY <1>1, <1>4, <3>1
    <3> QED BY <2>1, <3>2
  <2>4. PICK f \in Tops(left) : seq(f) # (seq(top) + n) % SeqSize
    <3>1. run # <<>> /\ left # {}
      BY <1>2, <1>3, <2>2
    <3> QED BY <1>2, <2>1, <3>1 DEF IsRun
  <2>5. Window(left, E, off)
    BY <2>1 DEF Window
  <2>6. f = top + n
    <3>1. f \in left /\ f <= top + n
      BY <2>2, <2>5, TopIsFirst
    <3> QED BY <1>1, <2>3, <3>1, <2>5 DEF Window
  <2>7. seq(f) = Num(f, off) /\ seq(top) = Num(top, off)
    BY <1>1, <2>1, TopsIn DEF Window
  <2> QED BY <1>1, <2>4, <2>6, <2>7, NumCountOn
<1> QED BY <1>3, <1>4, <1>5

-----------------------------------------------------------------------------
(* How many frames may be missing *)

\* How many frames can have been lost.
MaxGone == MaxLost + MaxRestarts * (SeqMaxQ + MaxInFlight)

\* The numbers suffice, the frames on their way and lost are bounded, and a frame that is held was sent
\* at most channel.reorder after each that is on its way.
Few ==
    /\ WindowFits
    /\ Cardinality(inFlight) <= MaxInFlight
    /\ Cardinality(lost) <= MaxLost + restarts * (SeqMaxQ + MaxInFlight)
    /\ \A g \in inFlight, h \in frame_q : h <= g + channel.reorder

\* Two sets together have at most as many elements as one and the other.
LEMMA UnionAtMost ==
    ASSUME NEW A, NEW B, IsFiniteSet(A), IsFiniteSet(B)
    PROVE  /\ IsFiniteSet(A \cup B)
           /\ Cardinality(A \cup B) <= Cardinality(A) + Cardinality(B)
<1>1. /\ IsFiniteSet(A \cup B)
      /\ Cardinality(A \cup B) = Cardinality(A) + Cardinality(B) - Cardinality(A \cap B)
  BY FS_Union
<1>2. IsFiniteSet(A \cap B)
  BY FS_Intersection
<1>3. Cardinality(A \cap B) \in Nat /\ Cardinality(A) \in Nat /\ Cardinality(B) \in Nat
  BY <1>2, FS_CardinalityType
<1> QED BY <1>1, <1>3

\* A set that holds an interval has as many elements at least.
LEMMA IntervalIn ==
    ASSUME NEW A, IsFiniteSet(A), NEW a \in Int, NEW b \in Int, \A x \in a..b : x \in A
    PROVE  b - a + 1 <= Cardinality(A) /\ Cardinality(A) \in Nat
<1>1. Cardinality(A) \in Nat
  BY FS_CardinalityType
<1>2. CASE a > b
  BY <1>1, <1>2
<1>3. CASE a <= b
  <2>1. Cardinality(a..b) = b - a + 1
    BY <1>3, FS_Interval
  <2>2. Cardinality(a..b) <= Cardinality(A)
    <3>1. a..b \subseteq A
      OBVIOUS
    <3> QED BY <3>1, FS_Subset
  <2> QED BY <1>1, <2>1, <2>2
<1> QED BY <1>2, <1>3

\* The numbers involved.
LEMMA FewFacts ==
    ASSUME TypeOK
    PROVE  /\ IsFiniteSet(inFlight) /\ Cardinality(inFlight) \in Nat
           /\ IsFiniteSet(lost) /\ Cardinality(lost) \in Nat
           /\ restarts \in Nat /\ restarts <= MaxRestarts
           /\ MaxLost \in Nat /\ MaxInFlight \in Nat /\ SeqMaxQ \in Nat /\ MaxRestarts \in Nat
           /\ channel.reorder \in Nat /\ channel.reorder \in Reorders
           /\ channel.delay \in Nat
<1>1. IsFiniteSet(inFlight) /\ IsFiniteSet(lost)
  BY HeldFinite, FS_Subset DEF TypeOK
<1>2. MaxLost \in Nat /\ MaxInFlight \in Nat /\ SeqMaxQ \in Nat /\ MaxRestarts \in Nat
  OBVIOUS
<1>3. restarts \in Nat /\ restarts <= MaxRestarts
  BY <1>2 DEF TypeOK
<1>4. channel.reorder \in Reorders /\ channel.delay \in Delays
  BY DEF TypeOK
<1> QED BY <1>1, <1>2, <1>3, <1>4, FS_CardinalityType

\* What can have been lost altogether.
LEMMA LostAtMost ==
    ASSUME TypeOK, Few
    PROVE  MaxGone \in Nat /\ Cardinality(lost) <= MaxGone
<1>1. PICK K \in Nat : K = SeqMaxQ + MaxInFlight
  BY FewFacts
<1>2. restarts * K <= MaxRestarts * K /\ restarts * K \in Nat /\ MaxRestarts * K \in Nat
  BY FewFacts
<1>3. Cardinality(lost) <= MaxLost + restarts * K
  BY <1>1 DEF Few
<1>4. MaxGone = MaxLost + MaxRestarts * K
  BY <1>1 DEF MaxGone
<1> QED BY <1>2, <1>3, <1>4, FewFacts

\* The bounds hold in the beginning.
LEMMA FewInit ==
    ASSUME WindowFits, Init
    PROVE  Few
<1>1. inFlight = {} /\ lost = {} /\ restarts = 0 /\ frame_q = {}
  BY DEF Init
<1>2. MaxLost \in Nat /\ MaxInFlight \in Nat /\ SeqMaxQ \in Nat
  OBVIOUS
<1>3. 0 * (SeqMaxQ + MaxInFlight) = 0
  BY <1>2
<1> QED BY <1>1, <1>2, <1>3, FS_EmptySet DEF Few

\* Every step keeps the bounds.
LEMMA FewStep == FInv /\ Few /\ [Next]_vars => Few'
<1> SUFFICES ASSUME FInv, Few, [Next]_vars PROVE Few'
  OBVIOUS
<1>0. TypeOK
  BY DEF FInv
<1>1. PICK K \in Nat : K = SeqMaxQ + MaxInFlight
  BY <1>0, FewFacts
<1>2. restarts * K \in Nat /\ (restarts + 1) * K = restarts * K + K
  BY <1>0, FewFacts
<1>3. PICK G \in Nat : G = restarts * K
  BY <1>2
<1>4. Cardinality(lost) <= MaxLost + G
  BY <1>1, <1>3 DEF Few
<1>a. ASSUME NEW gone \in {{}} \cup {{f} : f \in inFlight \cup {sent + 1}}, AddDelim(gone)
      PROVE  Few'
  <2>1. /\ Cardinality(inFlight) < MaxInFlight
        /\ gone = {} \/ Cardinality(lost) < MaxLost
        /\ inFlight' = (inFlight \cup {sent + 1}) \ gone /\ lost' = lost \cup gone
        /\ frame_q' = frame_q /\ channel' = channel /\ restarts' = restarts
    BY <1>a DEF AddDelim, receiver
  <2>2. Cardinality(inFlight') <= MaxInFlight
    <3>1. IsFiniteSet({sent + 1}) /\ Cardinality({sent + 1}) = 1
      BY FS_Singleton
    <3>2. /\ IsFiniteSet(inFlight \cup {sent + 1})
          /\ Cardinality(inFlight \cup {sent + 1}) <= Cardinality(inFlight) + 1
      BY <1>0, <3>1, FewFacts, UnionAtMost
    <3>3. /\ Cardinality(inFlight') <= Cardinality(inFlight \cup {sent + 1})
          /\ Cardinality(inFlight') \in Nat /\ Cardinality(inFlight \cup {sent + 1}) \in Nat
      <4>1. inFlight' \subseteq inFlight \cup {sent + 1}
        BY <2>1
      <4>2. PICK A : A = inFlight'
        OBVIOUS
      <4>3. /\ IsFiniteSet(A) /\ Cardinality(A) <= Cardinality(inFlight \cup {sent + 1})
        BY <3>2, <4>1, <4>2, FS_Subset
      <4> QED BY <3>2, <4>2, <4>3, FS_CardinalityType
    <3> QED BY <1>0, <2>1, <3>2, <3>3, FewFacts
  <2>3. Cardinality(lost') <= MaxLost + G
    <3>1. CASE gone = {}
      BY <1>4, <2>1, <3>1
    <3>2. CASE gone # {}
      <4>1. PICK f : gone = {f}
        BY <3>2
      <4>2. IsFiniteSet(gone) /\ Cardinality(gone) = 1
        BY <4>1, FS_Singleton
      <4>3. Cardinality(lost \cup gone) <= Cardinality(lost) + 1 /\ IsFiniteSet(lost \cup gone)
        BY <1>0, <4>2, FewFacts, UnionAtMost
      <4>4. Cardinality(lost \cup gone) \in Nat
        BY <4>3, FS_CardinalityType
      <4>5. Cardinality(lost) < MaxLost
        BY <2>1, <3>2
      <4>6. Cardinality(lost \cup gone) <= MaxLost + G
        BY <1>0, <4>3, <4>4, <4>5, FewFacts
      <4> QED BY <2>1, <4>6
    <3> QED BY <3>1, <3>2
  <2>4. \A g \in inFlight', h \in frame_q' : h <= g + channel'.reorder
    <3> SUFFICES ASSUME NEW g \in inFlight \cup {sent + 1}, NEW h \in frame_q
                 PROVE  h <= g + channel.reorder
      BY <2>1
    <3>1. h <= sent /\ h \in Nat /\ sent \in Nat
      BY <1>0, DelimFacts DEF TypeOK, Sent
    <3> QED BY <1>0, <3>1, FewFacts DEF Few
  <2> QED BY <1>1, <1>3, <2>1, <2>2, <2>3, <2>4 DEF Few
<1>b. ASSUME NEW f \in inFlight, Lose(f) PROVE Few'
  <2>1. /\ Cardinality(lost) < MaxLost
        /\ inFlight' = inFlight \ {f} /\ lost' = lost \cup {f}
        /\ frame_q' = frame_q /\ channel' = channel /\ restarts' = restarts
    BY <1>b DEF Lose, sender, receiver
  <2>2. Cardinality(inFlight \ {f}) <= Cardinality(inFlight) /\ Cardinality(inFlight \ {f}) \in Nat
    BY <1>0, FewFacts, FS_Subset, FS_CardinalityType
  <2>3. Cardinality(lost \cup {f}) <= Cardinality(lost) + 1 /\ IsFiniteSet(lost \cup {f})
    <3>1. IsFiniteSet({f}) /\ Cardinality({f}) = 1
      BY FS_Singleton
    <3> QED BY <1>0, <3>1, FewFacts, UnionAtMost
  <2>4. Cardinality(lost \cup {f}) \in Nat
    BY <2>3, FS_CardinalityType
  <2>5. Cardinality(lost \cup {f}) <= MaxLost + G
    BY <1>0, <2>1, <2>3, <2>4, FewFacts
  <2>6. Cardinality(inFlight \ {f}) <= MaxInFlight
    BY <1>0, <2>2, FewFacts DEF Few
  <2>7. \A g \in inFlight', h \in frame_q' : h <= g + channel'.reorder
    BY <2>1 DEF Few
  <2> QED BY <1>1, <1>3, <2>1, <2>5, <2>6, <2>7 DEF Few
<1>c. ASSUME NEW f \in inFlight, HandleFrame(f) PROVE Few'
  <2>1. /\ inFlight' = inFlight \ {f} /\ Handle(f, inFlight')
        /\ \A g \in inFlight : f <= g + channel.reorder
        /\ UNCHANGED <<channel, lost, restarts>>
    BY <1>c DEF HandleFrame
  <2>2. frame_q' \subseteq frame_q \cup {f}
    <3>1. PICK onTheWay : onTheWay = inFlight'
      OBVIOUS
    <3>2. Handle(f, onTheWay) /\ f \in Sent
      BY <1>0, <2>1, <3>1 DEF TypeOK
    <3> QED BY <1>0, <3>2, HandleKeeps
  <2>3. Cardinality(inFlight \ {f}) <= Cardinality(inFlight) /\ Cardinality(inFlight \ {f}) \in Nat
    BY <1>0, FewFacts, FS_Subset, FS_CardinalityType
  <2>4. Cardinality(inFlight \ {f}) <= MaxInFlight
    BY <1>0, <2>3, FewFacts DEF Few
  <2>5. \A g \in inFlight', h \in frame_q' : h <= g + channel'.reorder
    BY <2>1, <2>2 DEF Few
  <2> QED BY <2>1, <2>4, <2>5 DEF Few
<1>d. ASSUME NEW gone \in SUBSET inFlight, SenderRestarts(gone) PROVE Few'
  <2>1. /\ inFlight' = inFlight \ gone /\ lost' = lost \cup gone /\ restarts' = restarts + 1
        /\ frame_q' = frame_q /\ channel' = channel
    BY <1>d DEF SenderRestarts, receiver
  <2>2. /\ Cardinality(inFlight \ gone) <= Cardinality(inFlight) /\ Cardinality(inFlight \ gone) \in Nat
        /\ Cardinality(gone) <= Cardinality(inFlight) /\ IsFiniteSet(gone)
    BY <1>0, FewFacts, FS_Subset, FS_CardinalityType
  <2>3. Cardinality(lost \cup gone) <= Cardinality(lost) + Cardinality(gone) /\ IsFiniteSet(lost \cup gone)
    BY <1>0, <2>2, FewFacts, UnionAtMost
  <2>4. Cardinality(lost \cup gone) \in Nat /\ Cardinality(gone) \in Nat
    BY <2>2, <2>3, FS_CardinalityType
  <2>5. Cardinality(lost \cup gone) <= MaxLost + (G + K)
    BY <1>0, <1>1, <1>4, <2>2, <2>3, <2>4, FewFacts DEF Few
  <2>6. Cardinality(inFlight \ gone) <= MaxInFlight
    BY <1>0, <2>2, FewFacts DEF Few
  <2>7. \A g \in inFlight', h \in frame_q' : h <= g + channel'.reorder
    BY <2>1 DEF Few
  <2> QED BY <1>1, <1>2, <1>3, <2>1, <2>5, <2>6, <2>7 DEF Few
<1>e. ASSUME ReceiverRestarts PROVE Few'
  <2>1. /\ inFlight' = inFlight /\ lost' = lost \cup frame_q /\ restarts' = restarts + 1
        /\ frame_q' = {} /\ channel' = channel
    BY <1>e DEF ReceiverRestarts, sender
  <2>2. IsFiniteSet(frame_q) /\ Cardinality(frame_q) \in Nat /\ Cardinality(frame_q) <= SeqMaxQ
    BY <1>0, HeldFinite
  <2>3. Cardinality(lost \cup frame_q) <= Cardinality(lost) + Cardinality(frame_q)
        /\ IsFiniteSet(lost \cup frame_q)
    BY <1>0, <2>2, FewFacts, UnionAtMost
  <2>4. Cardinality(lost \cup frame_q) \in Nat
    BY <2>3, FS_CardinalityType
  <2>5. Cardinality(lost \cup frame_q) <= MaxLost + (G + K)
    BY <1>0, <1>1, <1>4, <2>2, <2>3, <2>4, FewFacts
  <2> QED BY <1>1, <1>2, <1>3, <2>1, <2>5 DEF Few
<1>f. CASE Tick \/ UNCHANGED vars
  BY <1>f DEF Tick, Later, vars, sender, receiver, Few
<1> QED BY <1>a, <1>b, <1>c, <1>d, <1>e, <1>f DEF Next

-----------------------------------------------------------------------------
(* The order of the frames: E is the frame whose turn it is, off the one at which  *)
(* the sender last started to count.                                               *)

\* The frames that may still be written.
Live == inFlight \cup frame_q
\* How far the frames held can reach beyond the one whose turn it is,
Span == channel.reorder + SeqMaxQ + MaxGone
\* and how far the first to arrive after a restart can.
Near == channel.reorder + MaxLost

\* The sender counts from frame off on, and so are the frames numbered that may
\* still be written.
Numbered(off) ==
    /\ DelimSeq = Num(sent + 1, off)
    /\ \A f \in Live : seq(f) = Num(f, off)

\* What may still be written is E or a later frame, and what is not is lost.
Ahead(E) ==
    /\ E \in (first + 1)..(sent + 1)
    /\ \A f \in Live : E <= f
    /\ \A x \in E..sent : x \in Live \cup lost

\* What is written are frames before E, in order, and all of them if none is lost.
Behind(E) ==
    /\ \A i \in DOMAIN written : written[i] < E
    /\ \A i, j \in DOMAIN written : i < j => written[i] < written[j]
    /\ lost = {} => /\ Len(written) = E - 1 - first
                    /\ \A i \in DOMAIN written : written[i] = first + i

\* The handler waits for E and does not hold it,
Synced(E, off) ==
    /\ expected_seq = Num(E, off)
    /\ E \notin frame_q
\* or it was restarted, or the sender was, and the number it waits for is none of those
\* that the first frames to arrive may have.
Searching(E, off) ==
    /\ \A k \in 0..Near : expected_seq # Num(E + k, off)
    /\ E \in lost => Cardinality(lost) <= MaxLost
    /\ frame_q # {} => \E h \in frame_q : h <= E + Near

\* When none is held, the last number seen at the top is not one that may arrive before
\* an earlier frame.
TopKnown(E, off) ==
    frame_q = {} =>
        \/ \A k \in 0..Span : last_top_seq # Num(E + k, off)
        \/ /\ \A k \in 1..Near : last_top_seq # Num(E + k, off)
           /\ E \in lost => Cardinality(lost) <= MaxLost

Ordered(E, off) ==
    /\ Numbered(off)
    /\ Ahead(E)
    /\ Behind(E)
    /\ Synced(E, off) \/ Searching(E, off)
    /\ TopKnown(E, off)

OInv == ~early /\ ~ambiguous => \E E, off \in Nat : Ordered(E, off)

\* The numbers involved.
LEMMA SpanFacts ==
    ASSUME TypeOK, Few
    PROVE  /\ Span \in Nat /\ Near \in Nat /\ Span < Half /\ SeqMaxQ + 1 <= Half
           /\ MaxGone \in Nat /\ channel.reorder \in Nat /\ SeqMaxQ \in Nat
           /\ Cardinality(lost) \in Nat /\ Cardinality(lost) <= MaxGone
<1>1. /\ MaxGone \in Nat /\ Cardinality(lost) <= MaxGone
  BY LostAtMost
<1>2. channel.reorder + SeqMaxQ + MaxGone < Half
  <2>1. PICK p : p = MaxRestarts * (SeqMaxQ + MaxInFlight)
    OBVIOUS
  <2>2. \A r \in Reorders : r + SeqMaxQ + MaxLost + p < Half
    BY <2>1 DEF Few, WindowFits
  <2>3. p \in Int
    BY <2>1, FewFacts
  <2>4. MaxGone = MaxLost + p
    BY <2>1 DEF MaxGone
  <2> QED BY <2>2, <2>3, <2>4, FewFacts
<1> QED BY <1>1, <1>2, FewFacts, HalfFacts DEF Span, Near

\* The frames that may still be written have been sent.
LEMMA LiveFacts ==
    ASSUME TypeOK
    PROVE  /\ Live \subseteq Sent /\ first \in Nat /\ sent \in Nat /\ first <= sent
           /\ \A x \in Sent : x \in Nat /\ first < x /\ x <= sent
           /\ \A x \in Live : x \in Nat /\ x <= sent
<1>1. Live \subseteq Sent
  BY DEF TypeOK, Live
<1>2. first \in Nat /\ sent \in Nat /\ first <= sent
  BY DelimFacts
<1>3. \A x \in Sent : x \in Nat /\ first < x /\ x <= sent
  BY <1>2 DEF Sent
<1> QED BY <1>1, <1>2, <1>3

\* How far a frame can be beyond E if it is held or arrives.
LEMMA Reach ==
    ASSUME TypeOK, Few, NEW E \in Nat, Ahead(E), NEW f \in Live,
           \A g \in inFlight : f <= g + channel.reorder
    PROVE  f - E <= channel.reorder + Cardinality(frame_q) + Cardinality(lost)
<1>1. f \in Nat /\ sent \in Nat /\ f <= sent /\ E <= f
  BY LiveFacts DEF Ahead
<1>2. PICK r \in Nat : r = channel.reorder
  BY FewFacts
<1>3. \A x \in E..(f - r - 1) : x \in frame_q \cup lost
  <2> SUFFICES ASSUME NEW x \in E..(f - r - 1) PROVE x \in frame_q \cup lost
    OBVIOUS
  <2>1. x \in E..sent /\ x + r < f
    BY <1>1
  <2>2. x \notin inFlight
    BY <1>1, <1>2, <2>1
  <2> QED BY <2>1, <2>2 DEF Ahead, Live
<1>4. /\ IsFiniteSet(frame_q \cup lost)
      /\ Cardinality(frame_q \cup lost) <= Cardinality(frame_q) + Cardinality(lost)
  BY HeldFinite, FewFacts, UnionAtMost
<1>5. /\ (f - r - 1) - E + 1 <= Cardinality(frame_q \cup lost)
      /\ Cardinality(frame_q \cup lost) \in Nat
  <2>1. f - r - 1 \in Int /\ E \in Int
    BY <1>1
  <2> QED BY <1>3, <1>4, <2>1, IntervalIn
<1>6. \A c, a, b \in Nat : (f - r - 1) - E + 1 <= c /\ c <= a + b => f - E <= r + a + b
  BY <1>1
<1> QED BY <1>2, <1>4, <1>5, <1>6, HeldFinite, FewFacts

\* So those held and the one that arrives are near enough to be told apart.
LEMMA HeldInWindow ==
    ASSUME TypeOK, Few, NEW E \in Nat, NEW off \in Nat, Ahead(E), Numbered(off),
           NEW f \in Live, \A g \in inFlight : f <= g + channel.reorder
    PROVE  /\ Window(frame_q \cup {f}, E, off)
           /\ \A x \in frame_q \cup {f} : x - E <= Span
<1>1. ASSUME NEW x \in frame_q \cup {f}
      PROVE  x \in Nat /\ E <= x /\ x - E <= Span /\ seq(x) = Num(x, off)
  <2>1. x \in Live /\ \A g \in inFlight : x <= g + channel.reorder
    BY DEF Live, Few
  <2>2. x - E <= channel.reorder + Cardinality(frame_q) + Cardinality(lost)
    BY <2>1, Reach
  <2>3. x \in Nat /\ E <= x /\ seq(x) = Num(x, off)
    BY <2>1, LiveFacts DEF Ahead, Numbered
  <2>4. \A r, a, b, c, d \in Nat : x - E <= r + a + b /\ a <= c /\ b <= d => x - E <= r + c + d
    BY <2>3
  <2>5. x - E <= channel.reorder + SeqMaxQ + MaxGone
    BY <2>2, <2>4, HeldFinite, SpanFacts
  <2> QED BY <2>3, <2>5 DEF Span
<1>2. Span \in Nat /\ Span < Half /\ Half \in Nat
  BY SpanFacts, HalfFacts
<1> QED BY <1>1, <1>2 DEF Window

\* If none is held, the frame that arrives is near E, unless more than MaxLost are lost.
LEMMA ArrivesNear ==
    ASSUME FInv, Few, NEW E \in Nat, Ahead(E), E \in lost => Cardinality(lost) <= MaxLost,
           NEW f \in inFlight, HandleFrame(f), frame_q = {}
    PROVE  f - E <= Near /\ f <= E + Near
<1>1. TypeOK /\ f \in Live /\ \A g \in inFlight : f <= g + channel.reorder
  BY DEF FInv, Live, HandleFrame
<1>2. f \in Nat /\ E <= f /\ f <= sent /\ sent \in Nat
  BY <1>1, LiveFacts DEF Ahead
<1>3. f - E <= Near
  <2>1. CASE E \in inFlight
    <3>1. f <= E + channel.reorder
      BY <1>1, <2>1
    <3> QED BY <1>1, <1>2, <3>1, FewFacts DEF Near
  <2>2. CASE E \notin inFlight
    <3>1. E \in lost
      <4>1. E \in E..sent
        BY <1>2
      <4> QED BY <2>2, <4>1 DEF Ahead, Live
    <3>2. f - E <= channel.reorder + Cardinality(frame_q) + Cardinality(lost)
      BY <1>1, Reach
    <3>3. Cardinality(frame_q) = 0
      BY FS_EmptySet
    <3>4. \A r, c, m \in Nat : f - E <= r + 0 + c /\ c <= m => f - E <= r + m
      BY <1>2
    <3> QED BY <1>1, <3>1, <3>2, <3>3, <3>4, FewFacts DEF Near
  <2> QED BY <2>1, <2>2
<1> QED BY <1>1, <1>2, <1>3, SpanFacts

\* HandleFrame takes top, the first of the frames q, waits for number e and writes run:
\* top and those that follow on it if top has that number, and nothing otherwise.
HandleEffect(q, top, run, latency, e) ==
    /\ \A x \in q : top <= x
    /\ latency = IF seq(top) # last_top_seq THEN 0 ELSE top_latency
    /\ e = IF seq(top) # expected_seq /\ GiveUp(q, latency)
           THEN seq(top) ELSE expected_seq
    /\ last_top_seq' = seq(top)
    /\ top_latency' = latency
    /\ written' = written \o run
    /\ frame_q' = q \ ToSet(run)
    /\ expected_seq' = (e + Len(run)) % SeqSize
    /\ early' = (early \/ (e # expected_seq /\ \E g \in inFlight' : g < top))
    /\ \/ seq(top) # e /\ run = <<>>
       \/ /\ seq(top) = e /\ Len(run) \in 1..(SeqMaxQ + 1)
          /\ \A i \in 1..Len(run) : run[i] = top + i - 1
          /\ top + Len(run) \notin q

\* What HandleFrame does to frames that are near each other.
LEMMA HandleInWindow ==
    ASSUME FInv, NEW E \in Nat, NEW off \in Nat, NEW f \in inFlight, HandleFrame(f),
           NEW q, q = frame_q \cup {f}, Window(q, E, off)
    PROVE  \E top \in q, run \in Seq(q), latency \in Nat, e \in Seq32 :
             HandleEffect(q, top, run, latency, e)
<1>1. q = frame_q \cup {f}
  OBVIOUS
<1>2. TypeOK
  BY DEF FInv
<1>3. Window(q, E, off)
  OBVIOUS
<1>4. Handle(f, inFlight')
  BY DEF HandleFrame
<1>a. \A top \in Tops(q) : top \in q /\ \A x \in q : top <= x
  <2>1. E \in Int /\ off \in Int
    OBVIOUS
  <2> QED BY <1>3, <2>1, TopIsFirst
<1>b. ASSUME NEW run \in UNION {[1..n -> q] : n \in 0..Cardinality(q)}
      PROVE  \E n \in Nat : run \in [1..n -> q] /\ n <= SeqMaxQ + 1 /\ n <= Half
  <2>1. PICK n \in 0..Cardinality(q) : run \in [1..n -> q]
    OBVIOUS
  <2>2. Cardinality(q) \in Nat /\ Cardinality(q) <= SeqMaxQ + 1
    <3>1. IsFiniteSet({f}) /\ Cardinality({f}) = 1
      BY FS_Singleton
    <3>2. IsFiniteSet(q) /\ Cardinality(q) <= Cardinality(frame_q) + 1
      BY <1>1, <1>2, <3>1, HeldFinite, UnionAtMost
    <3>3. Cardinality(q) \in Nat
      BY <3>2, FS_CardinalityType
    <3> QED BY <1>2, <3>2, <3>3, HeldFinite, DelimFacts
  <2>3. n \in Nat /\ n <= SeqMaxQ + 1
    <3>1. PICK c \in Nat : c = Cardinality(q)
      BY <2>2
    <3>2. n \in 0..c
      BY <3>1
    <3>3. SeqMaxQ \in Nat /\ c <= SeqMaxQ + 1
      BY <2>2, <3>1
    <3>4. \A m \in 0..c : m \in Nat /\ m <= SeqMaxQ + 1
      BY <3>3
    <3> QED BY <3>2, <3>4
  <2>4. n <= Half
    <3>1. Half \in Nat /\ E \in Int /\ E + Half - 1 \in Int
      BY HalfFacts
    <3>2. q \subseteq E..(E + Half - 1)
      BY <1>3, <3>1 DEF Window
    <3>3. /\ IsFiniteSet(E..(E + Half - 1))
          /\ Cardinality(E..(E + Half - 1)) = IF E > E + Half - 1 THEN 0 ELSE (E + Half - 1) - E + 1
      BY <3>1, FS_Interval
    <3>4. Cardinality(q) <= Cardinality(E..(E + Half - 1))
      BY <3>2, <3>3, FS_Subset
    <3>5. Cardinality(q) <= Half
      BY <2>2, <3>1, <3>3, <3>4
    <3> QED BY <2>2, <3>1, <3>5
  <2> QED BY <2>1, <2>3, <2>4
<1> DEFINE lat(top) == IF seq(top) # last_top_seq THEN 0 ELSE top_latency
           ex(top) == IF seq(top) # expected_seq /\ GiveUp(q, lat(top))
                      THEN seq(top) ELSE expected_seq
<1>5. PICK top \in Tops(q), run \in UNION {[1..n -> q] : n \in 0..Cardinality(q)} :
         /\ IsRun(q, top, ex(top), run)
         /\ last_top_seq' = seq(top)
         /\ top_latency' = lat(top)
         /\ written' = written \o run
         /\ frame_q' = Remaining(q, run)
         /\ expected_seq' = (ex(top) + Len(run)) % SeqSize
         /\ early' = (early \/ (ex(top) # expected_seq /\ \E g \in inFlight' : g < top))
  BY <1>1, <1>4 DEF Handle
<1>6. top \in q /\ \A x \in q : top <= x
  BY <1>a
<1>7. PICK latency \in Nat : latency = lat(top)
  <2>1. top_latency \in Nat
    BY <1>2, DelimFacts DEF TypeOK
  <2> QED BY <2>1
<1>8. PICK e \in Seq32 : e = ex(top)
  <2>1. seq(top) \in Seq32 /\ expected_seq \in Seq32
    BY <1>1, <1>2, <1>6, DelimFacts DEF TypeOK
  <2> QED BY <2>1
<1>9. PICK n \in Nat : run \in [1..n -> q] /\ n <= SeqMaxQ + 1 /\ n <= Half
  BY <1>b
<1>10. run \in Seq(q) /\ Len(run) = n
  BY <1>9
<1>11. frame_q' = q \ ToSet(run)
  BY <1>5 DEF Remaining, ToSet
<1>12. \/ seq(top) # e /\ run = <<>>
       \/ /\ seq(top) = e /\ Len(run) \in 1..(SeqMaxQ + 1)
          /\ \A i \in 1..Len(run) : run[i] = top + i - 1
          /\ top + Len(run) \notin q
  <2>0. IsRun(q, top, e, run)
    BY <1>5, <1>8
  <2>1. CASE seq(top) # e
    BY <2>0, <2>1 DEF IsRun
  <2>2. CASE seq(top) = e
    <3>1. IsRun(q, top, seq(top), run)
      BY <2>0, <2>2
    <3>2. n <= Half
      BY <1>9
    <3>3. n >= 1 /\ (\A i \in 1..n : run[i] = top + i - 1) /\ top + n \notin q
      BY <1>3, <1>9, <3>1, <3>2, RunIsInterval
    <3>4. SeqMaxQ \in Nat
      OBVIOUS
    <3> QED BY <1>9, <1>10, <2>2, <3>3, <3>4
  <2> QED BY <2>1, <2>2
<1>13. /\ latency = IF seq(top) # last_top_seq THEN 0 ELSE top_latency
       /\ e = IF seq(top) # expected_seq /\ GiveUp(q, latency) THEN seq(top) ELSE expected_seq
  BY <1>7, <1>8
<1>14. /\ last_top_seq' = seq(top) /\ top_latency' = latency /\ written' = written \o run
       /\ expected_seq' = (e + Len(run)) % SeqSize
       /\ early' = (early \/ (e # expected_seq /\ \E g \in inFlight' : g < top))
  BY <1>5, <1>7, <1>8
<1> HIDE DEF lat, ex
<1>15. HandleEffect(q, top, run, latency, e)
  BY <1>6, <1>11, <1>12, <1>13, <1>14 DEF HandleEffect
<1> QED BY <1>6, <1>10, <1>15

\* Those that can be held are near enough.
LEMMA HandleStep ==
    ASSUME FInv, Few, NEW E \in Nat, NEW off \in Nat, Ahead(E), Numbered(off),
           NEW f \in inFlight, HandleFrame(f), NEW q, q = frame_q \cup {f}
    PROVE  \E top \in q, run \in Seq(q), latency \in Nat, e \in Seq32 :
             HandleEffect(q, top, run, latency, e)
<1>1. TypeOK /\ f \in Live /\ \A g \in inFlight : f <= g + channel.reorder
  BY DEF FInv, Live, HandleFrame
<1>2. Window(q, E, off)
  BY <1>1, HeldInWindow
<1> QED BY <1>2, HandleInWindow

\* A sequence over a set is one over a larger set.
LEMMA SeqWider ==
    ASSUME NEW A, NEW B, A \subseteq B, NEW s \in Seq(A)
    PROVE  s \in Seq(B) /\ Len(s) \in Nat /\ DOMAIN s = 1..Len(s)
  OBVIOUS

\* What is written after it was E's turn.
LEMMA WrittenOn ==
    ASSUME TypeOK, NEW E \in Nat, Behind(E), NEW top \in Nat, E <= top,
           lost = {} => top = E,
           NEW q, q \subseteq Nat, NEW run \in Seq(q), \A i \in 1..Len(run) : run[i] = top + i - 1,
           written' = written \o run, lost' = lost, first' = first
    PROVE  Behind(top + Len(run))'
<1>1. written \in Seq(Nat) /\ run \in Seq(Nat) /\ first \in Nat
  <2>1. Sent \subseteq Nat /\ first \in Nat
    BY LiveFacts
  <2>2. written \in Seq(Sent)
    BY DEF TypeOK
  <2>3. written \in Seq(Nat)
    BY <2>1, <2>2, SeqWider
  <2>4. run \in Seq(Nat)
    BY SeqWider
  <2> QED BY <2>1, <2>3, <2>4
<1>2. PICK m \in Nat, n \in Nat : m = Len(written) /\ n = Len(run)
  BY <1>1, SeqWider
<1>11. PICK w : w = written'
  OBVIOUS
<1>3. /\ DOMAIN written = 1..m /\ DOMAIN run = 1..n
      /\ w \in Seq(Nat) /\ DOMAIN w = 1..(m + n) /\ Len(w) = m + n
      /\ \A i \in 1..m : w[i] = written[i]
      /\ \A i \in (m + 1)..(m + n) : w[i] = run[i - m]
  BY <1>1, <1>11, <1>2
<1>4. \A i \in (m + 1)..(m + n) : w[i] = top + (i - m) - 1
  <2> SUFFICES ASSUME NEW i \in (m + 1)..(m + n) PROVE w[i] = top + (i - m) - 1
    OBVIOUS
  <2>1. i - m \in 1..n
    BY <1>11, <1>2
  <2> QED BY <1>11, <1>2, <1>3, <2>1
<1>5. \A i \in 1..m : w[i] < E /\ w[i] \in Nat
  <2> SUFFICES ASSUME NEW i \in 1..m PROVE w[i] < E /\ w[i] \in Nat
    OBVIOUS
  <2>1. w[i] = written[i] /\ i \in DOMAIN written
    BY <1>3
  <2>2. written[i] < E
    BY <2>1 DEF Behind
  <2>3. written[i] \in Nat
    BY <1>1, <2>1
  <2> QED BY <2>1, <2>2, <2>3
<1>6. \A i \in 1..(m + n) : i <= m \/ i \in (m + 1)..(m + n)
  BY <1>11, <1>2
<1>7. \A i \in 1..(m + n) : w[i] < top + n
  <2> SUFFICES ASSUME NEW i \in 1..(m + n) PROVE w[i] < top + n
    OBVIOUS
  <2>1. CASE i \in 1..m
    <3>1. PICK a \in Nat : a = w[i] /\ a < E
      BY <1>5, <2>1
    <3> QED BY <3>1
  <2>2. CASE i \in (m + 1)..(m + n)
    <3>1. w[i] = top + (i - m) - 1
      BY <1>4, <2>2
    <3>2. top + (i - m) - 1 < top + n
      BY <2>2
    <3> QED BY <3>1, <3>2
  <2> QED BY <1>6, <2>1, <2>2
<1>8. \A i, j \in 1..(m + n) : i < j => w[i] < w[j]
  <2> SUFFICES ASSUME NEW i \in 1..(m + n), NEW j \in 1..(m + n), i < j PROVE w[i] < w[j]
    OBVIOUS
  <2>1. CASE j \in 1..m
    <3>1. i \in 1..m
      BY <2>1
    <3> QED BY <1>3, <2>1, <3>1 DEF Behind
  <2>2. CASE i \in 1..m /\ j \in (m + 1)..(m + n)
    <3>1. PICK a \in Nat : a = w[i] /\ a < E
      BY <1>5, <2>2
    <3>2. w[j] = top + (j - m) - 1
      BY <1>4, <2>2
    <3>3. a < top + (j - m) - 1
      BY <2>2, <3>1
    <3> QED BY <3>1, <3>2, <3>3
  <2>3. CASE i \in (m + 1)..(m + n) /\ j \in (m + 1)..(m + n)
    <3>1. w[i] = top + (i - m) - 1 /\ w[j] = top + (j - m) - 1
      BY <1>4, <2>3
    <3>2. top + (i - m) - 1 < top + (j - m) - 1
      OBVIOUS
    <3> QED BY <3>1, <3>2
  <2> QED BY <1>6, <2>1, <2>2, <2>3
<1>9. lost = {} => m + n = (top + n) - 1 - first /\ \A i \in 1..(m + n) : w[i] = first + i
  <2> SUFFICES ASSUME lost = {}
               PROVE  m + n = (top + n) - 1 - first /\ \A i \in 1..(m + n) : w[i] = first + i
    OBVIOUS
  <2>1. top = E /\ m = E - 1 - first /\ \A i \in 1..m : w[i] = first + i
    BY <1>11, <1>2, <1>3 DEF Behind
  <2>2. \A i \in (m + 1)..(m + n) : w[i] = first + i
    <3>1. PICK a \in Nat : a = first
      BY <1>1
    <3>2. top = m + 1 + a
      BY <2>1, <3>1
    <3>3. \A i \in (m + 1)..(m + n) : top + (i - m) - 1 = a + i
      BY <3>2
    <3> QED BY <1>4, <3>1, <3>3
  <2>3. m + n = (top + n) - 1 - first
    BY <1>1, <2>1
  <2> QED BY <1>6, <2>1, <2>2, <2>3
<1>10. /\ \A i \in DOMAIN w : w[i] < top + n
       /\ \A i, j \in DOMAIN w : i < j => w[i] < w[j]
       /\ lost = {} => Len(w) = (top + n) - 1 - first /\ \A i \in DOMAIN w : w[i] = first + i
  BY <1>3, <1>7, <1>8, <1>9
<1> QED BY <1>11, <1>2, <1>10 DEF Behind

\* A frame at the top that no frame on its way precedes is the first that may still be
\* written.
LEMMA NoneBefore ==
    ASSUME TypeOK, NEW f \in inFlight, HandleFrame(f),
           NEW top \in frame_q \cup {f}, \A x \in frame_q \cup {f} : top <= x,
           ~\E g \in inFlight' : g < top
    PROVE  \A x \in Live : top <= x
<1>1. inFlight' = inFlight \ {f}
  BY DEF HandleFrame
<1>2. Live \subseteq Nat /\ top \in Live /\ top \in Nat
  BY LiveFacts DEF Live
<1> SUFFICES ASSUME NEW x \in Live PROVE top <= x
  OBVIOUS
<1>3. CASE x \in frame_q \cup {f}
  BY <1>3
<1>4. CASE x \notin frame_q \cup {f}
  <2>1. x \in inFlight'
    BY <1>1, <1>4 DEF Live
  <2> QED BY <1>2, <2>1
<1> QED BY <1>3, <1>4

\* A frame that is at the top and not the expected one, or given up for without any
\* earlier one being on its way, is the first that may still be written.
LEMMA WrittenIsFirst ==
    ASSUME FInv, Few, NEW E \in Nat, NEW off \in Nat, Ordered(E, off),
           NEW f \in inFlight, HandleFrame(f),
           NEW top \in frame_q \cup {f}, \A x \in frame_q \cup {f} : top <= x,
           seq(top) = expected_seq \/ ~\E g \in inFlight' : g < top
    PROVE  \A x \in Live : top <= x
<1>1. TypeOK /\ f \in Live /\ (\A g \in inFlight : f <= g + channel.reorder)
      /\ inFlight' = inFlight \ {f}
  BY DEF FInv, Live, HandleFrame
<1>2. Live \subseteq Nat
  BY <1>1, LiveFacts
<1>3. top \in Live /\ top \in Nat
  BY <1>2 DEF Live
<1>4. CASE ~\E g \in inFlight' : g < top
  BY <1>1, <1>4, NoneBefore
<1>5. CASE seq(top) = expected_seq
  <2>1. Window(frame_q \cup {f}, E, off) /\ \A x \in frame_q \cup {f} : x - E <= Span
    BY <1>1, HeldInWindow DEF Ordered
  <2>2. seq(top) = Num(top, off) /\ E <= top /\ top - E < Half
    BY <2>1 DEF Window
  <2>3. CASE Synced(E, off)
    <3>1. Num(top, off) = Num(E, off)
      BY <1>5, <2>2, <2>3 DEF Synced
    <3>2. top - E < SeqSize /\ E - top < SeqSize
      BY <1>3, <2>2, HalfFacts
    <3>3. top = E
      BY <1>3, <3>1, <3>2, NumSame
    <3> QED BY <3>3 DEF Ordered, Ahead
  <2>4. CASE Searching(E, off)
    <3>1. top - E <= Near
      <4>1. CASE frame_q # {}
        <5>1. PICK h \in frame_q : h <= E + Near
          BY <2>4, <4>1 DEF Searching
        <5>2. top <= h /\ h \in Nat /\ Near \in Nat
          BY <1>1, <1>2, SpanFacts DEF Live
        <5> QED BY <1>3, <5>1, <5>2
      <4>2. CASE frame_q = {}
        <5>1. top = f
          BY <4>2
        <5>2. f - E <= Near
          BY <2>4, <4>2, ArrivesNear DEF Searching, Ordered
        <5> QED BY <5>1, <5>2
      <4> QED BY <4>1, <4>2
    <3>2. top - E \in 0..Near /\ E + (top - E) = top
      BY <1>1, <1>3, <2>2, <3>1, SpanFacts
    <3>3. expected_seq # Num(top, off)
      BY <2>4, <3>2 DEF Searching
    <3> QED BY <1>5, <2>2, <3>3
  <2> QED BY <2>3, <2>4 DEF Ordered
<1> QED BY <1>4, <1>5

\* The effect of HandleFrame on the frames q is known, and what may still be written are
\* E and later frames.
Handling(f, q, E, off, top, run, e) ==
    /\ f \in inFlight /\ HandleFrame(f) /\ q = frame_q \cup {f}
    /\ Window(q, E, off) /\ Numbered(off) /\ Ahead(E) /\ Behind(E)
    /\ top \in q /\ run \in Seq(q) /\ e \in Seq32
    /\ \E latency \in Nat : HandleEffect(q, top, run, latency, e)

\* What HandleFrame leaves alone.
LEMMA HandleLeaves ==
    ASSUME FInv, NEW E \in Nat, NEW off \in Nat, NEW f, NEW q, NEW top, NEW run, NEW e,
           Handling(f, q, E, off, top, run, e)
    PROVE  /\ UNCHANGED <<first, DelimSeq, sent, number, channel, lost, restarts>>
           /\ q \subseteq Nat /\ q \subseteq Live /\ top \in Nat
           /\ first \in Nat /\ sent \in Nat /\ \A x \in Live : x \in Nat /\ E <= x /\ x <= sent
           /\ Live' = Live \ ToSet(run) /\ \A x : seq(x)' = seq(x)
           /\ Numbered(off)'
<1>1. /\ q = frame_q \cup {f} /\ Numbered(off) /\ Ahead(E) /\ top \in q /\ run \in Seq(q)
      /\ f \in inFlight /\ frame_q' = q \ ToSet(run)
  BY DEF Handling, HandleEffect
<1>2. /\ TypeOK /\ inFlight' = inFlight \ {f}
      /\ UNCHANGED <<first, DelimSeq, sent, number, channel, lost, restarts>>
  BY DEF FInv, Handling, HandleFrame, sender
<1>3. q \subseteq Nat /\ q \subseteq Live /\ Live \subseteq Sent /\ Sent \subseteq Nat /\ top \in Nat
  <2>1. q \subseteq Live
    BY <1>1 DEF Live
  <2> QED BY <1>1, <1>2, <2>1, LiveFacts
<1>4. Live' = Live \ ToSet(run) /\ \A x : seq(x)' = seq(x)
  <2>1. ToSet(run) \subseteq q
    BY <1>1, QueueElements
  <2>2. ToSet(run) \cap (inFlight \ {f}) = {}
    BY <1>1, <2>1 DEF FInv, Placed
  <2> QED BY <1>1, <1>2, <2>2 DEF Live, seq
<1>5. Numbered(off)'
  <2>1. \A x \in Live' : seq(x)' = Num(x, off)
    BY <1>1, <1>4 DEF Numbered
  <2> QED BY <1>1, <1>2, <2>1 DEF Numbered, Num
<1>6. first \in Nat /\ sent \in Nat /\ \A x \in Live : x \in Nat /\ E <= x /\ x <= sent
  BY <1>1, <1>2, LiveFacts DEF Ahead
<1> QED BY <1>2, <1>3, <1>4, <1>5, <1>6

\* Where it writes nothing, the frame whose turn it is stays the same.
LEMMA HandleWaits ==
    ASSUME FInv, NEW E \in Nat, NEW off \in Nat, NEW f, NEW q, NEW top, NEW run, NEW e,
           Handling(f, q, E, off, top, run, e), seq(top) # e, run = <<>>
    PROVE  /\ frame_q' = q /\ written' = written /\ expected_seq' = expected_seq
           /\ Ahead(E)' /\ Behind(E)'
           /\ Synced(E, off) => Synced(E, off)'
<1>1. /\ \A x \in q : top <= x
      /\ written' = written \o run /\ frame_q' = q \ ToSet(run)
      /\ expected_seq' = (e + Len(run)) % SeqSize
      /\ e \in {seq(top), expected_seq}
      /\ Window(q, E, off) /\ Ahead(E) /\ Behind(E) /\ top \in q /\ e \in Seq32
  BY DEF Handling, HandleEffect
<1>2. /\ UNCHANGED <<first, DelimSeq, sent, number, channel, lost, restarts>>
      /\ q \subseteq Nat /\ q \subseteq Live /\ top \in Nat
      /\ \A x \in Live : x \in Nat /\ E <= x
      /\ Live' = Live \ ToSet(run)
  BY HandleLeaves
<1>3. ToSet(run) = {}
  BY DEF ToSet
<1>4. frame_q' = q /\ Live' = Live
  BY <1>1, <1>2, <1>3
<1>5. written' = written
  <2>1. written \in Seq(Sent)
    BY DEF FInv, TypeOK
  <2> QED BY <1>1, <2>1
<1>6. e = expected_seq /\ seq(top) # expected_seq
  BY <1>1
<1>7. expected_seq' = expected_seq
  <2>1. Len(run) = 0 /\ e \in 0..(SeqSize - 1)
    BY <1>1 DEF Seq32
  <2>2. \A x \in 0..(SeqSize - 1) : (x + 0) % SeqSize = x
    OBVIOUS
  <2> QED BY <1>1, <1>6, <2>1, <2>2
<1>8. Ahead(E)' /\ Behind(E)'
  BY <1>1, <1>2, <1>4, <1>5 DEF Ahead, Behind
<1>9. Synced(E, off) => Synced(E, off)'
  <2> SUFFICES ASSUME Synced(E, off) PROVE Synced(E, off)'
    OBVIOUS
  <2>1. E \notin q
    <3> SUFFICES ASSUME E \in q PROVE FALSE
      OBVIOUS
    <3>1. top <= E /\ E <= top
      BY <1>1, <1>2
    <3>2. top = E
      BY <1>2, <3>1
    <3>3. seq(top) = Num(top, off)
      BY <1>1 DEF Window
    <3> QED BY <1>6, <3>2, <3>3 DEF Synced
  <2> QED BY <1>4, <1>7, <2>1 DEF Synced, Num
<1> QED BY <1>4, <1>5, <1>7, <1>8, <1>9

\* Where it writes the first frame that may be written and those that follow on it, it is
\* then the turn of the next, and the handler waits for that one.
LEMMA HandleWrites ==
    ASSUME FInv, NEW E \in Nat, NEW off \in Nat, NEW f, NEW q, NEW top, NEW run, NEW e,
           Handling(f, q, E, off, top, run, e), seq(top) = e,
           Len(run) \in 1..(SeqMaxQ + 1), \A i \in 1..Len(run) : run[i] = top + i - 1,
           top + Len(run) \notin q, \A x \in Live : top <= x,
           NEW E1 \in Nat, E1 = top + Len(run)
    PROVE  Ahead(E1)' /\ Behind(E1)' /\ Synced(E1, off)'
<1>1. /\ \A x \in q : top <= x
      /\ written' = written \o run /\ frame_q' = q \ ToSet(run)
      /\ expected_seq' = (e + Len(run)) % SeqSize
      /\ Window(q, E, off) /\ Ahead(E) /\ Behind(E) /\ top \in q /\ run \in Seq(q)
  BY DEF Handling, HandleEffect
<1>2. /\ UNCHANGED <<first, DelimSeq, sent, number, channel, lost, restarts>>
      /\ q \subseteq Nat /\ q \subseteq Live /\ top \in Nat
      /\ first \in Nat /\ sent \in Nat /\ \A x \in Live : x \in Nat /\ E <= x /\ x <= sent
      /\ Live' = Live \ ToSet(run)
  BY HandleLeaves
<1>3. PICK n \in Nat : n = Len(run) /\ n \in 1..(SeqMaxQ + 1)
  OBVIOUS
<1>4. ToSet(run) = top..(E1 - 1)
  <2>1. DOMAIN run = 1..n
    BY <1>1, <1>3
  <2>2. \A x \in ToSet(run) : x \in top..(E1 - 1)
    <3> SUFFICES ASSUME NEW i \in 1..n PROVE run[i] \in top..(E1 - 1)
      BY <2>1 DEF ToSet
    <3> QED BY <1>2, <1>3
  <2>3. \A x \in top..(E1 - 1) : x \in ToSet(run)
    <3> SUFFICES ASSUME NEW x \in top..(E1 - 1) PROVE x \in ToSet(run)
      OBVIOUS
    <3>1. x - top + 1 \in 1..n /\ x = top + (x - top + 1) - 1
      BY <1>2, <1>3
    <3>2. run[x - top + 1] = x
      BY <1>3, <3>1
    <3> QED BY <2>1, <3>1, <3>2 DEF ToSet
  <2> QED BY <2>2, <2>3
<1>5. E <= top /\ top <= sent
  BY <1>1, <1>2
<1>6. lost = {} => top = E
  <2> SUFFICES ASSUME lost = {} PROVE top = E
    OBVIOUS
  <2>1. E \in E..sent
    BY <1>2, <1>5
  <2>2. E \in Live
    BY <1>1, <2>1 DEF Ahead
  <2> QED BY <1>2, <1>5, <2>2
<1>7. Behind(E1)'
  <2>1. TypeOK
    BY DEF FInv
  <2> QED BY <1>1, <1>2, <1>5, <1>6, <2>1, WrittenOn
<1>8. Ahead(E1)'
  <2>1. E1 \in (first + 1)..(sent + 1)
    <3>1. E1 - 1 \in ToSet(run) /\ ToSet(run) \subseteq q
      BY <1>1, <1>2, <1>3, <1>4, QueueElements
    <3>2. E1 - 1 <= sent /\ E \in (first + 1)..(sent + 1)
      BY <1>1, <1>2, <3>1 DEF Ahead
    <3> QED BY <1>2, <1>3, <1>5, <3>2
  <2>2. \A x \in Live' : E1 <= x
    <3> SUFFICES ASSUME NEW x \in Live \ ToSet(run) PROVE E1 <= x
      BY <1>2
    <3>1. x \in Nat /\ top <= x /\ x \notin top..(E1 - 1)
      BY <1>2, <1>4
    <3> QED BY <1>2, <3>1
  <2>3. \A x \in E1..sent : x \in Live' \cup lost
    <3> SUFFICES ASSUME NEW x \in E1..sent PROVE x \in (Live \ ToSet(run)) \cup lost
      BY <1>2
    <3>1. x \in E..sent /\ x \notin top..(E1 - 1)
      BY <1>2, <1>3, <1>5
    <3> QED BY <1>1, <1>4, <3>1 DEF Ahead
  <2> QED BY <1>2, <2>1, <2>2, <2>3 DEF Ahead
<1>9. Synced(E1, off)'
  <2>1. expected_seq' = Num(E1, off)
    <3>1. seq(top) = Num(top, off)
      BY <1>1 DEF Window
    <3>2. expected_seq' = (Num(top, off) + n) % SeqSize
      BY <1>1, <1>3, <3>1
    <3> QED BY <1>2, <1>3, <3>2, NumCountOn
  <2>2. E1 \notin frame_q'
    BY <1>1
  <2> QED BY <2>1, <2>2 DEF Synced, Num
<1> QED BY <1>7, <1>8, <1>9

\* HandleFrame keeps the order, unless it gives up the wait too early.
LEMMA HandleOrdered ==
    ASSUME FInv, Few, NEW E \in Nat, NEW off \in Nat, Ordered(E, off),
           NEW f \in inFlight, HandleFrame(f), ~early'
    PROVE  \E E1 \in Nat : Ordered(E1, off)'
<1>1. PICK q : q = frame_q \cup {f}
  OBVIOUS
<1>2. PICK top \in q, run \in Seq(q), latency \in Nat, e \in Seq32 :
             HandleEffect(q, top, run, latency, e)
  BY <1>1, HandleStep DEF Ordered
<1>a. /\ \A x \in q : top <= x
      /\ last_top_seq' = seq(top)
      /\ seq(top) # expected_seq /\ e = seq(top) => ~\E g \in inFlight' : g < top
      /\ e \in {seq(top), expected_seq}
  BY <1>2 DEF HandleEffect
<1>3. TypeOK /\ f \in Live /\ \A g \in inFlight : f <= g + channel.reorder
  BY DEF FInv, Live, HandleFrame
<1>4. /\ Window(q, E, off) /\ \A x \in q : x - E <= Span
  BY <1>1, <1>3, HeldInWindow DEF Ordered
<1>5. Handling(f, q, E, off, top, run, e)
  BY <1>1, <1>2, <1>4 DEF Ordered, Handling
<1>6. /\ UNCHANGED <<first, channel, lost>> /\ top \in Nat /\ Numbered(off)'
      /\ Span' = Span /\ Near' = Near
  BY <1>5, HandleLeaves DEF Span, Near
<1>7. CASE seq(top) # e /\ run = <<>>
  <2>1. /\ frame_q' = q /\ expected_seq' = expected_seq /\ Ahead(E)' /\ Behind(E)'
        /\ Synced(E, off) => Synced(E, off)'
    BY <1>5, <1>7, HandleWaits
  <2>2. Searching(E, off) => Searching(E, off)'
    <3> SUFFICES ASSUME Searching(E, off) PROVE Searching(E, off)'
      OBVIOUS
    <3>1. \E h \in q : h <= E + Near
      <4>1. CASE frame_q # {}
        BY <1>1, <4>1 DEF Searching
      <4>2. CASE frame_q = {}
        <5>1. f <= E + Near /\ f \in q
          BY <1>1, <4>2, ArrivesNear DEF Searching, Ordered
        <5> QED BY <5>1
      <4> QED BY <4>1, <4>2
    <3> QED BY <1>6, <2>1, <3>1 DEF Searching, Num
  <2>3. TopKnown(E, off)'
    BY <1>2, <2>1 DEF TopKnown
  <2> QED BY <1>6, <2>1, <2>2, <2>3 DEF Ordered
<1>8. CASE /\ seq(top) = e /\ Len(run) \in 1..(SeqMaxQ + 1)
           /\ \A i \in 1..Len(run) : run[i] = top + i - 1
           /\ top + Len(run) \notin q
  <2>1. PICK n \in Nat : n = Len(run) /\ n \in 1..(SeqMaxQ + 1)
    BY <1>8
  <2>2. PICK E1 \in Nat : E1 = top + n
    BY <1>6
  <2>3. \A x \in Live : top <= x
    <3>1. seq(top) = expected_seq \/ ~\E g \in inFlight' : g < top
      BY <1>a, <1>8
    <3> QED BY <1>1, <1>a, <3>1, WrittenIsFirst
  <2>4. Ahead(E1)' /\ Behind(E1)' /\ Synced(E1, off)'
    BY <1>5, <1>8, <2>1, <2>2, <2>3, HandleWrites
  <2>5. TopKnown(E1, off)'
    <3>1. \A k \in 0..Span : Num(top, off) # Num(E1 + k, off)
      <4> SUFFICES ASSUME NEW k \in 0..Span, Num(top, off) = Num(E1 + k, off) PROVE FALSE
        OBVIOUS
      <4>1. k \in Nat /\ k < Half /\ n <= Half /\ n >= 1
        BY <1>3, <2>1, SpanFacts, HalfFacts
      <4>2. E1 + k - top < SeqSize /\ top - (E1 + k) < SeqSize /\ E1 + k \in Int /\ top # E1 + k
        BY <1>6, <2>2, <4>1, HalfFacts
      <4> QED BY <1>6, <4>2, NumSame
    <3>2. last_top_seq' = Num(top, off)
      BY <1>a, <1>4 DEF Window
    <3> QED BY <1>6, <3>1, <3>2 DEF TopKnown, Num
  <2> QED BY <1>6, <2>4, <2>5 DEF Ordered
<1> QED BY <1>2, <1>7, <1>8 DEF HandleEffect

\* One frame more is lost, within the bound.
LEMMA LosesOne ==
    ASSUME TypeOK, NEW E, E \in lost => Cardinality(lost) <= MaxLost,
           NEW gone, gone = {} \/ ((\E f : gone = {f}) /\ Cardinality(lost) < MaxLost)
    PROVE  E \in lost \cup gone => Cardinality(lost \cup gone) <= MaxLost
<1>1. CASE gone = {}
  BY <1>1
<1>2. CASE gone # {}
  <2>1. PICK f : gone = {f}
    BY <1>2
  <2>2. IsFiniteSet(gone) /\ Cardinality(gone) = 1
    BY <2>1, FS_Singleton
  <2>3. Cardinality(lost \cup gone) <= Cardinality(lost) + 1 /\ IsFiniteSet(lost \cup gone)
    BY <2>2, FewFacts, UnionAtMost
  <2>4. Cardinality(lost \cup gone) \in Nat
    BY <2>3, FS_CardinalityType
  <2>5. Cardinality(lost) < MaxLost
    BY <1>2
  <2> QED BY <2>3, <2>4, <2>5, FewFacts
<1> QED BY <1>1, <1>2

\* Sending and losing frames leaves what the receiver knows as it is.
LEMMA ReceiverKnows ==
    ASSUME TypeOK, NEW E \in Nat, NEW off \in Nat, Ordered(E, off),
           NEW gone, gone = {} \/ ((\E f : gone = {f}) /\ Cardinality(lost) < MaxLost),
           lost' = lost \cup gone,
           UNCHANGED <<first, frame_q, expected_seq, last_top_seq, channel, written>>
    PROVE  Behind(E)' /\ (Synced(E, off) \/ Searching(E, off))' /\ TopKnown(E, off)'
<1>1. (E \in lost => Cardinality(lost) <= MaxLost) => (E \in lost' => Cardinality(lost') <= MaxLost)
  BY LosesOne
<1>2. Near' = Near /\ Span' = Span
  BY DEF Near, Span
<1>3. Behind(E)'
  <2>1. lost' = {} => lost = {}
    OBVIOUS
  <2> QED BY <2>1 DEF Ordered, Behind
<1>4. Synced(E, off) => Synced(E, off)'
  BY DEF Synced, Num
<1>5. Searching(E, off) => Searching(E, off)'
  BY <1>1, <1>2 DEF Searching, Num
<1>6. TopKnown(E, off)'
  BY <1>1, <1>2 DEF Ordered, TopKnown, Num
<1> QED BY <1>3, <1>4, <1>5, <1>6 DEF Ordered

\* AddDelim continues the count.
LEMMA AddDelimCounts ==
    ASSUME TypeOK, NEW E \in Nat, NEW off \in Nat, Numbered(off), Ahead(E),
           NEW gone \in {{}} \cup {{f} : f \in inFlight \cup {sent + 1}}, AddDelim(gone)
    PROVE  Numbered(off)' /\ Ahead(E)'
<1>1. /\ sent' = sent + 1 /\ first' = first
      /\ number' = Append(number, DelimSeq) /\ DelimSeq' = (DelimSeq + 1) % SeqSize
      /\ inFlight' = (inFlight \cup {sent + 1}) \ gone /\ lost' = lost \cup gone
      /\ UNCHANGED frame_q
  BY DEF AddDelim, receiver
<1>4. /\ first \in Nat /\ sent \in Nat /\ first <= sent /\ Live \subseteq Sent
      /\ \A x \in Sent : x \in Nat /\ x - first \in 1..(sent - first)
  BY LiveFacts
<1>5. DelimSeq = Num(sent + 1, off) /\ \A x \in Live : seq(x) = Num(x, off)
  BY DEF Numbered
<1>6. Live' \subseteq Live \cup {sent + 1}
  BY <1>1 DEF Live
<1>a. PICK new \in Nat : new = sent + 1
  BY <1>4
<1>7. /\ \A x \in Sent : seq(x)' = seq(x)
      /\ seq(new)' = DelimSeq
  <2>1. number \in Seq(Seq32) /\ Len(number) = sent - first /\ DelimSeq \in Seq32
    <3>1. number \in [1..(sent - first) -> Seq32] /\ DelimSeq \in Seq32
      BY DEF TypeOK
    <3>2. sent - first \in Nat
      BY <1>4
    <3>3. \A n \in Nat : \A t \in [1..n -> Seq32] : t \in Seq(Seq32) /\ Len(t) = n
      OBVIOUS
    <3> QED BY <3>1, <3>2, <3>3
  <2>2. \A i \in 1..(sent - first) : number'[i] = number[i]
    BY <1>1, <2>1
  <2>3. number'[(sent - first) + 1] = DelimSeq
    BY <1>1, <2>1
  <2>4. (sent + 1) - first = (sent - first) + 1
    BY <1>4
  <2>5. \A x \in Sent : number'[x - first] = number[x - first]
    BY <1>4, <2>2
  <2>6. number'[new - first] = DelimSeq
    BY <1>a, <2>3, <2>4
  <2> QED BY <1>1, <2>5, <2>6 DEF seq
<1>8. Numbered(off)'
  <2>1. \A x \in Live' : seq(x)' = Num(x, off)
    <3>1. ASSUME NEW x \in Live PROVE seq(x)' = Num(x, off)
      BY <1>4, <1>5, <1>7
    <3>2. seq(new)' = Num(new, off)
      BY <1>5, <1>7, <1>a
    <3> QED BY <1>6, <1>a, <3>1, <3>2
  <2>2. DelimSeq' = Num(sent + 2, off)
    <3>1. (Num(sent + 1, off) + 1) % SeqSize = Num((sent + 1) + 1, off)
      <4>1. sent + 1 \in Int /\ off \in Int
        BY <1>4
      <4> QED BY <4>1, NumCountOn
    <3>2. (sent + 1) + 1 = sent + 2
      BY <1>4
    <3> QED BY <1>1, <1>5, <3>1, <3>2
  <2>3. sent' + 1 = sent + 2
    BY <1>1, <1>4
  <2> QED BY <2>1, <2>2, <2>3 DEF Numbered, Num
<1>9. Ahead(E)'
  <2>1. E \in (first + 1)..(sent + 1) /\ (\A x \in Live : E <= x) /\ \A x \in E..sent : x \in Live \cup lost
    BY DEF Ahead
  <2>2. E \in (first' + 1)..(sent' + 1)
    BY <1>1, <1>4, <2>1
  <2>3. \A x \in Live' : E <= x
    BY <1>4, <1>6, <2>1
  <2>4. Live \cup {sent + 1} \cup lost \subseteq Live' \cup lost'
    BY <1>1 DEF Live
  <2>5. \A x \in E..(sent + 1) : x \in E..sent \/ x = sent + 1
    BY <1>4
  <2>6. \A x \in E..sent' : x \in Live' \cup lost'
    BY <1>1, <2>1, <2>4, <2>5
  <2> QED BY <2>2, <2>3, <2>6 DEF Ahead
<1> QED BY <1>8, <1>9

\* The receiver is not concerned.
LEMMA AddDelimOrdered ==
    ASSUME TypeOK, NEW E \in Nat, NEW off \in Nat, Ordered(E, off),
           NEW gone \in {{}} \cup {{f} : f \in inFlight \cup {sent + 1}}, AddDelim(gone)
    PROVE  Ordered(E, off)'
<1>1. /\ gone = {} \/ ((\E f : gone = {f}) /\ Cardinality(lost) < MaxLost)
      /\ lost' = lost \cup gone
      /\ UNCHANGED <<first, frame_q, expected_seq, last_top_seq, channel, written>>
  BY DEF AddDelim, receiver
<1>2. Behind(E)' /\ (Synced(E, off) \/ Searching(E, off))' /\ TopKnown(E, off)'
  BY <1>1, ReceiverKnows
<1>3. Numbered(off)' /\ Ahead(E)'
  BY AddDelimCounts DEF Ordered
<1> QED BY <1>2, <1>3 DEF Ordered

\* A frame that is lost on the way is not written later.
LEMMA LoseCounts ==
    ASSUME NEW E \in Nat, NEW off \in Nat, Numbered(off), Ahead(E), NEW f \in inFlight, Lose(f)
    PROVE  Numbered(off)' /\ Ahead(E)'
<1>1. /\ inFlight' = inFlight \ {f} /\ lost' = lost \cup {f}
      /\ UNCHANGED <<first, DelimSeq, sent, number, frame_q>>
  BY DEF Lose, sender, receiver
<1>2. Live' \subseteq Live /\ Live \cup lost \subseteq Live' \cup lost'
  BY <1>1 DEF Live
<1> QED BY <1>1, <1>2 DEF Numbered, Ahead, Num, seq

\* And the receiver knows nothing of it.
LEMMA LoseOrdered ==
    ASSUME TypeOK, NEW E \in Nat, NEW off \in Nat, Ordered(E, off), NEW f \in inFlight, Lose(f)
    PROVE  Ordered(E, off)'
<1>1. /\ Cardinality(lost) < MaxLost /\ lost' = lost \cup {f}
      /\ UNCHANGED <<first, frame_q, expected_seq, last_top_seq, channel, written>>
  BY DEF Lose, sender, receiver
<1>2. Behind(E)' /\ (Synced(E, off) \/ Searching(E, off))' /\ TopKnown(E, off)'
  BY <1>1, ReceiverKnows
<1>3. Numbered(off)' /\ Ahead(E)'
  BY LoseCounts DEF Ordered
<1> QED BY <1>2, <1>3 DEF Ordered

\* After a restart the handler knows what comes next or is searching.
LEMMA Restarted ==
    ASSUME NEW E \in Nat, NEW off \in Nat, frame_q' = {}, E \notin lost', channel' = channel,
           ~MeetsByChance(Num(E, off), expected_seq', last_top_seq')
    PROVE  (Synced(E, off) \/ Searching(E, off))' /\ TopKnown(E, off)'
<1>1. \A k \in 1..Near : Num(E + k, off) # expected_seq' /\ Num(E + k, off) # last_top_seq'
  <2> SUFFICES ASSUME NEW k \in 1..Near
               PROVE  Num(E + k, off) # expected_seq' /\ Num(E + k, off) # last_top_seq'
    OBVIOUS
  <2>1. (Num(E, off) + k) % SeqSize = Num(E + k, off)
    <3>1. E \in Int /\ off \in Int /\ k \in Int
      OBVIOUS
    <3> QED BY <3>1, NumCountOn
  <2>2. (Num(E, off) + k) % SeqSize \notin {expected_seq', last_top_seq'}
    BY DEF MeetsByChance, Near
  <2> QED BY <2>1, <2>2
<1>2. Near' = Near
  BY DEF Near
<1>3. TopKnown(E, off)'
  BY <1>1, <1>2 DEF TopKnown, Num
<1>4. CASE expected_seq' = Num(E, off)
  BY <1>3, <1>4 DEF Synced, Num
<1>5. CASE expected_seq' # Num(E, off)
  <2>1. \A k \in 0..Near : expected_seq' # Num(E + k, off)
    <3> SUFFICES ASSUME NEW k \in 0..Near PROVE expected_seq' # Num(E + k, off)
      OBVIOUS
    <3>1. k = 0 => E + k = E
      OBVIOUS
    <3>2. k # 0 => k \in 1..Near
      OBVIOUS
    <3> QED BY <1>1, <1>5, <3>1, <3>2
  <2> QED BY <1>2, <1>3, <2>1 DEF Searching, Num
<1> QED BY <1>4, <1>5

\* The sender starts to count at the next frame.
LEMMA SenderRestartOrdered ==
    ASSUME TypeOK, NEW E \in Nat, NEW off \in Nat, Ordered(E, off),
           NEW gone \in SUBSET inFlight, SenderRestarts(gone), ~ambiguous'
    PROVE  \E E1 \in Nat : Ordered(E1, E1)'
<1>1. /\ inFlight' = inFlight \ gone /\ lost' = lost \cup gone /\ DelimSeq' = 0
      /\ UNCHANGED <<first, sent, number, frame_q, expected_seq, last_top_seq, channel, written>>
      /\ inFlight' \cup frame_q = {} /\ ~MeetsByChance(0, expected_seq, last_top_seq)
  BY DEF SenderRestarts, receiver
<1>2. /\ first \in Nat /\ sent \in Nat /\ first <= sent
  BY DelimFacts
<1>3. PICK E1 \in Nat : E1 = sent + 1
  BY <1>2
<1>4. Num(E1, E1) = 0
  <2>1. E1 - E1 = 0 /\ 0 % SeqSize = 0
    OBVIOUS
  <2> QED BY <2>1 DEF Num
<1>5. Live' = {} /\ Numbered(E1)'
  BY <1>1, <1>3, <1>4 DEF Live, Numbered, Num
<1>6. Ahead(E1)'
  <2>1. E1 \in (first + 1)..(sent + 1) /\ E1..sent = {}
    BY <1>2, <1>3
  <2> QED BY <1>1, <1>5, <2>1 DEF Ahead
<1>7. E <= E1 /\ (lost' = {} => E = E1)
  <2>1. E <= E1 /\ E \in (first + 1)..(sent + 1)
    BY <1>2, <1>3 DEF Ordered, Ahead
  <2>2. lost' = {} => Live \cup lost = {}
    BY <1>1 DEF Live
  <2>3. lost' = {} => E \notin E..sent
    BY <2>2 DEF Ordered, Ahead
  <2> QED BY <1>2, <1>3, <2>1, <2>3
<1>8. Behind(E1)'
  <2>1. \A i \in DOMAIN written : written[i] < E1
    <3> SUFFICES ASSUME NEW i \in DOMAIN written PROVE written[i] < E1
      OBVIOUS
    <3>1. written[i] < E
      BY DEF Ordered, Behind
    <3>2. written[i] \in Nat
      <4>1. written[i] \in Sent
        BY DEF TypeOK
      <4> QED BY <1>2, <4>1 DEF Sent
    <3> QED BY <1>7, <3>1, <3>2
  <2>2. lost' = {} => lost = {}
    BY <1>1
  <2> QED BY <1>1, <1>7, <2>1, <2>2 DEF Ordered, Behind
<1>9. (Synced(E1, E1) \/ Searching(E1, E1))' /\ TopKnown(E1, E1)'
  <2>1. E1 \notin lost'
    <3>1. E1 \notin Sent
      BY <1>2, <1>3 DEF Sent
    <3> QED BY <1>1, <3>1 DEF TypeOK
  <2>2. frame_q' = {} /\ ~MeetsByChance(Num(E1, E1), expected_seq', last_top_seq')
    BY <1>1, <1>4
  <2> QED BY <1>1, <2>1, <2>2, Restarted
<1> QED BY <1>5, <1>6, <1>8, <1>9 DEF Ordered

\* The receiver starts with the first frame on its way, or the next.
LEMMA ReceiverRestartOrdered ==
    ASSUME FInv, NEW E \in Nat, NEW off \in Nat, Ordered(E, off), ReceiverRestarts, ~ambiguous'
    PROVE  \E E1 \in Nat : Ordered(E1, off)'
<1> DEFINE next == IF inFlight = {} THEN DelimSeq ELSE seq(Min(inFlight))
<1>1. /\ UNCHANGED <<first, DelimSeq, sent, number, inFlight, channel, written>>
      /\ frame_q' = {} /\ lost' = lost \cup frame_q
      /\ expected_seq' = 0 /\ last_top_seq' = SeqSize - 1
      /\ ~MeetsByChance(next, 0, SeqSize - 1)
  BY DEF ReceiverRestarts, sender
<1>2. /\ TypeOK /\ first \in Nat /\ sent \in Nat /\ first <= sent /\ inFlight \subseteq Nat
      /\ \A x \in inFlight : x <= sent
  <2>1. TypeOK /\ inFlight \subseteq Live
    BY DEF FInv, Live
  <2> QED BY <2>1, LiveFacts
<1>3. E \in (first + 1)..(sent + 1) /\ (\A x \in Live : E <= x) /\ \A x \in E..sent : x \in Live \cup lost
  BY DEF Ordered, Ahead
<1>4. PICK E1 \in Nat : /\ E1 \in E..(sent + 1) /\ (\A x \in inFlight : E1 <= x)
                        /\ E1 \in inFlight \/ (inFlight = {} /\ E1 = sent + 1)
                        /\ next = Num(E1, off)
  <2>1. CASE inFlight = {}
    BY <1>2, <1>3, <2>1 DEF Ordered, Numbered
  <2>2. CASE inFlight # {}
    <3>1. PICK m \in inFlight : \A x \in inFlight : m <= x
      BY <1>2, <2>2, LeastNat
    <3>2. Min(inFlight) \in inFlight /\ \A x \in inFlight : Min(inFlight) <= x
      BY <3>1 DEF Min
    <3>3. PICK E1 : E1 = Min(inFlight)
      OBVIOUS
    <3>4. E1 \in inFlight /\ E1 \in Live /\ E1 \in Nat /\ \A x \in inFlight : E1 <= x
      BY <1>2, <3>2, <3>3 DEF Live
    <3>5. E1 \in E..(sent + 1)
      BY <1>2, <1>3, <3>4
    <3>6. next = Num(E1, off)
      BY <2>2, <3>3, <3>4 DEF Ordered, Numbered
    <3> QED BY <3>4, <3>5, <3>6
  <2> QED BY <2>1, <2>2
<1>5. Live' = inFlight
  BY <1>1 DEF Live
<1>6. Numbered(off)'
  BY <1>1, <1>5 DEF Ordered, Numbered, Live, Num, seq
<1>7. Ahead(E1)'
  <2>1. E1 \in (first + 1)..(sent + 1)
    BY <1>2, <1>3, <1>4
  <2>2. \A x \in E1..sent : x \in inFlight \cup (lost \cup frame_q)
    <3>1. \A x \in E1..sent : x \in E..sent
      BY <1>2, <1>4
    <3> QED BY <1>3, <3>1 DEF Live
  <2> QED BY <1>1, <1>4, <1>5, <2>1, <2>2 DEF Ahead
<1>8. Behind(E1)'
  <2>1. \A i \in DOMAIN written : written[i] < E1
    <3> SUFFICES ASSUME NEW i \in DOMAIN written PROVE written[i] < E1
      OBVIOUS
    <3>1. written[i] < E
      BY DEF Ordered, Behind
    <3>2. written[i] \in Nat
      <4>1. written[i] \in Sent
        BY <1>2 DEF TypeOK
      <4> QED BY <1>2, <4>1 DEF Sent
    <3> QED BY <1>2, <1>4, <3>1, <3>2
  <2>2. lost' = {} => lost = {} /\ E1 = E
    <3> SUFFICES ASSUME lost' = {} PROVE lost = {} /\ E1 = E
      OBVIOUS
    <3>1. lost = {} /\ \A x \in E..sent : x \in inFlight
      BY <1>1, <1>3 DEF Live
    <3>2. CASE E1 \in inFlight
      <4>1. E \in E..sent
        BY <1>2, <1>3, <1>4, <3>2
      <4> QED BY <1>2, <1>4, <3>1, <4>1
    <3>3. CASE inFlight = {} /\ E1 = sent + 1
      <4>1. E \notin E..sent
        BY <3>1, <3>3
      <4> QED BY <1>2, <1>3, <3>1, <3>3, <4>1
    <3> QED BY <1>4, <3>2, <3>3
  <2> QED BY <1>1, <2>1, <2>2 DEF Ordered, Behind
<1>9. (Synced(E1, off) \/ Searching(E1, off))' /\ TopKnown(E1, off)'
  <2>1. E1 \notin lost'
    <3>1. CASE E1 \in inFlight
      BY <1>1, <3>1 DEF FInv, Placed
    <3>2. CASE E1 = sent + 1
      <4>1. E1 \notin Sent
        BY <1>2, <3>2 DEF Sent
      <4> QED BY <1>1, <1>2, <4>1 DEF TypeOK
    <3> QED BY <1>4, <3>1, <3>2
  <2>2. ~MeetsByChance(Num(E1, off), expected_seq', last_top_seq')
    BY <1>1, <1>4
  <2> QED BY <1>1, <2>1, <2>2, Restarted
<1> QED BY <1>6, <1>7, <1>8, <1>9 DEF Ordered

\* With the tolerance that the stream needs, no wait is given up early, and a frame
\* that is held has not been at the top for longer than the time allowed.
TInv ==
    channel.reorder <= SeqMaxQ /\ channel.delay <= SeqMaxT /\ ~ambiguous =>
        ~early /\ (frame_q # {} => top_latency <= SeqMaxT)

\* No frame is on its way that was sent before those of a queue that has too many.
LEMMA TooManyIsLate ==
    ASSUME FInv, Few, channel.reorder <= SeqMaxQ, NEW f \in inFlight, HandleFrame(f),
           NEW q, q = frame_q \cup {f}, NEW g \in inFlight', \A x \in q : g < x
    PROVE  ~TooMany(q)
<1>1. TypeOK /\ g \in inFlight /\ \A x \in inFlight : f <= x + channel.reorder
  BY DEF FInv, HandleFrame
<1>2. PICK r \in Nat : r = channel.reorder
  BY <1>1, FewFacts
<1>3. g \in Nat /\ q \subseteq Nat
  <2>1. g \in Live /\ q \subseteq Live
    BY <1>1 DEF Live
  <2> QED BY <1>1, <2>1, LiveFacts
<1>4. \A x \in q : x \in (g + 1)..(g + r)
  <2> SUFFICES ASSUME NEW x \in q PROVE x \in (g + 1)..(g + r)
    OBVIOUS
  <2>1. x <= g + r
    BY <1>1, <1>2 DEF Few
  <2> QED BY <1>3, <2>1
<1>5. IsFiniteSet((g + 1)..(g + r)) /\ Cardinality((g + 1)..(g + r)) = r
  <2>1. PICK a \in Int, b \in Int : a = g + 1 /\ b = g + r
    BY <1>3
  <2>2. IsFiniteSet(a..b) /\ Cardinality(a..b) = IF a > b THEN 0 ELSE b - a + 1
    BY FS_Interval
  <2>3. r = IF a > b THEN 0 ELSE b - a + 1
    BY <1>3, <2>1
  <2> QED BY <2>1, <2>2, <2>3
<1>6. IsFiniteSet(q) /\ Cardinality(q) <= r
  <2>1. PICK I : I = (g + 1)..(g + r)
    OBVIOUS
  <2>2. q \subseteq I /\ IsFiniteSet(I) /\ Cardinality(I) = r
    BY <1>4, <1>5, <2>1
  <2> QED BY <2>2, FS_Subset
<1>7. Cardinality(q) \in Nat /\ SeqMaxQ \in Nat
  BY <1>6, FS_CardinalityType
<1> QED BY <1>2, <1>6, <1>7 DEF TooMany

\* HandleFrame keeps the tolerance.
LEMMA HandleTolerant ==
    ASSUME FInv, Few, NEW E \in Nat, NEW off \in Nat, Ordered(E, off),
           channel.reorder <= SeqMaxQ, ~early, frame_q # {} => top_latency <= SeqMaxT,
           NEW f \in inFlight, HandleFrame(f)
    PROVE  ~early' /\ (frame_q' # {} => top_latency' <= SeqMaxT)
<1>1. PICK q : q = frame_q \cup {f}
  OBVIOUS
<1>2. PICK top \in q, run \in Seq(q), latency \in Nat, e \in Seq32 :
             HandleEffect(q, top, run, latency, e)
  BY <1>1, HandleStep DEF Ordered
<1>3. /\ TypeOK /\ inFlight' = inFlight \ {f} /\ f \in Live
      /\ \A g \in inFlight : f <= g + channel.reorder
  BY DEF FInv, HandleFrame, Live
<1>4. Live \subseteq Nat /\ top \in Nat /\ SeqMaxT \in Nat /\ top_latency \in Nat
  <2>1. q \subseteq Live /\ Live \subseteq Nat
    BY <1>1, <1>3, LiveFacts DEF Live
  <2>2. SeqMaxT \in Nat
    OBVIOUS
  <2>3. top_latency \in Nat
    BY <1>3, <2>2 DEF TypeOK
  <2> QED BY <2>1, <2>2, <2>3
<1>5. frame_q # {} => latency <= SeqMaxT
  BY <1>2, <1>4 DEF HandleEffect
<1>6. latency > SeqMaxT => seq(top) = last_top_seq
  BY <1>2, <1>4 DEF HandleEffect
<1>7. ~early'
  <2> SUFFICES ASSUME seq(top) # expected_seq, GiveUp(q, latency),
                      NEW g \in inFlight', g < top
               PROVE  FALSE
    BY <1>2 DEF HandleEffect
  <2>1. g \in inFlight /\ g \in Live /\ g \in Nat
    BY <1>3, <1>4 DEF Live
  <2>2. \A x \in q : g < x
    <3> SUFFICES ASSUME NEW x \in q PROVE g < x
      OBVIOUS
    <3>1. top <= x /\ x \in Nat
      BY <1>1, <1>2, <1>3, <1>4 DEF HandleEffect, Live
    <3> QED BY <1>4, <2>1, <3>1
  <2>3. ~TooMany(q)
    BY <1>1, <2>2, TooManyIsLate
  <2>4. latency > SeqMaxT
    BY <2>3 DEF GiveUp
  <2>5. frame_q = {}
    BY <1>4, <1>5, <2>4
  <2>6. top = f /\ seq(f) = last_top_seq
    BY <1>1, <1>6, <2>4, <2>5
  <2>7. E <= g /\ g < f /\ f \in Nat
    BY <1>4, <2>1, <2>6 DEF Ordered, Ahead
  <2>8. seq(f) = Num(f, off) /\ E + (f - E) = f
    BY <1>3, <2>7 DEF Ordered, Numbered
  <2>9. f - E <= Span
    BY <1>3, HeldInWindow DEF Ordered
  <2>10. f - E \in 0..Span
    BY <1>3, <2>7, <2>9, SpanFacts
  <2>11. CASE \A k \in 0..Span : last_top_seq # Num(E + k, off)
    BY <2>6, <2>8, <2>10, <2>11
  <2>12. CASE /\ \A k \in 1..Near : last_top_seq # Num(E + k, off)
              /\ E \in lost => Cardinality(lost) <= MaxLost
    <3>1. f - E <= Near
      BY <2>5, <2>12, ArrivesNear DEF Ordered
    <3>2. f - E \in 1..Near
      BY <1>3, <2>1, <2>7, <3>1, SpanFacts
    <3> QED BY <2>6, <2>8, <2>12, <3>2
  <2> QED BY <2>5, <2>11, <2>12 DEF Ordered, TopKnown
<1>8. frame_q' # {} => top_latency' <= SeqMaxT
  <2> SUFFICES ASSUME latency > SeqMaxT PROVE frame_q' = {}
    BY <1>2, <1>4 DEF HandleEffect
  <2>1. frame_q = {} /\ q = {f}
    BY <1>1, <1>4, <1>5
  <2>2. seq(top) = e
    BY <1>2 DEF HandleEffect, GiveUp
  <2>3. Len(run) >= 1 /\ frame_q' = q \ ToSet(run)
    BY <1>2, <2>2 DEF HandleEffect
  <2>4. 1 \in DOMAIN run /\ run[1] = f
    BY <2>1, <2>3
  <2>5. f \in ToSet(run)
    BY <2>4 DEF ToSet
  <2> QED BY <2>1, <2>3, <2>5
<1> QED BY <1>7, <1>8

-----------------------------------------------------------------------------
(* The invariant of the order *)

OrderInv == FInv /\ Few /\ OInv /\ TInv

\* Both ends start to count at 0, that is, with the first frame.
LEMMA OrderInit ==
    ASSUME WindowFits, Init
    PROVE  OrderInv
<1>1. FInv /\ Few
  BY FInvInit, FewInit
<1>2. /\ TypeOK /\ first \in Nat /\ sent = first /\ DelimSeq = first % SeqSize /\ inFlight = {}
      /\ frame_q = {} /\ expected_seq = first % SeqSize /\ last_top_seq = (first - 1) % SeqSize
      /\ written = <<>> /\ lost = {} /\ ~early /\ ~ambiguous
  BY <1>1 DEF FInv, Init
<1>3. PICK E \in Nat : E = first + 1
  BY <1>2
<1>4. Num(E, 1) = first % SeqSize
  <2>1. E - 1 = first
    BY <1>2, <1>3
  <2> QED BY <2>1 DEF Num
<1>5. Live = {} /\ Numbered(1)
  BY <1>2, <1>3, <1>4 DEF Live, Numbered
<1>6. Ahead(E)
  <2>1. E \in (first + 1)..(sent + 1) /\ E..sent = {}
    BY <1>2, <1>3
  <2> QED BY <1>5, <2>1 DEF Ahead
<1>7. Behind(E)
  BY <1>2, <1>3 DEF Behind
<1>8. Synced(E, 1)
  BY <1>2, <1>4 DEF Synced
<1>9. TopKnown(E, 1)
  <2>1. last_top_seq = Num(first, 1)
    BY <1>2 DEF Num
  <2>2. ASSUME NEW k \in 0..Span, last_top_seq = Num(E + k, 1) PROVE FALSE
    <3>1. k \in Nat /\ k < Half
      BY <1>1, <1>2, SpanFacts, HalfFacts
    <3>2. E + k \in Int /\ E + k - first < SeqSize /\ first - (E + k) < SeqSize /\ E + k # first
      BY <1>2, <1>3, <3>1, HalfFacts
    <3>3. Num(first, 1) = Num(E + k, 1)
      BY <2>1, <2>2
    <3> QED BY <1>2, <3>2, <3>3, NumSame
  <2> QED BY <2>2 DEF TopKnown
<1>10. Ordered(E, 1)
  BY <1>5, <1>6, <1>7, <1>8, <1>9 DEF Ordered
<1>11. OInv
  <2>1. 1 \in Nat
    OBVIOUS
  <2> QED BY <1>10, <2>1 DEF OInv
<1>12. TInv
  BY <1>2 DEF TInv
<1> QED BY <1>1, <1>11, <1>12 DEF OrderInv

\* A wait given up too early, and a restart that leaves a doubt, are remembered.
LEMMA HistoryKept ==
    ASSUME FInv, [Next]_vars
    PROVE  (~early' => ~early) /\ (~ambiguous' => ~ambiguous) /\ channel' = channel
<1>1. CASE \E gone \in {{}} \cup {{f} : f \in inFlight \cup {sent + 1}} : AddDelim(gone)
  BY <1>1 DEF AddDelim
<1>2. CASE Tick
  BY <1>2 DEF Tick, Later
<1>3. ASSUME NEW f \in inFlight, HandleFrame(f)
      PROVE  (~early' => ~early) /\ (~ambiguous' => ~ambiguous) /\ channel' = channel
  <2>1. Handle(f, inFlight') /\ ambiguous' = ambiguous /\ channel' = channel
    BY <1>3 DEF HandleFrame
  <2>2. ~early' => ~early
    BY <2>1 DEF Handle
  <2> QED BY <2>1, <2>2
<1>4. CASE \E f \in inFlight : Lose(f)
  BY <1>4 DEF Lose
<1>5. CASE \E gone \in SUBSET inFlight : SenderRestarts(gone)
  BY <1>5 DEF SenderRestarts
<1>6. CASE ReceiverRestarts
  BY <1>6 DEF ReceiverRestarts
<1>7. CASE UNCHANGED vars
  BY <1>7 DEF vars
<1> QED BY <1>1, <1>2, <1>3, <1>4, <1>5, <1>6, <1>7 DEF Next

\* Every step keeps the order.
LEMMA OInvStep == FInv /\ Few /\ OInv /\ [Next]_vars => OInv'
<1> SUFFICES ASSUME FInv, Few, OInv, [Next]_vars, ~early', ~ambiguous'
             PROVE  \E E1, off1 \in Nat : Ordered(E1, off1)'
  BY DEF OInv
<1>1. TypeOK /\ ~early /\ ~ambiguous
  BY HistoryKept DEF FInv
<1>2. PICK E \in Nat, off \in Nat : Ordered(E, off)
  BY <1>1 DEF OInv
<1>3. ASSUME NEW gone \in {{}} \cup {{f} : f \in inFlight \cup {sent + 1}}, AddDelim(gone)
      PROVE  Ordered(E, off)'
  BY <1>1, <1>2, <1>3, AddDelimOrdered
<1>4. ASSUME NEW f \in inFlight, HandleFrame(f)
      PROVE  \E E1 \in Nat : Ordered(E1, off)'
  BY <1>2, <1>4, HandleOrdered
<1>5. ASSUME NEW f \in inFlight, Lose(f) PROVE Ordered(E, off)'
  BY <1>1, <1>2, <1>5, LoseOrdered
<1>6. ASSUME NEW gone \in SUBSET inFlight, SenderRestarts(gone)
      PROVE  \E E1 \in Nat : Ordered(E1, E1)'
  BY <1>1, <1>2, <1>6, SenderRestartOrdered
<1>7. ASSUME ReceiverRestarts PROVE \E E1 \in Nat : Ordered(E1, off)'
  BY <1>2, <1>7, ReceiverRestartOrdered
<1>8. CASE Tick \/ UNCHANGED vars
  <2>1. UNCHANGED <<first, DelimSeq, sent, number, inFlight, channel, lost, frame_q,
                    expected_seq, last_top_seq, written>>
    BY <1>8 DEF Tick, Later, vars, sender, receiver
  <2>2. Ordered(E, off)'
    BY <1>2, <2>1 DEF Ordered, Numbered, Ahead, Behind, Synced, Searching, TopKnown, Live, Span,
                      Near, Num, seq
  <2> QED BY <2>2
<1> QED BY <1>3, <1>4, <1>5, <1>6, <1>7, <1>8 DEF Next

\* Every step keeps the tolerance.
LEMMA TInvStep == OrderInv /\ [Next]_vars => TInv'
<1> SUFFICES ASSUME OrderInv, [Next]_vars,
                    channel'.reorder <= SeqMaxQ, channel'.delay <= SeqMaxT, ~ambiguous'
             PROVE  ~early' /\ (frame_q' # {} => top_latency' <= SeqMaxT)
  BY DEF TInv
<1>1. FInv /\ Few /\ TypeOK
  BY DEF OrderInv, FInv
<1>2. ~ambiguous /\ channel.reorder <= SeqMaxQ /\ channel.delay <= SeqMaxT
  BY <1>1, HistoryKept
<1>3. ~early /\ (frame_q # {} => top_latency <= SeqMaxT)
  BY <1>2 DEF OrderInv, TInv
<1>4. PICK E \in Nat, off \in Nat : Ordered(E, off)
  BY <1>2, <1>3 DEF OrderInv, OInv
<1>5. ASSUME NEW f \in inFlight, HandleFrame(f)
      PROVE  ~early' /\ (frame_q' # {} => top_latency' <= SeqMaxT)
  BY <1>1, <1>2, <1>3, <1>4, <1>5, HandleTolerant
<1>6. CASE Tick
  <2>1. /\ frame_q' = frame_q /\ early' = early /\ top_latency' = top_latency + 1
        /\ frame_q # {} => top_latency < channel.delay
    BY <1>6 DEF Tick, Later
  <2>2. top_latency \in Nat /\ SeqMaxT \in Nat /\ channel.delay \in Nat
    BY <1>1, DelimFacts, FewFacts DEF TypeOK
  <2> QED BY <1>2, <1>3, <2>1, <2>2
<1>7. CASE \E gone \in {{}} \cup {{f} : f \in inFlight \cup {sent + 1}} : AddDelim(gone)
  BY <1>3, <1>7 DEF AddDelim, receiver
<1>8. CASE \E f \in inFlight : Lose(f)
  BY <1>3, <1>8 DEF Lose, receiver
<1>9. CASE \E gone \in SUBSET inFlight : SenderRestarts(gone)
  BY <1>3, <1>9 DEF SenderRestarts, receiver
<1>10. CASE ReceiverRestarts
  BY <1>3, <1>10 DEF ReceiverRestarts
<1>11. CASE UNCHANGED vars
  BY <1>3, <1>11 DEF vars, receiver
<1> QED BY <1>5, <1>6, <1>7, <1>8, <1>9, <1>10, <1>11 DEF Next

\* Every step keeps the invariant.
LEMMA OrderInvStep == OrderInv /\ [Next]_vars => OrderInv'
  BY FInvStep, FewStep, OInvStep, TInvStep DEF OrderInv

\* So the invariant always holds.
LEMMA OrderInvHolds ==
    ASSUME WindowFits
    PROVE  Spec => []OrderInv
<1>1. Init => OrderInv
  BY OrderInit
<1> QED BY <1>1, OrderInvStep, PTL DEF Spec

\* Frames in order, none skipped that is not lost.
LEMMA OrderInvOrders == OrderInv => WrittenInOrder
<1> SUFFICES ASSUME OrderInv, ~early, ~ambiguous
             PROVE  /\ \A i, j \in DOMAIN written : i < j => written[i] < written[j]
                    /\ \A f \in frame_q : (\A g \in frame_q : f <= g) => seq(f) # expected_seq
                    /\ lost = {} => \A i \in DOMAIN written : written[i] = first + i
  BY DEF WrittenInOrder
<1>1. FInv /\ Few /\ TypeOK
  BY DEF OrderInv, FInv
<1>2. PICK E \in Nat, off \in Nat : Ordered(E, off)
  BY DEF OrderInv, OInv
<1>3. ASSUME NEW f \in frame_q, \A g \in frame_q : f <= g, seq(f) = expected_seq
      PROVE  FALSE
  <2>1. f \in Live /\ f \in Nat /\ E <= f /\ seq(f) = Num(f, off)
    <3>1. f \in Live
      BY DEF Live
    <3> QED BY <1>1, <1>2, <3>1, LiveFacts DEF Ordered, Ahead, Numbered
  <2>2. f - E <= Span
    <3>1. \A g \in inFlight : f <= g + channel.reorder
      BY <1>1 DEF Few
    <3> QED BY <1>1, <1>2, <2>1, <3>1, HeldInWindow DEF Ordered
  <2>3. CASE Synced(E, off)
    <3>1. Num(f, off) = Num(E, off) /\ f # E
      BY <1>3, <2>1, <2>3 DEF Synced
    <3>2. f - E < SeqSize /\ E - f < SeqSize
      BY <1>1, <2>1, <2>2, SpanFacts, HalfFacts
    <3> QED BY <2>1, <3>1, <3>2, NumSame
  <2>4. CASE Searching(E, off)
    <3>1. PICK h \in frame_q : h <= E + Near
      BY <2>4 DEF Searching
    <3>2. f <= h /\ h \in Nat /\ Near \in Nat
      <4>1. h \in Live
        BY DEF Live
      <4> QED BY <1>1, <1>3, <4>1, SpanFacts, LiveFacts
    <3>3. f - E \in 0..Near /\ E + (f - E) = f
      BY <2>1, <3>1, <3>2
    <3> QED BY <1>3, <2>1, <2>4, <3>3 DEF Searching
  <2> QED BY <1>2, <2>3, <2>4 DEF Ordered
<1> QED BY <1>2, <1>3 DEF Ordered, Behind

\* HandleFrame writes the frames in the order in which they were sent, whatever is lost
\* and however they overtake each other, across any number of wraps of the sequence
\* number and restarts of either end, unless it gives up a wait while the frame is on its
\* way or a restart leaves numbers that can be mistaken; the first frame it holds is
\* never the one it waits for, and it skips nothing unless a frame is lost.
THEOREM FramesWrittenInOrder ==
    ASSUME WindowFits
    PROVE  Spec => []WrittenInOrder
  BY OrderInvHolds, OrderInvOrders, PTL

\* With -q at least the number of frames that may overtake one, and -m at least the time
\* a frame may be held up, HandleFrame never gives up a wait for a frame on its way.
THEOREM ToleranceAlwaysKept ==
    ASSUME WindowFits
    PROVE  Spec => []ToleranceKept
<1>1. OrderInv => ToleranceKept
  BY DEF OrderInv, TInv, ToleranceKept
<1> QED BY OrderInvHolds, <1>1, PTL

-----------------------------------------------------------------------------
(* Without restarts: a stream without end.  WindowFits bounds what a behaviour may    *)
(* lose altogether; here only the frames that may be written at one time are bounded. *)

\* The frame after the last one written: the one whose turn it is.
Due == IF written = <<>> THEN first + 1 ELSE written[Len(written)] + 1

\* The frames on their way and held are less than half the numbers from there.
Close == \A f \in Live : f - Due < Half

\* As long as no wait is given up too early, the handler waits for that frame.
InTurn ==
    ~early => \E E \in Nat : E = Due /\ Numbered(1) /\ Ahead(E) /\ Behind(E) /\ Synced(E, 1)

\* It is so in the beginning.
LEMMA InTurnInit == Init => InTurn
<1> SUFFICES ASSUME Init PROVE InTurn
  OBVIOUS
<1>1. /\ TypeOK /\ first \in Nat /\ sent = first /\ DelimSeq = first % SeqSize /\ inFlight = {}
      /\ frame_q = {} /\ expected_seq = first % SeqSize /\ written = <<>>
  BY FInvInit, DelimFacts DEF FInv, Init
<1>2. PICK E \in Nat : E = first + 1 /\ E = Due
  BY <1>1 DEF Due
<1>3. Num(E, 1) = first % SeqSize
  <2>1. E - 1 = first
    BY <1>1, <1>2
  <2> QED BY <2>1 DEF Num
<1>4. Live = {} /\ Numbered(1)
  BY <1>1, <1>2, <1>3 DEF Live, Numbered
<1>5. Ahead(E)
  <2>1. E \in (first + 1)..(sent + 1) /\ E..sent = {}
    BY <1>1, <1>2
  <2> QED BY <1>4, <2>1 DEF Ahead
<1>6. Behind(E) /\ Synced(E, 1)
  BY <1>1, <1>2, <1>3 DEF Behind, Synced
<1> QED BY <1>2, <1>4, <1>5, <1>6 DEF InTurn

\* HandleFrame writes the frame whose turn it is, or the first of those that are left.
LEMMA HandleInTurn ==
    ASSUME FInv, Close, NEW E \in Nat, E = Due, Numbered(1), Ahead(E), Behind(E), Synced(E, 1),
           NEW f \in inFlight, HandleFrame(f), ~early'
    PROVE  \E E1 \in Nat : /\ E1 = Due' /\ Numbered(1)' /\ Ahead(E1)' /\ Behind(E1)'
                           /\ Synced(E1, 1)'
<1>1. PICK q : q = frame_q \cup {f}
  OBVIOUS
<1>2. TypeOK /\ q \subseteq Live
  BY <1>1 DEF FInv, Live
<1>3. Window(q, E, 1)
  <2> SUFFICES ASSUME NEW x \in q
               PROVE  x \in Nat /\ E <= x /\ x - E < Half /\ seq(x) = Num(x, 1)
    BY DEF Window
  <2>1. x \in Live
    BY <1>2
  <2> QED BY <1>2, <2>1, LiveFacts DEF Close, Ahead, Numbered
<1>4. PICK top \in q, run \in Seq(q), latency \in Nat, e \in Seq32 :
             HandleEffect(q, top, run, latency, e)
  <2>1. 1 \in Nat
    OBVIOUS
  <2> QED BY <1>1, <1>3, <2>1, HandleInWindow
<1>5. /\ \A x \in q : top <= x
      /\ written' = written \o run
      /\ seq(top) # expected_seq /\ e = seq(top) => ~\E g \in inFlight' : g < top
      /\ e \in {seq(top), expected_seq}
  BY <1>4 DEF HandleEffect
<1>6. Handling(f, q, E, 1, top, run, e)
  BY <1>1, <1>3, <1>4 DEF Handling
<1>7. 1 \in Nat /\ top \in Nat /\ first' = first /\ Numbered(1)' /\ \A x \in Live : E <= x
  BY <1>6, HandleLeaves
<1>8. CASE seq(top) # e /\ run = <<>>
  <2>1. written' = written /\ Ahead(E)' /\ Behind(E)' /\ Synced(E, 1)'
    BY <1>6, <1>7, <1>8, HandleWaits
  <2>2. E = Due'
    BY <1>7, <2>1 DEF Due
  <2> QED BY <1>7, <2>1, <2>2
<1>9. CASE /\ seq(top) = e /\ Len(run) \in 1..(SeqMaxQ + 1)
           /\ \A i \in 1..Len(run) : run[i] = top + i - 1
           /\ top + Len(run) \notin q
  <2>1. \A x \in Live : top <= x
    <3>1. CASE seq(top) = expected_seq
      <4>1. Num(top, 1) = Num(E, 1)
        BY <1>3, <3>1 DEF Synced, Window
      <4>2. top - E < SeqSize /\ E - top < SeqSize
        BY <1>3, <1>7, HalfFacts DEF Window
      <4>3. top = E
        <5>1. top \in Int /\ E \in Int /\ 1 \in Int
          BY <1>7
        <5> QED BY <4>1, <4>2, <5>1, NumSame
      <4> QED BY <1>7, <4>3
    <3>2. CASE ~\E g \in inFlight' : g < top
      BY <1>1, <1>2, <1>5, <3>2, NoneBefore
    <3> QED BY <1>5, <1>9, <3>1, <3>2
  <2>2. PICK n \in Nat : n = Len(run) /\ n >= 1
    BY <1>9
  <2>3. PICK E1 \in Nat : E1 = top + n
    BY <1>7
  <2>4. Ahead(E1)' /\ Behind(E1)' /\ Synced(E1, 1)'
    BY <1>6, <1>7, <1>9, <2>1, <2>2, <2>3, HandleWrites
  <2>5. E1 = Due'
    <3>1. PICK w : w = written'
      OBVIOUS
    <3>2. written \in Seq(Nat) /\ run \in Seq(Nat)
      <4>1. Sent \subseteq Nat /\ q \subseteq Nat /\ written \in Seq(Sent)
        BY <1>2, <1>6, LiveFacts, HandleLeaves DEF TypeOK
      <4> QED BY <4>1, SeqWider
    <3>3. Len(w) = Len(written) + n /\ Len(written) \in Nat /\ w[Len(written) + n] = run[n]
      BY <1>5, <2>2, <3>1, <3>2
    <3>4. w # <<>> /\ w[Len(w)] = top + n - 1
      BY <1>9, <2>2, <3>3
    <3>5. E1 = w[Len(w)] + 1
      BY <1>7, <2>3, <3>4
    <3> QED BY <3>1, <3>4, <3>5 DEF Due
  <2> QED BY <1>7, <2>4, <2>5
<1> QED BY <1>4, <1>8, <1>9 DEF HandleEffect

\* Every step of a stream without restarts keeps it so.
LEMMA InTurnStep ==
    ASSUME MaxRestarts = 0
    PROVE  FInv /\ Close /\ InTurn /\ [Next]_vars => InTurn'
<1> SUFFICES ASSUME FInv, Close, InTurn, [Next]_vars, ~early'
             PROVE  \E E1 \in Nat : /\ E1 = Due' /\ Numbered(1)' /\ Ahead(E1)' /\ Behind(E1)'
                                    /\ Synced(E1, 1)'
  BY DEF InTurn
<1>1. TypeOK /\ ~early /\ 1 \in Nat
  BY HistoryKept DEF FInv
<1>2. PICK E \in Nat : E = Due /\ Numbered(1) /\ Ahead(E) /\ Behind(E) /\ Synced(E, 1)
  BY <1>1 DEF InTurn
<1>3. ASSUME lost \subseteq lost', UNCHANGED <<first, written, expected_seq, frame_q>>
      PROVE  E = Due' /\ Behind(E)' /\ Synced(E, 1)'
  <2>1. lost' = {} => lost = {}
    BY <1>3
  <2> QED BY <1>2, <1>3, <2>1 DEF Due, Behind, Synced, Num
<1>4. ASSUME NEW gone \in {{}} \cup {{f} : f \in inFlight \cup {sent + 1}}, AddDelim(gone)
      PROVE  E = Due' /\ Numbered(1)' /\ Ahead(E)' /\ Behind(E)' /\ Synced(E, 1)'
  <2>1. Numbered(1)' /\ Ahead(E)'
    BY <1>1, <1>2, <1>4, AddDelimCounts
  <2>2. lost \subseteq lost' /\ UNCHANGED <<first, written, expected_seq, frame_q>>
    BY <1>4 DEF AddDelim, receiver
  <2> QED BY <1>3, <2>1, <2>2
<1>5. ASSUME NEW f \in inFlight, Lose(f)
      PROVE  E = Due' /\ Numbered(1)' /\ Ahead(E)' /\ Behind(E)' /\ Synced(E, 1)'
  <2>1. Numbered(1)' /\ Ahead(E)'
    BY <1>1, <1>2, <1>5, LoseCounts
  <2>2. lost \subseteq lost' /\ UNCHANGED <<first, written, expected_seq, frame_q>>
    BY <1>5 DEF Lose, sender, receiver
  <2> QED BY <1>3, <2>1, <2>2
<1>6. ASSUME NEW f \in inFlight, HandleFrame(f)
      PROVE  \E E1 \in Nat : /\ E1 = Due' /\ Numbered(1)' /\ Ahead(E1)' /\ Behind(E1)'
                             /\ Synced(E1, 1)'
  BY <1>2, <1>6, HandleInTurn
<1>7. ~ReceiverRestarts /\ \A gone \in SUBSET inFlight : ~SenderRestarts(gone)
  <2>1. ~(restarts < MaxRestarts)
    BY <1>1 DEF TypeOK
  <2> QED BY <2>1 DEF ReceiverRestarts, SenderRestarts
<1>8. CASE Tick \/ UNCHANGED vars
  <2>1. UNCHANGED <<first, DelimSeq, sent, number, inFlight, lost, frame_q, expected_seq, written>>
    BY <1>8 DEF Tick, Later, vars, sender, receiver
  <2>2. Numbered(1)' /\ Ahead(E)'
    BY <1>2, <2>1 DEF Numbered, Ahead, Live, Num, seq
  <2> QED BY <1>3, <2>1, <2>2
<1> QED BY <1>4, <1>5, <1>6, <1>7, <1>8 DEF Next

\* Frames in order, none skipped that is not lost.
LEMMA InTurnOrders == FInv /\ Close /\ InTurn => WrittenInOrder
<1> SUFFICES ASSUME FInv, Close, InTurn, ~early
             PROVE  /\ \A i, j \in DOMAIN written : i < j => written[i] < written[j]
                    /\ \A f \in frame_q : (\A g \in frame_q : f <= g) => seq(f) # expected_seq
                    /\ lost = {} => \A i \in DOMAIN written : written[i] = first + i
  BY DEF WrittenInOrder
<1>1. PICK E \in Nat : E = Due /\ Numbered(1) /\ Ahead(E) /\ Behind(E) /\ Synced(E, 1)
  BY DEF InTurn
<1>2. ASSUME NEW f \in frame_q, seq(f) = expected_seq PROVE FALSE
  <2>1. f \in Live /\ TypeOK
    BY DEF Live, FInv
  <2>2. f \in Nat /\ E <= f /\ f - E < Half /\ seq(f) = Num(f, 1)
    BY <1>1, <2>1, LiveFacts DEF Ahead, Close, Numbered
  <2>3. Num(f, 1) = Num(E, 1) /\ f # E
    BY <1>1, <1>2, <2>2 DEF Synced
  <2>4. f - E < SeqSize /\ E - f < SeqSize /\ f \in Int /\ E \in Int /\ 1 \in Int
    BY <2>2, HalfFacts
  <2> QED BY <2>3, <2>4, NumSame
<1> QED BY <1>1, <1>2 DEF Behind

\* HandleFrame writes the frames in the order in which they were sent for as long as the
\* stream lasts, however many frames are sent and lost and however often the sequence
\* numbers wrap, if the frames on their way and held always stay within half the sequence
\* numbers (2^31) of the last one written, and neither end is restarted.
THEOREM StreamWrittenInOrder ==
    ASSUME MaxRestarts = 0
    PROVE  Spec /\ []Close => []WrittenInOrder
<1>1. Init => FInv
  BY FInvInit
<1>2. FInv /\ [Next]_vars => FInv'
  BY FInvStep
<1> QED BY <1>1, <1>2, InTurnInit, InTurnStep, InTurnOrders, PTL DEF Spec
=============================================================================
