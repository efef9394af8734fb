------------------------ MODULE DNP3FragHandlerProofs ------------------------
(* The proofs for DNP3FragHandler: the bookkeeping of a flow is that of its    *)
(* queue, every frame received is in one place or written once, and the frames *)
(* of a flow are written in the order in which they were sent.                 *)
EXTENDS DNP3FragHandler, FiniteSetTheorems, TLAPS

-----------------------------------------------------------------------------
(* Sequences that list a set *)

\* s holds just the elements of S, each of them once.
Lists(s, S) ==
    /\ s \in Seq(S)
    /\ \A i, j \in 1..Len(s) : s[i] = s[j] => i = j
    /\ \A x \in S : \E i \in 1..Len(s) : s[i] = x

\* The empty sequence lists the empty set.
LEMMA ListsNothing == Lists(<<>>, {})
  BY DEF Lists

\* A sequence of one element.
LEMMA ListsOne ==
    ASSUME NEW x
    PROVE  Lists(<<x>>, {x})
  BY DEF Lists

\* An element is put in at the end.
LEMMA ListsAppend ==
    ASSUME NEW S, NEW s, Lists(s, S), NEW x, x \notin S
    PROVE  Lists(Append(s, x), S \cup {x})
<1> DEFINE t == Append(s, x)
           T == S \cup {x}
<1>1. s \in Seq(S) /\ Len(s) \in Nat
  BY DEF Lists
<1>2. s \in Seq(T)
  BY <1>1
<1>3. /\ t \in Seq(T) /\ Len(t) = Len(s) + 1
      /\ \A i \in 1..Len(s) : t[i] = s[i]
      /\ t[Len(s) + 1] = x
  BY <1>2
<1> HIDE DEF t
<1>4. \A i \in 1..Len(s) : s[i] \in S
  BY <1>1
<1>5. ASSUME NEW i \in 1..Len(t), NEW j \in 1..Len(t), t[i] = t[j] PROVE i = j
  <2>1. CASE i \in 1..Len(s) /\ j \in 1..Len(s)
    <3>1. s[i] = s[j]
      BY <2>1, <1>3, <1>5
    <3> QED BY <2>1, <3>1 DEF Lists
  <2>2. CASE i \in 1..Len(s) /\ j = Len(s) + 1
    BY <2>2, <1>3, <1>4, <1>5
  <2>3. CASE i = Len(s) + 1 /\ j \in 1..Len(s)
    BY <2>3, <1>3, <1>4, <1>5
  <2> QED BY <2>1, <2>2, <2>3, <1>1, <1>3
<1>6. ASSUME NEW y \in T PROVE \E i \in 1..Len(t) : t[i] = y
  <2>1. CASE y = x
    BY <2>1, <1>1, <1>3
  <2>2. CASE y \in S
    <3>1. PICK i \in 1..Len(s) : s[i] = y
      BY <2>2 DEF Lists
    <3> QED BY <3>1, <1>1, <1>3
  <2> QED BY <2>1, <2>2
<1>7. Lists(t, T)
  BY <1>3, <1>5, <1>6 DEF Lists
<1> QED BY <1>7 DEF t

\* An element is taken out at the front.
LEMMA ListsTail ==
    ASSUME NEW S, NEW s, Lists(s, S), s # <<>>
    PROVE  Head(s) \in S /\ Lists(Tail(s), S \ {Head(s)})
<1> DEFINE t == Tail(s)
           T == S \ {Head(s)}
<1>1. s \in Seq(S) /\ Len(s) \in Nat \ {0}
  BY DEF Lists
<1>2. /\ t \in Seq(S) /\ Len(t) = Len(s) - 1
      /\ \A i \in 1..Len(t) : t[i] = s[i + 1]
      /\ Head(s) = s[1] /\ Head(s) \in S
  BY <1>1
<1> HIDE DEF t
<1>3. \A i \in 1..Len(t) : t[i] \in T
  <2> SUFFICES ASSUME NEW i \in 1..Len(t) PROVE t[i] \in S /\ t[i] # s[1]
    BY <1>2
  <2>1. t[i] \in S
    BY <1>2
  <2>2. i + 1 \in 1..Len(s) /\ 1 \in 1..Len(s) /\ i + 1 # 1
    BY <1>1, <1>2
  <2>3. s[i + 1] # s[1]
    BY <2>2 DEF Lists
  <2> QED BY <2>1, <2>3, <1>2
<1>4. t \in Seq(T)
  BY <1>2, <1>3
<1>5. ASSUME NEW i \in 1..Len(t), NEW j \in 1..Len(t), t[i] = t[j] PROVE i = j
  <2>1. i + 1 \in 1..Len(s) /\ j + 1 \in 1..Len(s)
    BY <1>1, <1>2
  <2>2. s[i + 1] = s[j + 1]
    BY <1>2, <1>5
  <2>3. i + 1 = j + 1
    BY <2>1, <2>2 DEF Lists
  <2> QED BY <2>3
<1>6. ASSUME NEW y \in T PROVE \E i \in 1..Len(t) : t[i] = y
  <2>1. PICK i \in 1..Len(s) : s[i] = y
    BY DEF Lists
  <2>2. i # 1
    BY <2>1, <1>2
  <2>3. i - 1 \in 1..Len(t) /\ (i - 1) + 1 = i
    BY <2>2, <1>1, <1>2
  <2> QED BY <2>1, <2>3, <1>2
<1>7. Lists(t, T)
  BY <1>4, <1>5, <1>6 DEF Lists
<1> QED BY <1>2, <1>7 DEF t

\* Lists of sets that share nothing are joined.
LEMMA ListsConcat ==
    ASSUME NEW S, NEW s, Lists(s, S), NEW T, NEW t, Lists(t, T), S \cap T = {}
    PROVE  Lists(s \o t, S \cup T)
<1> DEFINE u == s \o t
           U == S \cup T
<1>1. s \in Seq(S) /\ t \in Seq(T) /\ Len(s) \in Nat /\ Len(t) \in Nat
  BY DEF Lists
<1>2. s \in Seq(U) /\ t \in Seq(U)
  BY <1>1
<1>3. /\ u \in Seq(U) /\ Len(u) = Len(s) + Len(t)
      /\ \A i \in 1..Len(u) : u[i] = IF i <= Len(s) THEN s[i] ELSE t[i - Len(s)]
  BY <1>2
<1> HIDE DEF u
<1>4. \A i \in 1..Len(u) :
        \/ i \in 1..Len(s) /\ u[i] = s[i] /\ u[i] \in S
        \/ i - Len(s) \in 1..Len(t) /\ u[i] = t[i - Len(s)] /\ u[i] \in T
  <2> SUFFICES ASSUME NEW i \in 1..Len(u)
               PROVE  \/ i \in 1..Len(s) /\ u[i] = s[i] /\ u[i] \in S
                      \/ i - Len(s) \in 1..Len(t) /\ u[i] = t[i - Len(s)] /\ u[i] \in T
    OBVIOUS
  <2>1. CASE i <= Len(s)
    <3>1. i \in 1..Len(s) /\ u[i] = s[i]
      BY <2>1, <1>1, <1>3
    <3> QED BY <3>1, <1>1
  <2>2. CASE ~(i <= Len(s))
    <3>1. i - Len(s) \in 1..Len(t) /\ u[i] = t[i - Len(s)]
      BY <2>2, <1>1, <1>3
    <3> QED BY <3>1, <1>1
  <2> QED BY <2>1, <2>2
<1>5. ASSUME NEW i \in 1..Len(u), NEW j \in 1..Len(u), u[i] = u[j] PROVE i = j
  <2>1. CASE u[i] \in S
    <3>1. /\ i \in 1..Len(s) /\ u[i] = s[i]
          /\ j \in 1..Len(s) /\ u[j] = s[j]
      BY <2>1, <1>4, <1>5
    <3> QED BY <3>1, <1>5 DEF Lists
  <2>2. CASE u[i] \in T
    <3>1. /\ i - Len(s) \in 1..Len(t) /\ u[i] = t[i - Len(s)]
          /\ j - Len(s) \in 1..Len(t) /\ u[j] = t[j - Len(s)]
      BY <2>2, <1>4, <1>5
    <3>2. i - Len(s) = j - Len(s)
      BY <3>1, <1>5 DEF Lists
    <3> QED BY <3>2, <1>1
  <2> QED BY <2>1, <2>2, <1>4
<1>6. ASSUME NEW y \in U PROVE \E i \in 1..Len(u) : u[i] = y
  <2>1. CASE y \in S
    <3>1. PICK i \in 1..Len(s) : s[i] = y
      BY <2>1 DEF Lists
    <3>2. i \in 1..Len(u) /\ u[i] = s[i]
      BY <1>1, <1>3
    <3> QED BY <3>1, <3>2
  <2>2. CASE y \in T
    <3>1. PICK j \in 1..Len(t) : t[j] = y
      BY <2>2 DEF Lists
    <3>2. Len(s) + j \in 1..Len(u) /\ ~(Len(s) + j <= Len(s)) /\ (Len(s) + j) - Len(s) = j
      BY <1>1, <1>3
    <3>3. u[Len(s) + j] = t[j]
      BY <3>2, <1>3
    <3> QED BY <3>1, <3>2, <3>3
  <2> QED BY <2>1, <2>2
<1>7. Lists(u, U)
  BY <1>3, <1>5, <1>6 DEF Lists
<1> QED BY <1>7 DEF u

\* How often an element occurs.
LEMMA ListsTimes ==
    ASSUME NEW S, NEW s, Lists(s, S), NEW x
    PROVE  Cardinality({i \in DOMAIN s : s[i] = x}) = IF x \in S THEN 1 ELSE 0
<1> DEFINE at == {i \in DOMAIN s : s[i] = x}
<1>1. s \in Seq(S) /\ DOMAIN s = 1..Len(s)
  BY DEF Lists
<1>2. CASE x \in S
  <2>1. PICK i \in 1..Len(s) : s[i] = x
    BY <1>2 DEF Lists
  <2>2. at = {i}
    BY <2>1, <1>1 DEF Lists
  <2> QED BY <1>2, <2>2, FS_Singleton
<1>3. CASE x \notin S
  <2>1. at = {}
    BY <1>1, <1>3
  <2> QED BY <1>3, <2>1, FS_EmptySet
<1> QED BY <1>2, <1>3

\* A list of a finite set is as long as the set is large.
LEMMA ListsLength ==
    ASSUME NEW S, NEW s, Lists(s, S)
    PROVE  Cardinality(S) = Len(s)
<1>1. s \in Seq(S) /\ Len(s) \in Nat
  BY DEF Lists
<1>2. s \in [1..Len(s) -> S]
  BY <1>1
<1>3. s \in Injection(1..Len(s), S) /\ s \in Surjection(1..Len(s), S)
  BY <1>2 DEF Lists, Injection, IsInjective, Surjection
<1>4. IsFiniteSet(1..Len(s)) /\ Cardinality(1..Len(s)) = Len(s)
  BY <1>1, FS_Interval
<1> QED BY <1>3, <1>4, FS_Surjection

\* An enumeration of a finite set without repetitions leaves nothing out.
LEMMA ListsEnumerated ==
    ASSUME NEW S, IsFiniteSet(S), NEW s \in SetToSeqs(S)
    PROVE  Lists(s, S)
<1> DEFINE n == Cardinality(S)
           D == 1..n
<1>1. n \in Nat
  BY FS_CardinalityType
<1>2. s \in [D -> S] /\ \A i, j \in D : i # j => s[i] # s[j]
  BY DEF SetToSeqs
<1>3. s \in Seq(S) /\ Len(s) = n
  BY <1>1, <1>2
<1>4. IsFiniteSet(D) /\ Cardinality(D) = n
  BY <1>1, FS_Interval
<1>5. \A y \in S : \E i \in D : s[i] = y
  <2>1. s \in Injection(D, S)
    BY <1>2 DEF Injection, IsInjective
  <2>2. s \in Surjection(D, S)
    BY <2>1, <1>4, FS_Injection
  <2> QED BY <2>2 DEF Surjection
<1> QED BY <1>2, <1>3, <1>5 DEF Lists

-----------------------------------------------------------------------------
(* The bookkeeping of a flow *)

Numbers == 0..(SeqCount - 1)

\* The states of a flow.
FlowStates ==
    [frag_q : SUBSET Frames, pNextFrame : Frames \cup {NoFrame}, hasSeq : SUBSET Numbers,
     hasFir : BOOLEAN, hasFin : BOOLEAN, firSeq : Numbers, finSeq : Numbers]

\* The bookkeeping of a flow is that of its queue, in which no number occurs twice.
Books(fl) ==
    /\ fl.hasSeq = {seq(f) : f \in fl.frag_q}
    /\ \A f, g \in fl.frag_q : seq(f) = seq(g) => f = g
    /\ fl.hasFir <=> \E f \in fl.frag_q : fir(f)
    /\ fl.hasFin <=> \E f \in fl.frag_q : fin(f)
    /\ \A f, g \in fl.frag_q : f # g => ~(fir(f) /\ fir(g)) /\ ~(fin(f) /\ fin(g))
    /\ \A f \in fl.frag_q : (fir(f) => fl.firSeq = seq(f)) /\ (fin(f) => fl.finSeq = seq(f))
    /\ fl.pNextFrame # NoFrame => fl.frag_q # {}

\* The frames of a stream are numbered from 1, and their fields have their types.
LEMMA FramesTyped ==
    ASSUME stream \in Streams
    PROVE  /\ Frames \subseteq Nat /\ NoFrame \notin Frames /\ IsFiniteSet(Frames)
           /\ \A f \in Frames : /\ fir(f) \in BOOLEAN /\ fin(f) \in BOOLEAN
                                /\ seq(f) \in Numbers /\ flow(f) \in Flows \cup {Unframed}
<1>1. stream \in Seq(FrameType)
  BY StreamsAssumption
<1>2. Frames = 1..Len(stream) /\ Len(stream) \in Nat
  BY <1>1 DEF Frames
<1>3. \A f \in Frames : stream[f] \in FrameType
  BY <1>1, <1>2
<1>4. IsFiniteSet(Frames)
  BY <1>2, FS_Interval
<1> QED BY <1>2, <1>3, <1>4 DEF FrameType, fir, fin, seq, flow, Numbers, NoFrame

\* A flush leaves a flow with nothing on the books, to which every frame is new.
LEMMA FlushedBooks ==
    ASSUME NEW fl \in FlowStates
    PROVE  /\ Flushed(fl) \in FlowStates /\ Books(Flushed(fl))
           /\ Flushed(fl).frag_q = {} /\ Flushed(fl).pNextFrame = NoFrame
           /\ \A f : ~Duplicate(Flushed(fl), f)
<1> DEFINE nf == Flushed(fl)
<1>1. /\ nf.frag_q = {} /\ nf.pNextFrame = NoFrame /\ nf.hasSeq = {}
      /\ nf.hasFir = FALSE /\ nf.hasFin = FALSE
  BY DEF Flushed, FlowStates
<1>2. nf \in FlowStates
  BY DEF Flushed, FlowStates
<1> HIDE DEF nf
<1>3. Books(nf)
  BY <1>1 DEF Books
<1>4. \A f : ~Duplicate(nf, f)
  BY <1>1 DEF Duplicate
<1> QED BY <1>1, <1>2, <1>3, <1>4 DEF nf

\* A fragment that is no duplicate is put on the books.
LEMMA RecordedBooks ==
    ASSUME stream \in Streams, NEW fl \in FlowStates, Books(fl), NEW f \in Frames,
           ~Duplicate(fl, f)
    PROVE  /\ Recorded(fl, f) \in FlowStates /\ Books(Recorded(fl, f))
           /\ Recorded(fl, f).frag_q = fl.frag_q \cup {f}
           /\ Recorded(fl, f).pNextFrame = fl.pNextFrame
<1> DEFINE nf == Recorded(fl, f)
<1>1. /\ fir(f) \in BOOLEAN /\ fin(f) \in BOOLEAN /\ seq(f) \in Numbers
  BY FramesTyped
<1>2. /\ nf.frag_q = fl.frag_q \cup {f}
      /\ nf.pNextFrame = fl.pNextFrame
      /\ nf.hasSeq = fl.hasSeq \cup {seq(f)}
      /\ nf.hasFir = (fl.hasFir \/ fir(f))
      /\ nf.hasFin = (fl.hasFin \/ fin(f))
      /\ nf.firSeq = (IF fir(f) THEN seq(f) ELSE fl.firSeq)
      /\ nf.finSeq = (IF fin(f) THEN seq(f) ELSE fl.finSeq)
  BY DEF Recorded, FlowStates
<1>3. nf \in FlowStates
  <2>1. (fl.hasFir \/ fir(f)) \in BOOLEAN /\ (fl.hasFin \/ fin(f)) \in BOOLEAN
    OBVIOUS
  <2>2. /\ (IF fir(f) THEN seq(f) ELSE fl.firSeq) \in Numbers
        /\ (IF fin(f) THEN seq(f) ELSE fl.finSeq) \in Numbers
    BY <1>1 DEF FlowStates
  <2>3. /\ fl.frag_q \cup {f} \in SUBSET Frames /\ fl.hasSeq \cup {seq(f)} \in SUBSET Numbers
    BY <1>1 DEF FlowStates
  <2> QED BY <2>1, <2>2, <2>3 DEF Recorded, FlowStates
<1> HIDE DEF nf
<1>4. /\ ~(fl.hasFir /\ fir(f)) /\ ~(fl.hasFin /\ fin(f)) /\ seq(f) \notin fl.hasSeq
  BY DEF Duplicate
<1>5. \A g \in fl.frag_q : /\ seq(g) # seq(f) /\ ~(fir(g) /\ fir(f)) /\ ~(fin(g) /\ fin(f))
  BY <1>4 DEF Books
<1>6. nf.hasSeq = {seq(g) : g \in nf.frag_q}
  BY <1>2 DEF Books
<1>7. \A g, h \in nf.frag_q : seq(g) = seq(h) => g = h
  BY <1>2, <1>5 DEF Books
<1>8. /\ nf.hasFir <=> \E g \in nf.frag_q : fir(g)
      /\ nf.hasFin <=> \E g \in nf.frag_q : fin(g)
  <2>1. nf.hasFir <=> \E g \in nf.frag_q : fir(g)
    BY <1>2 DEF Books
  <2>2. nf.hasFin <=> \E g \in nf.frag_q : fin(g)
    BY <1>2 DEF Books
  <2> QED BY <2>1, <2>2
<1>9. \A g, h \in nf.frag_q : g # h => ~(fir(g) /\ fir(h)) /\ ~(fin(g) /\ fin(h))
  BY <1>2, <1>5 DEF Books
<1>10. \A g \in nf.frag_q : (fir(g) => nf.firSeq = seq(g)) /\ (fin(g) => nf.finSeq = seq(g))
  BY <1>2, <1>5 DEF Books
<1>11. nf.pNextFrame # NoFrame => nf.frag_q # {}
  BY <1>2
<1>12. Books(nf)
  BY <1>6, <1>7, <1>8, <1>9, <1>10, <1>11 DEF Books
<1> QED BY <1>2, <1>3, <1>12 DEF nf

\* A whole message is saved behind fragments.
LEMMA SavedBooks ==
    ASSUME NEW fl \in FlowStates, Books(fl), NEW f \in Frames, fl.frag_q # {},
           NEW nf, nf = [fl EXCEPT !.pNextFrame = f]
    PROVE  /\ nf \in FlowStates /\ Books(nf)
           /\ nf.frag_q = fl.frag_q /\ nf.pNextFrame = f
<1>1. /\ nf.frag_q = fl.frag_q /\ nf.pNextFrame = f /\ nf.hasSeq = fl.hasSeq
      /\ nf.hasFir = fl.hasFir /\ nf.hasFin = fl.hasFin
      /\ nf.firSeq = fl.firSeq /\ nf.finSeq = fl.finSeq
  BY DEF FlowStates
<1>2. nf \in FlowStates
  BY DEF FlowStates
<1>3. Books(nf)
  BY <1>1 DEF Books
<1> QED BY <1>1, <1>2, <1>3

\* The books say how many frames are queued: as many as numbers.
LEMMA BooksCount ==
    ASSUME stream \in Streams, NEW fl \in FlowStates, Books(fl)
    PROVE  Cardinality(fl.hasSeq) = Cardinality(fl.frag_q)
<1> DEFINE F == [f \in fl.frag_q |-> seq(f)]
<1>1. fl.frag_q \in SUBSET Frames
  BY DEF FlowStates
<1>2. IsFiniteSet(fl.frag_q)
  BY <1>1, FramesTyped, FS_Subset
<1>3. F \in [fl.frag_q -> fl.hasSeq] /\ \A f \in fl.frag_q : F[f] = seq(f)
  BY DEF Books
<1>4. F \in Surjection(fl.frag_q, fl.hasSeq)
  BY <1>3 DEF Surjection, Books
<1>5. F \in Injection(fl.frag_q, fl.hasSeq)
  BY <1>3 DEF Injection, IsInjective, Books
<1> QED BY <1>2, <1>4, <1>5, FS_Surjection

-----------------------------------------------------------------------------
(* Flushing a flow *)

\* The whole message saved behind the fragments, if there is one.
Saved(fl) == {fl.pNextFrame} \ {NoFrame}

\* All that a flow holds.
Held(fl) == fl.frag_q \cup Saved(fl)

\* A flush writes all that the flow held, each frame once, whatever order the heap
\* makes of it.
LEMMA FlushWritesHeld ==
    ASSUME stream \in Streams, NEW fl \in FlowStates, fl.frag_q \cap Saved(fl) = {},
           NEW out \in FlushOutputs(fl)
    PROVE  Lists(out, Held(fl))
<1>1. PICK s \in PopOrders(fl.frag_q) : out = s \o Opt(fl.pNextFrame)
  BY DEF FlushOutputs
<1>2. s \in SetToSeqs(fl.frag_q)
  BY <1>1 DEF PopOrders
<1>3. IsFiniteSet(fl.frag_q)
  BY FramesTyped, FS_Subset DEF FlowStates
<1>4. Lists(s, fl.frag_q)
  BY <1>2, <1>3, ListsEnumerated
<1>5. Lists(Opt(fl.pNextFrame), Saved(fl))
  <2>1. CASE fl.pNextFrame = NoFrame
    <3>1. Opt(fl.pNextFrame) = <<>> /\ Saved(fl) = {}
      BY <2>1 DEF Opt, Saved
    <3> QED BY <3>1, ListsNothing
  <2>2. CASE fl.pNextFrame # NoFrame
    <3>1. Opt(fl.pNextFrame) = <<fl.pNextFrame>> /\ Saved(fl) = {fl.pNextFrame}
      BY <2>2 DEF Opt, Saved
    <3> QED BY <3>1, ListsOne
  <2> QED BY <2>1, <2>2
<1>6. Lists(s \o Opt(fl.pNextFrame), fl.frag_q \cup Saved(fl))
  BY <1>4, <1>5, ListsConcat
<1> QED BY <1>1, <1>6 DEF Held

-----------------------------------------------------------------------------
(* Where the frames are *)

Place == {"away", "marshalled", "posted", "queued", "next", "written"}

At(pl, p) == {f \in Frames : pl[f] = p}
AtFlow(pl, p, w) == {f \in Frames : pl[f] = p /\ flow(f) = w}

\* pl gives every frame one place: not received (or lost), or one of those a frame goes
\* through; and what is in these places are just the frames placed there, each once.
Placed(pl) ==
    /\ pl \in [Frames -> Place]
    /\ \A f \in Frames : pl[f] # "away" <=> f \in arrived \ lost
    /\ \A f \in Frames : pl[f] \notin {"away", "written"} => flow(f) \in Flows
    /\ Lists(marshalling_strand, At(pl, "marshalled"))
    /\ \A w \in Flows : Lists(flow_strand[w], AtFlow(pl, "posted", w))
    /\ \A w \in Flows : /\ TransportFlows[w].frag_q = AtFlow(pl, "queued", w)
                        /\ Saved(TransportFlows[w]) = AtFlow(pl, "next", w)
    /\ Lists(written, At(pl, "written"))

\* What of the types the places do not say.
Typed ==
    /\ stream \in Streams
    /\ lost \subseteq arrived /\ arrived \subseteq Frames
    /\ flow_strand \in [Flows -> Seq(Frames)]
    /\ TransportFlows \in [Flows -> FlowStates]
    /\ orderly \in BOOLEAN

\* The books of all flows.
Booked == \A w \in Flows : Books(TransportFlows[w])

\* The inductive invariant.
FragInv == Typed /\ Booked /\ \E pl : Placed(pl)

\* As long as the stream is the same, so is what was said of it.
LEMMA SameStream ==
    ASSUME stream' = stream
    PROVE  /\ Frames' = Frames /\ FlowStates' = FlowStates
           /\ \A fl : Books(fl)' <=> Books(fl)
           /\ \A pl, p : At(pl, p)' = At(pl, p)
           /\ \A pl, p, w : AtFlow(pl, p, w)' = AtFlow(pl, p, w)
<1>1. Frames' = Frames
  BY DEF Frames
<1>2. FlowStates' = FlowStates
  BY <1>1 DEF FlowStates
<1>3. \A f : seq(f)' = seq(f) /\ fir(f)' = fir(f) /\ fin(f)' = fin(f) /\ flow(f)' = flow(f)
  BY DEF seq, fir, fin, flow
<1>4. ASSUME NEW fl PROVE Books(fl)' <=> Books(fl)
  BY DEF Books, seq, fir, fin
<1>5. ASSUME NEW pl, NEW p PROVE At(pl, p)' = At(pl, p)
  BY <1>1 DEF At
<1>6. ASSUME NEW pl, NEW p, NEW w PROVE AtFlow(pl, p, w)' = AtFlow(pl, p, w)
  BY <1>1 DEF AtFlow, flow
<1> QED BY <1>1, <1>2, <1>4, <1>5, <1>6

\* A flow's strand and its state change, and keep their types.
LEMMA TypedOn ==
    ASSUME Typed, stream' = stream, arrived' = arrived, lost' = lost, orderly' = orderly,
           NEW w \in Flows, NEW q \in Seq(Frames), NEW nf \in FlowStates,
           flow_strand' = [flow_strand EXCEPT ![w] = q],
           TransportFlows' = [TransportFlows EXCEPT ![w] = nf]
    PROVE  Typed'
<1>1. Frames' = Frames /\ FlowStates' = FlowStates
  BY SameStream
<1>2. flow_strand' \in [Flows -> Seq(Frames)]
  BY DEF Typed
<1>3. TransportFlows' \in [Flows -> FlowStates]
  BY DEF Typed
<1> QED BY <1>1, <1>2, <1>3 DEF Typed

\* The handler of flow w takes frame f: of that and of what the flow held, the frames O
\* are written and the others are held.
LEMMA FlowStep ==
    ASSUME FragInv, NEW w \in Flows, flow_strand[w] # <<>>,
           NEW f, f = Head(flow_strand[w]), NEW fl, fl = TransportFlows[w],
           NEW nf \in FlowStates, Books(nf), nf.frag_q \cap Saved(nf) = {},
           NEW O, NEW out, Lists(out, O),
           Held(nf) \cup O = Held(fl) \cup {f}, Held(nf) \cap O = {},
           flow_strand' = [flow_strand EXCEPT ![w] = Tail(@)],
           TransportFlows' = [TransportFlows EXCEPT ![w] = nf],
           written' = written \o out,
           UNCHANGED <<stream, arrived, lost, marshalling_strand, orderly>>
    PROVE  FragInv'
<1>1. PICK pl : Placed(pl)
  BY DEF FragInv
<1> DEFINE q == [g \in Frames |-> IF g \in O THEN "written"
                                  ELSE IF g \in nf.frag_q THEN "queued"
                                  ELSE IF g \in Saved(nf) THEN "next" ELSE pl[g]]
<1>2. Typed /\ Booked
  BY DEF FragInv
<1>3. /\ Frames' = Frames
      /\ \A r, p : At(r, p)' = At(r, p)
      /\ \A r, p, v : AtFlow(r, p, v)' = AtFlow(r, p, v)
      /\ \A g : flow(g)' = flow(g)
  BY SameStream DEF flow
<1>4. /\ f \in AtFlow(pl, "posted", w)
      /\ Lists(Tail(flow_strand[w]), AtFlow(pl, "posted", w) \ {f})
  BY <1>1, ListsTail DEF Placed
<1>5. fl.frag_q = AtFlow(pl, "queued", w) /\ Saved(fl) = AtFlow(pl, "next", w)
  BY <1>1 DEF Placed
<1>6. Typed'
  <2>1. Tail(flow_strand[w]) \in Seq(Frames)
    BY <1>2 DEF Typed
  <2> QED BY <1>2, <2>1, TypedOn
<1>7. Booked'
  <2> SUFFICES ASSUME NEW v \in Flows PROVE Books(TransportFlows[v])'
    BY DEF Booked
  <2>1. PICK b : b = TransportFlows'[v]
    OBVIOUS
  <2>2. Books(b)
    <3>1. b = nf \/ b = TransportFlows[v]
      BY <2>1, <1>2 DEF Typed
    <3> QED BY <3>1, <1>2 DEF Booked
  <2>3. Books(b)'
    BY <2>2, SameStream
  <2> QED BY <2>1, <2>3 DEF Books
<1>8. /\ q \in [Frames -> Place]
      /\ \A g \in Frames : q[g] = IF g \in O THEN "written"
                                  ELSE IF g \in nf.frag_q THEN "queued"
                                  ELSE IF g \in Saved(nf) THEN "next" ELSE pl[g]
  BY <1>1 DEF Placed, Place
<1> HIDE DEF q
<1>9. \A g \in Frames :
        g \in O \cup nf.frag_q \cup Saved(nf) <=>
          flow(g) = w /\ (pl[g] = "queued" \/ pl[g] = "next" \/ g = f)
  <2>1. \A g : g \in O \cup nf.frag_q \cup Saved(nf) <=> g \in fl.frag_q \cup Saved(fl) \cup {f}
    BY DEF Held
  <2> QED BY <2>1, <1>4, <1>5 DEF AtFlow
<1>10. f \in Frames /\ flow(f) = w /\ pl[f] = "posted" /\ O \cup nf.frag_q \cup Saved(nf) \subseteq Frames
  <2>1. O \cup nf.frag_q \cup Saved(nf) \subseteq fl.frag_q \cup Saved(fl) \cup {f}
    BY DEF Held
  <2> QED BY <2>1, <1>4, <1>5 DEF AtFlow
<1>11. /\ O \cap nf.frag_q = {} /\ O \cap Saved(nf) = {} /\ nf.frag_q \cap Saved(nf) = {}
  BY DEF Held
<1>12. At(q, "marshalled") = At(pl, "marshalled")
  BY <1>8, <1>9, <1>10 DEF At
<1>13. At(q, "written") = At(pl, "written") \cup O /\ At(pl, "written") \cap O = {}
  BY <1>8, <1>9, <1>10 DEF At
<1>14. \A v \in Flows : AtFlow(q, "posted", v) = IF v = w THEN AtFlow(pl, "posted", w) \ {f}
                                                         ELSE AtFlow(pl, "posted", v)
  BY <1>8, <1>9, <1>10 DEF AtFlow
<1>15. AtFlow(q, "queued", w) = nf.frag_q /\ AtFlow(q, "next", w) = Saved(nf)
  BY <1>8, <1>9, <1>10, <1>11 DEF AtFlow
<1>16. \A v \in Flows \ {w} : /\ AtFlow(q, "queued", v) = AtFlow(pl, "queued", v)
                              /\ AtFlow(q, "next", v) = AtFlow(pl, "next", v)
  BY <1>8, <1>9, <1>10 DEF AtFlow
<1>17. \A g \in Frames : (q[g] # "away" <=> g \in arrived' \ lost')
  <2> SUFFICES ASSUME NEW g \in Frames PROVE q[g] # "away" <=> pl[g] # "away"
    BY <1>1 DEF Placed
  <2> QED BY <1>8, <1>9, <1>10
<1>18. \A g \in Frames : q[g] \notin {"away", "written"} => flow(g) \in Flows
  <2> SUFFICES ASSUME NEW g \in Frames, q[g] \notin {"away", "written"} PROVE flow(g) \in Flows
    OBVIOUS
  <2>1. CASE g \in O \cup nf.frag_q \cup Saved(nf)
    BY <1>9, <2>1
  <2>2. CASE g \notin O \cup nf.frag_q \cup Saved(nf)
    BY <1>1, <1>8, <2>2 DEF Placed
  <2> QED BY <2>1, <2>2
<1>19. \A v \in Flows : Lists(flow_strand'[v], AtFlow(q, "posted", v))
  <2> SUFFICES ASSUME NEW v \in Flows PROVE Lists(flow_strand'[v], AtFlow(q, "posted", v))
    OBVIOUS
  <2>1. CASE v = w
    <3>1. flow_strand'[w] = Tail(flow_strand[w])
      BY <1>2 DEF Typed
    <3> QED BY <2>1, <3>1, <1>4, <1>14
  <2>2. CASE v # w
    <3>1. flow_strand'[v] = flow_strand[v]
      BY <2>2, <1>2 DEF Typed
    <3> QED BY <2>2, <3>1, <1>1, <1>14 DEF Placed
  <2> QED BY <2>1, <2>2
<1>20. \A v \in Flows : /\ TransportFlows'[v].frag_q = AtFlow(q, "queued", v)
                        /\ Saved(TransportFlows'[v]) = AtFlow(q, "next", v)
  <2> SUFFICES ASSUME NEW v \in Flows
               PROVE  /\ TransportFlows'[v].frag_q = AtFlow(q, "queued", v)
                      /\ Saved(TransportFlows'[v]) = AtFlow(q, "next", v)
    OBVIOUS
  <2>1. CASE v = w
    <3>1. TransportFlows'[w] = nf
      BY <1>2 DEF Typed
    <3> QED BY <2>1, <3>1, <1>15
  <2>2. CASE v # w
    <3>1. TransportFlows'[v] = TransportFlows[v]
      BY <2>2, <1>2 DEF Typed
    <3> QED BY <2>2, <3>1, <1>1, <1>16 DEF Placed
  <2> QED BY <2>1, <2>2
<1>21. Lists(written', At(q, "written"))
  <2>1. Lists(written, At(pl, "written"))
    BY <1>1 DEF Placed
  <2>2. Lists(written \o out, At(pl, "written") \cup O)
    BY <2>1, <1>13, ListsConcat
  <2> QED BY <2>2, <1>13
<1>22. Lists(marshalling_strand', At(q, "marshalled"))
  BY <1>1, <1>12 DEF Placed
<1>23. PICK r : r = q
  OBVIOUS
<1>24. Placed(r)'
  BY <1>3, <1>8, <1>17, <1>18, <1>19, <1>20, <1>21, <1>22, <1>23 DEF Placed, Saved
<1> QED BY <1>6, <1>7, <1>24 DEF FragInv

\* The handler of a flow, for a fragment.
LEMMA FragmentStep ==
    ASSUME FragInv, NEW w \in Flows, HandleFragment(w)
    PROVE  FragInv'
<1>1. PICK f, fl, d : /\ f = Head(flow_strand[w]) /\ fl = TransportFlows[w]
                      /\ d = Duplicate(TransportFlows[w], Head(flow_strand[w]))
  OBVIOUS
<1>2. PICK start : start = IF d THEN Flushed(fl) ELSE fl
  OBVIOUS
<1>3. PICK queued : queued = Recorded(start, f)
  OBVIOUS
<1>4. PICK nf : nf = IF Complete(queued) THEN Flushed(queued) ELSE queued
  OBVIOUS
<1>5. PICK before \in IF d THEN FlushOutputs(fl) ELSE {<<>>},
           after \in IF Complete(queued) THEN FlushOutputs(queued) ELSE {<<>>} :
        /\ written' = written \o before \o after
        /\ TransportFlows' = [TransportFlows EXCEPT ![w] = nf]
  BY <1>1, <1>2, <1>3, <1>4 DEF HandleFragment
<1>6. Typed /\ Booked /\ stream \in Streams
  BY DEF FragInv, Typed
<1>7. PICK pl : Placed(pl)
  BY DEF FragInv
<1>8. flow_strand[w] # <<>>
  BY DEF HandleFragment
<1>9. f \in AtFlow(pl, "posted", w)
  BY <1>1, <1>7, <1>8, ListsTail DEF Placed
<1>10. fl.frag_q = AtFlow(pl, "queued", w) /\ Saved(fl) = AtFlow(pl, "next", w)
  BY <1>1, <1>7 DEF Placed
<1>11. fl.frag_q \cap Saved(fl) = {} /\ f \notin Held(fl) /\ f \in Frames
  BY <1>9, <1>10 DEF AtFlow, Held
<1>12. fl \in FlowStates /\ Books(fl)
  BY <1>1, <1>6 DEF Typed, Booked
<1>13. PICK B : B = IF d THEN Held(fl) ELSE {}
  OBVIOUS
<1>14. PICK A : A = IF Complete(queued) THEN Held(queued) ELSE {}
  OBVIOUS
<1>15. /\ start \in FlowStates /\ Books(start) /\ ~Duplicate(start, f)
       /\ Held(start) \cup B = Held(fl) /\ Held(start) \cap B = {}
       /\ start.frag_q \cap Saved(start) = {}
  <2>1. CASE d
    <3>1. start = Flushed(fl) /\ B = Held(fl)
      BY <1>2, <1>13, <2>1
    <3>2. /\ start \in FlowStates /\ Books(start) /\ ~Duplicate(start, f)
          /\ start.frag_q = {} /\ start.pNextFrame = NoFrame
      BY <1>12, <3>1, FlushedBooks
    <3>3. Held(start) = {}
      BY <3>2 DEF Held, Saved
    <3> QED BY <3>1, <3>2, <3>3 DEF Held
  <2>2. CASE ~d
    <3>1. start = fl /\ B = {}
      BY <1>2, <1>13, <2>2
    <3>2. ~Duplicate(fl, f)
      BY <1>1, <2>2
    <3> QED BY <3>1, <3>2, <1>11, <1>12
  <2> QED BY <2>1, <2>2
<1>16. /\ queued \in FlowStates /\ Books(queued)
       /\ queued.frag_q = start.frag_q \cup {f} /\ queued.pNextFrame = start.pNextFrame
  BY <1>3, <1>6, <1>11, <1>15, RecordedBooks
<1>17. /\ Held(queued) = Held(start) \cup {f} /\ Saved(queued) = Saved(start)
       /\ queued.frag_q \cap Saved(queued) = {}
  <2>1. Saved(queued) = Saved(start)
    BY <1>16 DEF Saved
  <2>2. f \notin Saved(start)
    BY <1>11, <1>15 DEF Held
  <2> QED BY <2>1, <2>2, <1>15, <1>16 DEF Held
<1>18. /\ nf \in FlowStates /\ Books(nf) /\ nf.frag_q \cap Saved(nf) = {}
       /\ Held(nf) \cup A = Held(queued) /\ Held(nf) \cap A = {}
  <2>1. CASE Complete(queued)
    <3>1. nf = Flushed(queued) /\ A = Held(queued)
      BY <1>4, <1>14, <2>1
    <3>2. /\ nf \in FlowStates /\ Books(nf) /\ nf.frag_q = {} /\ nf.pNextFrame = NoFrame
      BY <1>16, <3>1, FlushedBooks
    <3>3. Held(nf) = {}
      BY <3>2 DEF Held, Saved
    <3> QED BY <3>1, <3>2, <3>3
  <2>2. CASE ~Complete(queued)
    <3>1. nf = queued /\ A = {}
      BY <1>4, <1>14, <2>2
    <3> QED BY <3>1, <1>16, <1>17
  <2> QED BY <2>1, <2>2
<1>19. Lists(before, B)
  <2>1. CASE d
    <3>1. before \in FlushOutputs(fl) /\ B = Held(fl)
      BY <1>5, <1>13, <2>1
    <3> QED BY <3>1, <1>6, <1>11, <1>12, FlushWritesHeld
  <2>2. CASE ~d
    BY <1>5, <1>13, <2>2, ListsNothing
  <2> QED BY <2>1, <2>2
<1>20. Lists(after, A)
  <2>1. CASE Complete(queued)
    <3>1. after \in FlushOutputs(queued) /\ A = Held(queued)
      BY <1>5, <1>14, <2>1
    <3> QED BY <3>1, <1>6, <1>16, <1>17, FlushWritesHeld
  <2>2. CASE ~Complete(queued)
    BY <1>5, <1>14, <2>2, ListsNothing
  <2> QED BY <2>1, <2>2
<1>21. B \cap A = {}
  BY <1>11, <1>15, <1>17, <1>18
<1>22. PICK O, out : O = B \cup A /\ out = before \o after
  OBVIOUS
<1>23. Lists(out, O)
  BY <1>19, <1>20, <1>21, <1>22, ListsConcat
<1>24. Held(nf) \cup O = Held(fl) \cup {f} /\ Held(nf) \cap O = {}
  BY <1>11, <1>15, <1>17, <1>18, <1>22
<1>25. written' = written \o out
  <2>1. written \in Seq(At(pl, "written")) /\ before \in Seq(B) /\ after \in Seq(A)
    BY <1>7, <1>19, <1>20 DEF Placed, Lists
  <2>2. PICK U : U = At(pl, "written") \cup B \cup A
    OBVIOUS
  <2>3. written \in Seq(U) /\ before \in Seq(U) /\ after \in Seq(U)
    BY <2>1, <2>2
  <2>4. (written \o before) \o after = written \o (before \o after)
    BY <2>3
  <2> QED BY <2>4, <1>5, <1>22
<1>26. /\ flow_strand' = [flow_strand EXCEPT ![w] = Tail(@)]
       /\ UNCHANGED <<stream, arrived, lost, marshalling_strand, orderly>>
  BY DEF HandleFragment
<1> QED BY <1>1, <1>5, <1>8, <1>18, <1>23, <1>24, <1>25, <1>26, FlowStep

\* The handler of a flow, for a whole message.
LEMMA WholeStep ==
    ASSUME FragInv, NEW w \in Flows, HandleWhole(w)
    PROVE  FragInv'
<1>1. PICK f, fl : f = Head(flow_strand[w]) /\ fl = TransportFlows[w]
  OBVIOUS
<1>2. Typed /\ Booked /\ stream \in Streams
  BY DEF FragInv, Typed
<1>3. PICK pl : Placed(pl)
  BY DEF FragInv
<1>4. flow_strand[w] # <<>>
  BY DEF HandleWhole
<1>5. f \in AtFlow(pl, "posted", w)
  BY <1>1, <1>3, <1>4, ListsTail DEF Placed
<1>6. fl.frag_q = AtFlow(pl, "queued", w) /\ Saved(fl) = AtFlow(pl, "next", w)
  BY <1>1, <1>3 DEF Placed
<1>7. fl.frag_q \cap Saved(fl) = {} /\ f \notin Held(fl) /\ f \in Frames
  BY <1>5, <1>6 DEF AtFlow, Held
<1>8. fl \in FlowStates /\ Books(fl)
  BY <1>1, <1>2 DEF Typed, Booked
<1>9. /\ flow_strand' = [flow_strand EXCEPT ![w] = Tail(@)]
      /\ UNCHANGED <<stream, arrived, lost, marshalling_strand, orderly>>
  BY DEF HandleWhole
<1>10. written \in Seq(At(pl, "written"))
  BY <1>3 DEF Placed, Lists
<1>11. CASE \E out \in FlushOutputs(fl) : written' = written \o out \o <<f>>
            /\ TransportFlows' = [TransportFlows EXCEPT ![w] = Flushed(@)]
  <2>1. PICK a \in FlushOutputs(fl) : written' = written \o a \o <<f>>
    BY <1>11
  <2>2. PICK nf, out, O : nf = Flushed(fl) /\ out = a \o <<f>> /\ O = Held(fl) \cup {f}
    OBVIOUS
  <2>3. Lists(a, Held(fl)) /\ Lists(<<f>>, {f})
    BY <1>2, <1>7, <1>8, <2>1, FlushWritesHeld, ListsOne
  <2>4. Lists(out, O)
    BY <1>7, <2>2, <2>3, ListsConcat
  <2>5. nf \in FlowStates /\ Books(nf) /\ nf.frag_q = {} /\ nf.pNextFrame = NoFrame
    BY <1>8, <2>2, FlushedBooks
  <2>6. Held(nf) = {} /\ nf.frag_q \cap Saved(nf) = {}
    BY <2>5 DEF Held, Saved
  <2>7. Held(nf) \cup O = Held(fl) \cup {f} /\ Held(nf) \cap O = {}
    BY <2>2, <2>6
  <2>8. written' = written \o out
    <3>1. PICK U : U = At(pl, "written") \cup Held(fl) \cup {f}
      OBVIOUS
    <3>2. a \in Seq(Held(fl)) /\ <<f>> \in Seq({f})
      BY <2>3 DEF Lists
    <3>3. written \in Seq(U) /\ a \in Seq(U) /\ <<f>> \in Seq(U)
      BY <1>10, <3>1, <3>2
    <3>4. (written \o a) \o <<f>> = written \o (a \o <<f>>)
      BY <3>3
    <3> QED BY <2>1, <2>2, <3>4
  <2>9. TransportFlows' = [TransportFlows EXCEPT ![w] = nf]
    BY <1>1, <1>11, <2>2
  <2> QED BY <1>1, <1>4, <1>9, <2>4, <2>5, <2>6, <2>7, <2>8, <2>9, FlowStep
<1>12. CASE /\ fl.pNextFrame = NoFrame /\ fl.frag_q # {}
            /\ TransportFlows' = [TransportFlows EXCEPT ![w].pNextFrame = f]
            /\ written' = written
  <2>1. PICK nf : nf = [fl EXCEPT !.pNextFrame = f]
    OBVIOUS
  <2>2. nf \in FlowStates /\ Books(nf) /\ nf.frag_q = fl.frag_q /\ nf.pNextFrame = f
    BY <1>7, <1>8, <1>12, <2>1, SavedBooks
  <2>3. f # NoFrame
    BY <1>2, <1>7, FramesTyped
  <2>4. Saved(nf) = {f} /\ Saved(fl) = {}
    BY <1>12, <2>2, <2>3 DEF Saved
  <2>5. /\ nf.frag_q \cap Saved(nf) = {}
        /\ Held(nf) \cup {} = Held(fl) \cup {f} /\ Held(nf) \cap {} = {}
    BY <1>7, <2>2, <2>4 DEF Held
  <2>6. written' = written \o <<>>
    BY <1>10, <1>12
  <2>7. TransportFlows' = [TransportFlows EXCEPT ![w] = nf]
    BY <1>1, <1>12, <2>1
  <2> QED BY <1>1, <1>4, <1>9, <2>2, <2>5, <2>6, <2>7, ListsNothing, FlowStep
<1>13. CASE /\ fl.pNextFrame = NoFrame /\ fl.frag_q = {}
            /\ written' = Append(written, f)
            /\ TransportFlows' = TransportFlows
  <2>1. Held(fl) \cup {f} = Held(fl) \cup {f} /\ Held(fl) \cap {f} = {}
    BY <1>7
  <2>2. written' = written \o <<f>>
    <3>1. written \in Seq(At(pl, "written") \cup {f})
      BY <1>10
    <3> QED BY <3>1, <1>13
  <2>3. TransportFlows' = [TransportFlows EXCEPT ![w] = fl]
    BY <1>1, <1>2, <1>13 DEF Typed
  <2> QED BY <1>1, <1>4, <1>7, <1>8, <1>9, <2>1, <2>2, <2>3, ListsOne, FlowStep
<1> QED BY <1>1, <1>11, <1>12, <1>13 DEF HandleWhole

-----------------------------------------------------------------------------
(* The other steps *)

\* Where the flows are left alone, so are their books.
LEMMA BookedOn ==
    ASSUME Booked, stream' = stream, TransportFlows' = TransportFlows
    PROVE  Booked'
<1> SUFFICES ASSUME NEW v \in Flows PROVE Books(TransportFlows[v])'
  BY DEF Booked
<1>1. PICK b : b = TransportFlows[v]
  OBVIOUS
<1>2. Books(b)'
  BY <1>1, SameStream DEF Booked
<1> QED BY <1>1, <1>2 DEF Books

\* Places q are places pl after frame g went to place p.
MovedTo(q, pl, g, p) ==
    /\ q \in [Frames -> Place]
    /\ \A f \in Frames : q[f] = IF f = g THEN p ELSE pl[f]
    /\ At(q, p) = At(pl, p) \cup {g}
    /\ \A o \in Place \ {p} : At(q, o) = At(pl, o) \ {g}
    /\ \A v : v = flow(g) => AtFlow(q, p, v) = AtFlow(pl, p, v) \cup {g}
    /\ \A v : v # flow(g) => AtFlow(q, p, v) = AtFlow(pl, p, v)
    /\ \A o \in Place \ {p} : \A v : AtFlow(q, o, v) = AtFlow(pl, o, v) \ {g}

\* A frame can be moved.
LEMMA MovedPlaces ==
    ASSUME NEW pl \in [Frames -> Place], NEW g \in Frames, NEW p \in Place, pl[g] # p
    PROVE  \E q : MovedTo(q, pl, g, p)
<1> DEFINE q == [f \in Frames |-> IF f = g THEN p ELSE pl[f]]
<1>1. /\ q \in [Frames -> Place]
      /\ \A f \in Frames : q[f] = IF f = g THEN p ELSE pl[f]
  OBVIOUS
<1> HIDE DEF q
<1>2. At(q, p) = At(pl, p) \cup {g}
  BY <1>1 DEF At
<1>3. ASSUME NEW o \in Place \ {p} PROVE At(q, o) = At(pl, o) \ {g}
  BY <1>1 DEF At
<1>4. ASSUME NEW v, v = flow(g) PROVE AtFlow(q, p, v) = AtFlow(pl, p, v) \cup {g}
  BY <1>1, <1>4 DEF AtFlow
<1>5. ASSUME NEW v, v # flow(g) PROVE AtFlow(q, p, v) = AtFlow(pl, p, v)
  BY <1>1, <1>5 DEF AtFlow
<1>6. ASSUME NEW o \in Place \ {p}, NEW v PROVE AtFlow(q, o, v) = AtFlow(pl, o, v) \ {g}
  BY <1>1 DEF AtFlow
<1>7. MovedTo(q, pl, g, p)
  BY <1>1, <1>2, <1>3, <1>4, <1>5, <1>6 DEF MovedTo
<1> QED BY <1>7

\* HandleFrame.
LEMMA ArrivalStep ==
    ASSUME FragInv, NEW g \in Frames, HandleFrame(g)
    PROVE  FragInv'
<1>1. PICK pl : Placed(pl)
  BY DEF FragInv
<1>2. Typed /\ Booked /\ stream \in Streams
  BY DEF FragInv, Typed
<1>3. /\ stream' = stream /\ lost' = lost /\ flow_strand' = flow_strand
      /\ TransportFlows' = TransportFlows /\ arrived' = arrived \cup {g} /\ g \notin arrived
  BY DEF HandleFrame
<1>4. /\ Frames' = Frames /\ FlowStates' = FlowStates
      /\ \A r, p : At(r, p)' = At(r, p)
      /\ \A r, p, v : AtFlow(r, p, v)' = AtFlow(r, p, v)
      /\ \A f : flow(f)' = flow(f)
  BY <1>3, SameStream DEF flow
<1>5. pl[g] = "away" /\ pl \in [Frames -> Place] /\ g \notin lost
  <2>1. g \notin lost
    BY <1>2, <1>3 DEF Typed
  <2> QED BY <2>1, <1>1, <1>3 DEF Placed
<1>6. Typed'
  <2>1. orderly' \in BOOLEAN
    BY <1>2 DEF Typed, HandleFrame
  <2> QED BY <2>1, <1>2, <1>3, <1>4 DEF Typed
<1>7. Booked'
  BY <1>2, <1>3, BookedOn
<1>8. PICK p \in {"marshalled", "written"} : p = IF flow(g) = Unframed THEN "written" ELSE "marshalled"
  OBVIOUS
<1>9. PICK q : MovedTo(q, pl, g, p)
  <2>1. p \in Place /\ pl[g] # p
    BY <1>5, <1>8 DEF Place
  <2> QED BY <2>1, <1>5, MovedPlaces
<1>10. /\ q \in [Frames -> Place]
       /\ \A f \in Frames : q[f] = IF f = g THEN p ELSE pl[f]
       /\ At(q, p) = At(pl, p) \cup {g}
       /\ \A o \in Place \ {p} : At(q, o) = At(pl, o) \ {g}
       /\ \A o \in Place \ {p} : \A v : AtFlow(q, o, v) = AtFlow(pl, o, v) \ {g}
  BY <1>9 DEF MovedTo
<1>11. \A o \in Place \ {"away"} : g \notin At(pl, o) /\ \A v : g \notin AtFlow(pl, o, v)
  BY <1>5 DEF At, AtFlow
<1>12. \A o \in {"posted", "queued", "next"} : \A v : AtFlow(q, o, v) = AtFlow(pl, o, v)
  <2> SUFFICES ASSUME NEW o \in {"posted", "queued", "next"}, NEW v
               PROVE  AtFlow(q, o, v) = AtFlow(pl, o, v)
    OBVIOUS
  <2>1. o \in Place \ {"away"} /\ o # p
    BY <1>8 DEF Place
  <2>2. AtFlow(q, o, v) = AtFlow(pl, o, v) \ {g}
    BY <2>1, <1>10
  <2> QED BY <2>1, <2>2, <1>11
<1>13. \A f \in Frames : (q[f] # "away" <=> f \in arrived' \ lost')
  BY <1>1, <1>3, <1>5, <1>8, <1>10 DEF Placed
<1>14. \A f \in Frames : q[f] \notin {"away", "written"} => flow(f) \in Flows
  <2>1. p = "marshalled" => flow(g) \in Flows
    BY <1>2, <1>8, FramesTyped
  <2> QED BY <2>1, <1>1, <1>8, <1>10 DEF Placed
<1>15. Lists(marshalling_strand', At(q, "marshalled")) /\ Lists(written', At(q, "written"))
  <2>1. Lists(marshalling_strand, At(pl, "marshalled")) /\ Lists(written, At(pl, "written"))
    BY <1>1 DEF Placed
  <2>2. "marshalled" \in Place \ {"written"} /\ "written" \in Place \ {"marshalled"}
    BY DEF Place
  <2>3. g \notin At(pl, "marshalled") /\ g \notin At(pl, "written")
    BY <1>5 DEF At
  <2>4. CASE flow(g) = Unframed
    <3>1. p = "written" /\ marshalling_strand' = marshalling_strand /\ written' = Append(written, g)
      BY <1>8, <2>4 DEF HandleFrame
    <3>2. At(q, "written") = At(pl, "written") \cup {g}
      BY <3>1, <1>10
    <3>3. At(q, "marshalled") = At(pl, "marshalled") \ {g}
      BY <3>1, <2>2, <1>10
    <3>4. At(q, "marshalled") = At(pl, "marshalled")
      BY <3>3, <2>3
    <3> QED BY <3>1, <3>2, <3>4, <2>1, <2>3, ListsAppend
  <2>5. CASE flow(g) # Unframed
    <3>1. p = "marshalled" /\ marshalling_strand' = Append(marshalling_strand, g) /\ written' = written
      BY <1>8, <2>5 DEF HandleFrame
    <3>2. At(q, "marshalled") = At(pl, "marshalled") \cup {g}
      BY <3>1, <1>10
    <3>3. At(q, "written") = At(pl, "written") \ {g}
      BY <3>1, <2>2, <1>10
    <3>4. At(q, "written") = At(pl, "written")
      BY <3>3, <2>3
    <3> QED BY <3>1, <3>2, <3>4, <2>1, <2>3, ListsAppend
  <2> QED BY <2>4, <2>5
<1>16. /\ \A w \in Flows : Lists(flow_strand'[w], AtFlow(q, "posted", w))
       /\ \A w \in Flows : /\ TransportFlows'[w].frag_q = AtFlow(q, "queued", w)
                           /\ Saved(TransportFlows'[w]) = AtFlow(q, "next", w)
  BY <1>1, <1>3, <1>12 DEF Placed
<1>17. Placed(q)'
  BY <1>4, <1>10, <1>13, <1>14, <1>15, <1>16 DEF Placed, Saved
<1> QED BY <1>6, <1>7, <1>17 DEF FragInv

\* A frame is lost before it arrives.
LEMMA LossStep ==
    ASSUME FragInv, NEW g \in Frames, Lose(g)
    PROVE  FragInv'
<1>1. PICK pl : Placed(pl)
  BY DEF FragInv
<1>2. Typed /\ Booked
  BY DEF FragInv
<1>3. /\ stream' = stream /\ flow_strand' = flow_strand /\ TransportFlows' = TransportFlows
      /\ marshalling_strand' = marshalling_strand /\ written' = written /\ orderly' = orderly
      /\ arrived' = arrived \cup {g} /\ lost' = lost \cup {g} /\ g \notin arrived
  BY DEF Lose
<1>4. /\ Frames' = Frames /\ FlowStates' = FlowStates
      /\ \A r, p : At(r, p)' = At(r, p)
      /\ \A r, p, v : AtFlow(r, p, v)' = AtFlow(r, p, v)
      /\ \A f : flow(f)' = flow(f)
  BY <1>3, SameStream DEF flow
<1>5. Typed'
  BY <1>2, <1>3, <1>4 DEF Typed
<1>6. Booked'
  BY <1>2, <1>3, BookedOn
<1>7. arrived' \ lost' = arrived \ lost
  BY <1>3
<1>8. Placed(pl)'
  BY <1>1, <1>3, <1>4, <1>7 DEF Placed, Saved
<1> QED BY <1>5, <1>6, <1>8 DEF FragInv

\* The marshalling strand posts a frame to the strand of its flow.
LEMMA MarshalStep ==
    ASSUME FragInv, Marshal
    PROVE  FragInv'
<1>1. PICK pl : Placed(pl)
  BY DEF FragInv
<1>2. Typed /\ Booked
  BY DEF FragInv
<1>3. PICK g, w : g = Head(marshalling_strand) /\ w = flow(g)
  OBVIOUS
<1>4. /\ stream' = stream /\ arrived' = arrived /\ lost' = lost /\ TransportFlows' = TransportFlows
      /\ written' = written /\ orderly' = orderly
      /\ marshalling_strand # <<>> /\ marshalling_strand' = Tail(marshalling_strand)
      /\ flow_strand' = [flow_strand EXCEPT ![w] = Append(@, g)]
  BY <1>3 DEF Marshal
<1>5. /\ Frames' = Frames /\ FlowStates' = FlowStates
      /\ \A r, p : At(r, p)' = At(r, p)
      /\ \A r, p, v : AtFlow(r, p, v)' = AtFlow(r, p, v)
      /\ \A f : flow(f)' = flow(f)
  BY <1>4, SameStream DEF flow
<1>6. /\ g \in At(pl, "marshalled")
      /\ Lists(marshalling_strand', At(pl, "marshalled") \ {g})
  BY <1>1, <1>3, <1>4, ListsTail DEF Placed
<1>7. g \in Frames /\ pl[g] = "marshalled" /\ w \in Flows /\ pl \in [Frames -> Place]
  BY <1>1, <1>3, <1>6 DEF Placed, At
<1>8. Typed'
  <2>1. Append(flow_strand[w], g) \in Seq(Frames)
    BY <1>2, <1>7 DEF Typed
  <2>2. flow_strand' \in [Flows -> Seq(Frames)]
    BY <1>2, <1>4, <1>7, <2>1 DEF Typed
  <2> QED BY <1>2, <1>4, <1>5, <2>2 DEF Typed
<1>9. Booked'
  BY <1>2, <1>4, BookedOn
<1>10. PICK q : MovedTo(q, pl, g, "posted")
  <2>1. "posted" \in Place /\ pl[g] # "posted"
    BY <1>7 DEF Place
  <2> QED BY <2>1, <1>7, MovedPlaces
<1>11. /\ q \in [Frames -> Place]
       /\ \A f \in Frames : q[f] = IF f = g THEN "posted" ELSE pl[f]
       /\ \A o \in Place \ {"posted"} : At(q, o) = At(pl, o) \ {g}
       /\ AtFlow(q, "posted", w) = AtFlow(pl, "posted", w) \cup {g}
       /\ \A v : v # w => AtFlow(q, "posted", v) = AtFlow(pl, "posted", v)
       /\ \A o \in Place \ {"posted"} : \A v : AtFlow(q, o, v) = AtFlow(pl, o, v) \ {g}
  BY <1>3, <1>10 DEF MovedTo
<1>12. \A o \in Place \ {"marshalled"} : g \notin At(pl, o) /\ \A v : g \notin AtFlow(pl, o, v)
  BY <1>7 DEF At, AtFlow
<1>13. At(q, "written") = At(pl, "written") /\ At(q, "marshalled") = At(pl, "marshalled") \ {g}
  <2>1. /\ "written" \in Place \ {"posted"} /\ "marshalled" \in Place \ {"posted"}
    BY DEF Place
  <2>2. At(q, "written") = At(pl, "written") \ {g} /\ At(q, "marshalled") = At(pl, "marshalled") \ {g}
    BY <2>1, <1>11
  <2>3. g \notin At(pl, "written")
    BY <1>7 DEF At
  <2> QED BY <2>2, <2>3
<1>14. \A v : /\ AtFlow(q, "queued", v) = AtFlow(pl, "queued", v)
              /\ AtFlow(q, "next", v) = AtFlow(pl, "next", v)
  <2>1. /\ "queued" \in Place \ {"marshalled"} /\ "next" \in Place \ {"marshalled"}
        /\ "queued" \in Place \ {"posted"} /\ "next" \in Place \ {"posted"}
    BY DEF Place
  <2> QED BY <2>1, <1>11, <1>12
<1>15. \A v \in Flows : Lists(flow_strand'[v], AtFlow(q, "posted", v))
  <2> SUFFICES ASSUME NEW v \in Flows PROVE Lists(flow_strand'[v], AtFlow(q, "posted", v))
    OBVIOUS
  <2>1. "posted" \in Place \ {"marshalled"}
    BY DEF Place
  <2>2. Lists(flow_strand[v], AtFlow(pl, "posted", v)) /\ g \notin AtFlow(pl, "posted", v)
    BY <2>1, <1>1, <1>12 DEF Placed
  <2>3. CASE v = w
    <3>1. flow_strand'[v] = Append(flow_strand[v], g)
      BY <2>3, <1>2, <1>4 DEF Typed
    <3>2. AtFlow(q, "posted", v) = AtFlow(pl, "posted", v) \cup {g}
      BY <2>1, <2>3, <1>11
    <3> QED BY <2>2, <3>1, <3>2, ListsAppend
  <2>4. CASE v # w
    <3>1. flow_strand'[v] = flow_strand[v]
      BY <2>4, <1>2, <1>4 DEF Typed
    <3>2. AtFlow(q, "posted", v) = AtFlow(pl, "posted", v)
      BY <2>1, <2>2, <2>4, <1>11
    <3> QED BY <2>2, <3>1, <3>2
  <2> QED BY <2>3, <2>4
<1>16. \A f \in Frames : (q[f] # "away" <=> f \in arrived' \ lost')
  BY <1>1, <1>4, <1>7, <1>11 DEF Placed
<1>17. \A f \in Frames : q[f] \notin {"away", "written"} => flow(f) \in Flows
  BY <1>1, <1>3, <1>7, <1>11 DEF Placed
<1>18. \A v \in Flows : /\ TransportFlows'[v].frag_q = AtFlow(q, "queued", v)
                        /\ Saved(TransportFlows'[v]) = AtFlow(q, "next", v)
  BY <1>1, <1>4, <1>14 DEF Placed
<1>19. Lists(marshalling_strand', At(q, "marshalled")) /\ Lists(written', At(q, "written"))
  BY <1>1, <1>4, <1>6, <1>13 DEF Placed
<1>20. Placed(q)'
  BY <1>5, <1>11, <1>15, <1>16, <1>17, <1>18, <1>19 DEF Placed, Saved
<1> QED BY <1>8, <1>9, <1>20 DEF FragInv

-----------------------------------------------------------------------------
(* The inductive invariant *)

\* At the start no frame has arrived and no flow holds anything.
LEMMA FragInvInit == Init => FragInv
<1> SUFFICES ASSUME Init PROVE FragInv
  OBVIOUS
<1>1. stream \in Streams /\ 0 \in Numbers
  BY SeqCountAssumption DEF Init, Numbers
<1>2. TransportFlow \in FlowStates
  BY <1>1 DEF TransportFlow, FlowStates, NoFrame
<1>3. Typed
  BY <1>2 DEF Init, Typed
<1>4. /\ TransportFlow.frag_q = {} /\ TransportFlow.pNextFrame = NoFrame /\ TransportFlow.hasSeq = {}
      /\ TransportFlow.hasFir = FALSE /\ TransportFlow.hasFin = FALSE
  BY DEF TransportFlow
<1>5. Books(TransportFlow) /\ Saved(TransportFlow) = {}
  BY <1>4 DEF Books, Saved
<1>6. \A w \in Flows : TransportFlows[w] = TransportFlow /\ flow_strand[w] = <<>>
  BY DEF Init
<1>7. Booked
  BY <1>5, <1>6 DEF Booked
<1>8. PICK pl : pl = [f \in Frames |-> "away"]
  OBVIOUS
<1>9. pl \in [Frames -> Place] /\ \A f \in Frames : pl[f] = "away"
  BY <1>8 DEF Place
<1>10. /\ At(pl, "marshalled") = {} /\ At(pl, "written") = {}
       /\ \A w : /\ AtFlow(pl, "posted", w) = {} /\ AtFlow(pl, "queued", w) = {}
                 /\ AtFlow(pl, "next", w) = {}
  BY <1>9 DEF At, AtFlow
<1>11. arrived = {} /\ marshalling_strand = <<>> /\ written = <<>>
  BY DEF Init
<1>12. Placed(pl)
  BY <1>4, <1>5, <1>6, <1>9, <1>10, <1>11, ListsNothing DEF Placed
<1> QED BY <1>3, <1>7, <1>12 DEF FragInv

\* Every step keeps the invariant.
LEMMA FragInvStep == FragInv /\ [Next]_vars => FragInv'
<1> SUFFICES ASSUME FragInv, [Next]_vars PROVE FragInv'
  OBVIOUS
<1>1. ASSUME NEW f \in Frames, HandleFrame(f) PROVE FragInv'
  BY <1>1, ArrivalStep
<1>2. ASSUME NEW f \in Frames, Lose(f) PROVE FragInv'
  BY <1>2, LossStep
<1>3. CASE Marshal
  BY <1>3, MarshalStep
<1>4. ASSUME NEW w \in Flows, HandleFragment(w) PROVE FragInv'
  BY <1>4, FragmentStep
<1>5. ASSUME NEW w \in Flows, HandleWhole(w) PROVE FragInv'
  BY <1>5, WholeStep
<1>6. CASE UNCHANGED vars
  <2>1. /\ stream' = stream /\ flow_strand' = flow_strand /\ TransportFlows' = TransportFlows
        /\ marshalling_strand' = marshalling_strand /\ written' = written /\ orderly' = orderly
        /\ arrived' = arrived /\ lost' = lost
    BY <1>6 DEF vars
  <2>2. PICK pl : Placed(pl)
    BY DEF FragInv
  <2>3. /\ Frames' = Frames /\ FlowStates' = FlowStates
        /\ \A r, p : At(r, p)' = At(r, p)
        /\ \A r, p, v : AtFlow(r, p, v)' = AtFlow(r, p, v)
        /\ \A f : flow(f)' = flow(f)
    BY <2>1, SameStream DEF flow
  <2>4. Typed'
    BY <2>1, <2>3 DEF FragInv, Typed
  <2>5. Booked'
    BY <2>1, BookedOn DEF FragInv
  <2>6. Placed(pl)'
    BY <2>1, <2>2, <2>3 DEF Placed, Saved
  <2> QED BY <2>4, <2>5, <2>6 DEF FragInv
<1> QED BY <1>1, <1>2, <1>3, <1>4, <1>5, <1>6 DEF Next

\* The invariant holds in every state.
LEMMA FragInvAlways == Spec => []FragInv
  BY FragInvInit, FragInvStep, PTL DEF Spec

\* The invariant implies the two properties.
LEMMA FragInvBooks == FragInv => FlowBookkeeping
<1> SUFFICES ASSUME FragInv PROVE FlowBookkeeping
  OBVIOUS
<1>1. Typed /\ Booked
  BY DEF FragInv
<1>2. PICK pl : Placed(pl)
  BY DEF FragInv
<1>3. marshalling_strand \in Seq(Frames) /\ written \in Seq(Frames)
  <2>1. At(pl, "marshalled") \subseteq Frames /\ At(pl, "written") \subseteq Frames
    BY DEF At
  <2>2. marshalling_strand \in Seq(At(pl, "marshalled")) /\ written \in Seq(At(pl, "written"))
    BY <1>2 DEF Placed, Lists
  <2> QED BY <2>1, <2>2
<1>4. TypeOK
  BY <1>1, <1>3 DEF Typed, TypeOK, FlowStates, Numbers
<1>5. ASSUME NEW w \in Flows
      PROVE  LET fl == TransportFlows[w]
             IN  /\ Books(fl)
                 /\ Cardinality(fl.hasSeq) = Cardinality(fl.frag_q)
  <2>1. TransportFlows[w] \in FlowStates /\ Books(TransportFlows[w])
    BY <1>1 DEF Typed, Booked
  <2> QED BY <1>1, <2>1, BooksCount DEF Typed
<1> QED BY <1>4, <1>5 DEF FlowBookkeeping, Books

LEMMA FragInvConserves == FragInv => FramesConserved
<1> SUFFICES ASSUME FragInv, NEW f \in arrived \ lost
             PROVE  LET Times(s) == Cardinality({i \in DOMAIN s : s[i] = f})
                        w == flow(f)
                    IN  IF w = Unframed THEN Times(written) = 1
                        ELSE Times(marshalling_strand) + Times(flow_strand[w]) + Times(written)
                               + (IF f \in TransportFlows[w].frag_q THEN 1 ELSE 0)
                               + (IF f = TransportFlows[w].pNextFrame THEN 1 ELSE 0) = 1
  BY DEF FramesConserved
<1> DEFINE Times(s) == Cardinality({i \in DOMAIN s : s[i] = f})
           w == flow(f)
<1>1. Typed /\ f \in Frames /\ f # NoFrame
  <2>1. Typed
    BY DEF FragInv
  <2>2. f \in Frames
    BY <2>1 DEF Typed
  <2> QED BY <2>1, <2>2, FramesTyped DEF Typed
<1>2. PICK pl : Placed(pl)
  BY DEF FragInv
<1>3. pl[f] \in Place \ {"away"}
  BY <1>1, <1>2 DEF Placed
<1>4. Times(written) = IF pl[f] = "written" THEN 1 ELSE 0
  <2>1. Lists(written, At(pl, "written"))
    BY <1>2 DEF Placed
  <2>2. f \in At(pl, "written") <=> pl[f] = "written"
    BY <1>1 DEF At
  <2> QED BY <2>1, <2>2, ListsTimes
<1>5. Times(marshalling_strand) = IF pl[f] = "marshalled" THEN 1 ELSE 0
  <2>1. Lists(marshalling_strand, At(pl, "marshalled"))
    BY <1>2 DEF Placed
  <2>2. f \in At(pl, "marshalled") <=> pl[f] = "marshalled"
    BY <1>1 DEF At
  <2> QED BY <2>1, <2>2, ListsTimes
<1>6. CASE w = Unframed
  <2>1. pl[f] = "written"
    BY <1>1, <1>2, <1>3, <1>6, FlowsAssumption DEF Placed
  <2> QED BY <1>4, <1>6, <2>1
<1>7. CASE w # Unframed
  <2>1. w \in Flows
    BY <1>1, <1>7, FramesTyped DEF Typed
  <2>2. Times(flow_strand[w]) = IF pl[f] = "posted" THEN 1 ELSE 0
    <3>1. Lists(flow_strand[w], AtFlow(pl, "posted", w))
      BY <1>2, <2>1 DEF Placed
    <3>2. f \in AtFlow(pl, "posted", w) <=> pl[f] = "posted"
      BY <1>1 DEF AtFlow
    <3> QED BY <3>1, <3>2, ListsTimes
  <2>3. f \in TransportFlows[w].frag_q <=> pl[f] = "queued"
    BY <1>1, <1>2, <2>1 DEF Placed, AtFlow
  <2>4. f = TransportFlows[w].pNextFrame <=> pl[f] = "next"
    <3>1. Saved(TransportFlows[w]) = AtFlow(pl, "next", w)
      BY <1>2, <2>1 DEF Placed
    <3>2. f \in AtFlow(pl, "next", w) <=> pl[f] = "next"
      BY <1>1 DEF AtFlow
    <3>3. f \in Saved(TransportFlows[w]) <=> f = TransportFlows[w].pNextFrame
      BY <1>1 DEF Saved
    <3> QED BY <3>1, <3>2, <3>3
  <2>5. \/ pl[f] = "marshalled" \/ pl[f] = "posted" \/ pl[f] = "queued"
        \/ pl[f] = "next" \/ pl[f] = "written"
    BY <1>3 DEF Place
  <2>6. PICK a, b, c : a = Times(marshalling_strand) /\ b = Times(flow_strand[w]) /\ c = Times(written)
    OBVIOUS
  <2>7. a + b + c + (IF f \in TransportFlows[w].frag_q THEN 1 ELSE 0)
                  + (IF f = TransportFlows[w].pNextFrame THEN 1 ELSE 0) = 1
    BY <1>4, <1>5, <2>2, <2>3, <2>4, <2>5, <2>6
  <2> QED BY <1>7, <2>6, <2>7
<1> QED BY <1>6, <1>7

-----------------------------------------------------------------------------
(* Finite sets of natural numbers *)

\* How many elements of m are less than x.
Rank(m, x) == Cardinality({h \in m : h < x})

\* Ranks are in the order of the elements.
LEMMA RankOrder ==
    ASSUME NEW m \in SUBSET Nat, IsFiniteSet(m), NEW x \in m
    PROVE  /\ Rank(m, x) \in Nat /\ Rank(m, x) < Cardinality(m) /\ Cardinality(m) \in Nat
           /\ \A y \in m : x < y => Rank(m, x) < Rank(m, y)
<1> DEFINE L(y) == {h \in m : h < y}
<1>1. ASSUME NEW y \in m PROVE IsFiniteSet(L(y)) /\ Cardinality(L(y)) \in Nat
  <2>1. L(y) \in SUBSET m
    OBVIOUS
  <2>2. IsFiniteSet(L(y))
    BY <2>1, FS_Subset
  <2> QED BY <2>2, FS_CardinalityType
<1>2. Cardinality(m) \in Nat
  BY FS_CardinalityType
<1>3. IsFiniteSet(L(x) \cup {x}) /\ Cardinality(L(x) \cup {x}) = Cardinality(L(x)) + 1
  <2>1. x \notin L(x)
    OBVIOUS
  <2> QED BY <1>1, <2>1, FS_AddElement
<1>4. Cardinality(L(x)) < Cardinality(m)
  <2>1. L(x) \cup {x} \in SUBSET m
    OBVIOUS
  <2>2. Cardinality(L(x) \cup {x}) <= Cardinality(m)
    BY <2>1, FS_Subset
  <2> QED BY <1>1, <1>2, <1>3, <2>2
<1>5. ASSUME NEW y \in m, x < y PROVE Cardinality(L(x)) < Cardinality(L(y))
  <2>1. L(x) \cup {x} \in SUBSET L(y)
    <3> SUFFICES ASSUME NEW h \in L(x) \cup {x} PROVE h \in m /\ h < y
      OBVIOUS
    <3>1. h \in m /\ h \in Nat /\ h <= x
      OBVIOUS
    <3> QED BY <1>5, <3>1
  <2>2. Cardinality(L(x) \cup {x}) <= Cardinality(L(y))
    BY <2>1, <1>1, FS_Subset
  <2> QED BY <1>1, <1>3, <2>2
<1> QED BY <1>1, <1>2, <1>4, <1>5 DEF Rank

\* There is an element of every rank.
LEMMA RankOnto ==
    ASSUME NEW m \in SUBSET Nat, IsFiniteSet(m), NEW k \in Nat, k < Cardinality(m)
    PROVE  \E x \in m : Rank(m, x) = k
<1> DEFINE n == Cardinality(m)
           T == 0..(n - 1)
           F == [x \in m |-> Rank(m, x)]
<1>1. n \in Nat /\ n > 0
  BY FS_CardinalityType
<1>2. \A x \in m : Rank(m, x) \in T
  <2> SUFFICES ASSUME NEW x \in m PROVE Rank(m, x) \in T
    OBVIOUS
  <2>1. Rank(m, x) \in Nat /\ Rank(m, x) < n
    BY RankOrder
  <2> QED BY <1>1, <2>1
<1>3. F \in [m -> T]
  BY <1>2
<1>4. \A x, y \in m : F[x] = F[y] => x = y
  <2> SUFFICES ASSUME NEW x \in m, NEW y \in m, x # y PROVE F[x] # F[y]
    OBVIOUS
  <2>1. x < y \/ y < x
    OBVIOUS
  <2>2. CASE x < y
    <3>1. Rank(m, x) < Rank(m, y) /\ Rank(m, x) \in Nat /\ Rank(m, y) \in Nat
      BY <2>2, RankOrder
    <3> QED BY <3>1
  <2>3. CASE y < x
    <3>1. Rank(m, y) < Rank(m, x) /\ Rank(m, x) \in Nat /\ Rank(m, y) \in Nat
      BY <2>3, RankOrder
    <3> QED BY <3>1
  <2> QED BY <2>1, <2>2, <2>3
<1>5. F \in Injection(m, T)
  BY <1>3, <1>4 DEF Injection, IsInjective
<1>6. IsFiniteSet(T) /\ Cardinality(T) = n
  <2>1. 0 \in Int /\ n - 1 \in Int /\ ~(0 > n - 1) /\ (n - 1) - 0 + 1 = n
    BY <1>1
  <2>2. IsFiniteSet(0..(n - 1)) /\ Cardinality(0..(n - 1)) = IF 0 > n - 1 THEN 0 ELSE (n - 1) - 0 + 1
    BY <2>1, FS_Interval
  <2> QED BY <2>1, <2>2
<1>7. F \in Surjection(m, T)
  BY <1>5, <1>6, FS_Injection
<1>8. k \in T
  BY <1>1
<1>9. \E x \in m : F[x] = k
  BY <1>7, <1>8 DEF Surjection
<1> QED BY <1>9

\* The elements in ascending order.
LEMMA AscendingExists ==
    ASSUME NEW m \in SUBSET Nat, IsFiniteSet(m)
    PROVE  \E s \in SetToSeqs(m) : \A i, j \in DOMAIN s : i < j => s[i] < s[j]
<1> DEFINE n == Cardinality(m)
           s == [i \in 1..n |-> CHOOSE x \in m : Rank(m, x) = i - 1]
<1>1. n \in Nat
  BY FS_CardinalityType
<1>2. ASSUME NEW i \in 1..n PROVE s[i] \in m /\ Rank(m, s[i]) = i - 1
  <2>1. i - 1 \in Nat /\ i - 1 < n
    BY <1>1
  <2>2. \E x \in m : Rank(m, x) = i - 1
    BY <2>1, RankOnto
  <2> QED BY <2>2
<1>3. s \in [1..n -> m]
  BY <1>2
<1>4. DOMAIN s = 1..n
  OBVIOUS
<1> HIDE DEF s
<1>5. ASSUME NEW i \in 1..n, NEW j \in 1..n, i < j PROVE s[i] < s[j]
  <2>1. /\ s[i] \in m /\ s[j] \in m /\ s[i] \in Nat /\ s[j] \in Nat
        /\ Rank(m, s[i]) = i - 1 /\ Rank(m, s[j]) = j - 1
    BY <1>2
  <2>2. s[j] < s[i] => Rank(m, s[j]) < Rank(m, s[i])
    BY <2>1, RankOrder
  <2>3. s[i] # s[j]
    BY <2>1, <1>5
  <2> QED BY <1>5, <2>1, <2>2, <2>3
<1>6. \A i, j \in 1..n : i # j => s[i] # s[j]
  <2> SUFFICES ASSUME NEW i \in 1..n, NEW j \in 1..n, i # j PROVE s[i] # s[j]
    OBVIOUS
  <2>1. s[i] \in Nat /\ s[j] \in Nat
    BY <1>2
  <2>2. i < j \/ j < i
    BY <1>1
  <2> QED BY <1>5, <2>1, <2>2
<1>7. s \in SetToSeqs(m)
  BY <1>3, <1>6 DEF SetToSeqs
<1> QED BY <1>4, <1>5, <1>7

-----------------------------------------------------------------------------
(* Numbers modulo SeqCount *)

\* Division with remainder.
LEMMA Remainders ==
    ASSUME NEW c \in Nat \ {0}, NEW a \in Nat
    PROVE  /\ a % c \in 0..(c - 1) /\ a \div c \in Nat
           /\ a = c * (a \div c) + (a % c)
  OBVIOUS

\* A multiple of c between -2c and c.
LEMMA SmallMultiple ==
    ASSUME NEW c \in Nat \ {0}, NEW k \in Int, NEW v \in Int, v = c * k, 0 < v + c + c, v < c
    PROVE  v = 0 \/ v = 0 - c
  OBVIOUS

\* Counting on by less than c, the number wraps around at most once.
LEMMA CountedOn ==
    ASSUME NEW c \in Nat \ {0}, NEW a \in Nat, NEW d \in Nat, d < c
    PROVE  (a + d) % c = (a % c) + d \/ (a + d) % c = (a % c) + d - c
<1>1. PICK r \in 0..(c - 1), p \in Nat : r = a % c /\ a = c * p + r
  BY Remainders
<1>2. PICK s \in 0..(c - 1), q \in Nat : s = (a + d) % c /\ a + d = c * q + s
  <2>1. a + d \in Nat
    OBVIOUS
  <2> QED BY <2>1, Remainders
<1>3. PICK v \in Int : v = s - r - d
  OBVIOUS
<1>4. v = c * (p - q) /\ p - q \in Int
  <2>1. PICK x \in Nat, y \in Nat : x = c * p /\ y = c * q
    OBVIOUS
  <2>2. c * (p - q) = x - y
    BY <2>1
  <2>3. v = x - y
    <3>1. a = x + r /\ a + d = y + s
      BY <1>1, <1>2, <2>1
    <3> QED BY <1>3, <3>1
  <2> QED BY <2>2, <2>3
<1>5. 0 < v + c + c /\ v < c
  BY <1>3
<1>6. v = 0 \/ v = 0 - c
  BY <1>4, <1>5, SmallMultiple
<1>7. s = r + d \/ s = r + d - c
  BY <1>3, <1>6
<1> QED BY <1>1, <1>2, <1>7

-----------------------------------------------------------------------------
(* The messages of a well-formed stream *)

\* The message of frame f.
Msg(f) == MessageOf(stream, f)

\* The frames of a message have the same message.
LEMMA MsgBasics ==
    ASSUME stream \in Streams, NEW f \in Frames
    PROVE  /\ Msg(f) \in SUBSET Frames /\ Msg(f) \in SUBSET Nat /\ IsFiniteSet(Msg(f)) /\ f \in Msg(f)
           /\ \A g \in Msg(f) : flow(g) = flow(f) /\ Msg(g) = Msg(f)
           /\ \A g \in Frames : (g \in Msg(f) <=> flow(g) = flow(f) /\ stream[g].msg = stream[f].msg)
<1>1. Frames = DOMAIN stream /\ Frames \subseteq Nat /\ IsFiniteSet(Frames)
  BY FramesTyped DEF Frames
<1>2. \A g \in Frames : (g \in Msg(f) <=> flow(g) = flow(f) /\ stream[g].msg = stream[f].msg)
  BY <1>1 DEF Msg, MessageOf, flow
<1>3. Msg(f) \in SUBSET Frames
  BY <1>1 DEF Msg, MessageOf
<1>4. IsFiniteSet(Msg(f))
  BY <1>1, <1>3, FS_Subset
<1>5. \A g \in Msg(f) : flow(g) = flow(f) /\ Msg(g) = Msg(f)
  BY <1>1 DEF Msg, MessageOf, flow
<1> QED BY <1>1, <1>2, <1>3, <1>4, <1>5

\* FIR is the first frame of a message and FIN the last.
LEMMA MsgEnds ==
    ASSUME stream \in Streams, WellFormed(stream), NEW f \in Frames, flow(f) \in Flows, NEW g \in Msg(f)
    PROVE  /\ fir(g) <=> \A h \in Msg(f) : g <= h
           /\ fin(g) <=> \A h \in Msg(f) : h <= g
<1>1. g \in DOMAIN stream /\ flow(g) \in Flows /\ Msg(g) = Msg(f)
  BY MsgBasics DEF Frames
<1>2. /\ stream[g].fir <=> \A h \in MessageOf(stream, g) : g <= h
      /\ stream[g].fin <=> \A h \in MessageOf(stream, g) : h <= g
  BY <1>1 DEF WellFormed, flow
<1> QED BY <1>1, <1>2 DEF Msg, fir, fin

\* What is between the frames of a message on its flow belongs to it.
LEMMA MsgTogether ==
    ASSUME stream \in Streams, WellFormed(stream), NEW f \in Frames, flow(f) \in Flows,
           NEW g \in Frames, flow(g) = flow(f), NEW a \in Msg(f), NEW b \in Msg(f), a < g, g < b
    PROVE  g \in Msg(f)
<1>1. a \in DOMAIN stream /\ flow(a) = flow(f) /\ Msg(a) = Msg(f) /\ g \in DOMAIN stream
  BY MsgBasics DEF Frames
<1>2. \A x \in DOMAIN stream, y \in MessageOf(stream, a) :
        a < x /\ x < y /\ stream[x].flow = stream[a].flow => x \in MessageOf(stream, a)
  BY <1>1 DEF WellFormed, flow
<1> QED BY <1>1, <1>2 DEF Msg, flow

\* The numbers of a message.
LEMMA MsgNumbers ==
    ASSUME stream \in Streams, WellFormed(stream), NEW f \in Frames, flow(f) \in Flows
    PROVE  /\ 2 * Cardinality(Msg(f)) <= SeqCount
           /\ \E n \in Nat : \A g \in Msg(f) : seq(g) = (n + Rank(Msg(f), g)) % SeqCount
<1>1. f \in DOMAIN stream /\ SeqCount \in Nat
  BY SeqCountAssumption DEF Frames
<1>2. /\ 2 * Cardinality(MessageOf(stream, f)) <= SeqCount
      /\ \E n \in 0..(SeqCount - 1) : \A g \in MessageOf(stream, f) :
           stream[g].seq = (n + Cardinality({h \in MessageOf(stream, f) : h < g})) % SeqCount
  BY <1>1 DEF WellFormed, flow
<1>3. PICK n \in 0..(SeqCount - 1) : \A g \in MessageOf(stream, f) :
           stream[g].seq = (n + Cardinality({h \in MessageOf(stream, f) : h < g})) % SeqCount
  BY <1>2
<1>4. n \in Nat /\ \A g \in Msg(f) : seq(g) = (n + Rank(Msg(f), g)) % SeqCount
  BY <1>1, <1>3 DEF Msg, Rank, seq
<1> QED BY <1>2, <1>4 DEF Msg

\* The numbers of two frames of a message are apart by less than half of those there are.
LEMMA SeqApart ==
    ASSUME stream \in Streams, WellFormed(stream), NEW f \in Frames, flow(f) \in Flows,
           NEW g \in Msg(f), NEW h \in Msg(f), g < h
    PROVE  \E d \in Nat : /\ 0 < d /\ d + d < SeqCount
                          /\ seq(h) = seq(g) + d \/ seq(h) = seq(g) + d - SeqCount
<1>1. /\ Rank(Msg(f), g) \in Nat /\ Rank(Msg(f), h) \in Nat /\ Cardinality(Msg(f)) \in Nat
      /\ Rank(Msg(f), g) < Rank(Msg(f), h) /\ Rank(Msg(f), h) < Cardinality(Msg(f))
  BY MsgBasics, RankOrder
<1>2. PICK i \in Nat, d \in Nat : i = Rank(Msg(f), g) /\ i + d = Rank(Msg(f), h) /\ 0 < d
  <2>1. Rank(Msg(f), h) - Rank(Msg(f), g) \in Nat
    BY <1>1
  <2> QED BY <1>1, <2>1
<1>3. 2 * Cardinality(Msg(f)) <= SeqCount
  BY MsgNumbers
<1>4. PICK n \in Nat : \A x \in Msg(f) : seq(x) = (n + Rank(Msg(f), x)) % SeqCount
  BY MsgNumbers
<1>5. d + d < SeqCount /\ d < SeqCount /\ SeqCount \in Nat \ {0}
  BY <1>1, <1>2, <1>3, SeqCountAssumption
<1>6. PICK a \in Nat : a = n + i
  OBVIOUS
<1>7. seq(g) = a % SeqCount /\ seq(h) = (a + d) % SeqCount
  <2>1. n + (i + d) = a + d
    BY <1>6
  <2> QED BY <1>2, <1>4, <1>6, <2>1
<1>8. (a + d) % SeqCount = (a % SeqCount) + d \/ (a + d) % SeqCount = (a % SeqCount) + d - SeqCount
  BY <1>5, CountedOn
<1> QED BY <1>2, <1>5, <1>7, <1>8

\* On the frames of one message FragCmp is the order of the stream.
LEMMA CmpIsOrder ==
    ASSUME stream \in Streams, WellFormed(stream), NEW f \in Frames, flow(f) \in Flows,
           NEW g \in Msg(f), NEW h \in Msg(f), g < h
    PROVE  FragCmp(h, g) /\ ~FragCmp(g, h)
<1>1. g \in Frames /\ h \in Frames /\ g \in Nat /\ h \in Nat
  BY MsgBasics
<1>2. /\ fir(g) \in BOOLEAN /\ fir(h) \in BOOLEAN /\ fin(g) \in BOOLEAN /\ fin(h) \in BOOLEAN
      /\ seq(g) \in 0..(SeqCount - 1) /\ seq(h) \in 0..(SeqCount - 1)
  BY <1>1, FramesTyped DEF Numbers
<1>3. ~fir(h) /\ ~fin(g)
  <2>1. ~(h <= g)
    BY <1>1
  <2> QED BY <2>1, MsgEnds
<1>4. CASE fir(g)
  BY <1>3, <1>4 DEF FragCmp
<1>5. CASE ~fir(g) /\ fin(h)
  BY <1>3, <1>5 DEF FragCmp
<1>6. CASE ~fir(g) /\ ~fin(h)
  <2>1. /\ FragCmp(h, g) <=> IF seq(h) > seq(g) THEN seq(h) - seq(g) < seq(g) + SeqCount - seq(h)
                             ELSE ~(seq(g) - seq(h) < seq(h) + SeqCount - seq(g))
        /\ FragCmp(g, h) <=> IF seq(g) > seq(h) THEN seq(g) - seq(h) < seq(h) + SeqCount - seq(g)
                             ELSE ~(seq(h) - seq(g) < seq(g) + SeqCount - seq(h))
    BY <1>3, <1>6 DEF FragCmp
  <2>2. PICK d \in Nat : /\ 0 < d /\ d + d < SeqCount
                         /\ seq(h) = seq(g) + d \/ seq(h) = seq(g) + d - SeqCount
    BY SeqApart
  <2>3. PICK a \in Nat, b \in Nat, c \in Nat : a = seq(g) /\ b = seq(h) /\ c = SeqCount
    BY <1>2, SeqCountAssumption
  <2>4. CASE b = a + d
    BY <2>1, <2>2, <2>3, <2>4
  <2>5. CASE b = a + d - c
    BY <2>1, <2>2, <2>3, <2>5
  <2> QED BY <2>2, <2>3, <2>4, <2>5
<1> QED BY <1>2, <1>4, <1>5, <1>6

\* A complete message is popped in its order, though the numbers wrap around.
LEMMA PoppedInOrder ==
    ASSUME stream \in Streams, WellFormed(stream), NEW f \in Frames, flow(f) \in Flows,
           NEW s \in PopOrders(Msg(f))
    PROVE  \A i, j \in DOMAIN s : i < j => s[i] < s[j]
<1> DEFINE m == Msg(f)
           sorted == {t \in SetToSeqs(m) : \A i, j \in DOMAIN t : i < j => ~FragCmp(t[i], t[j])}
<1>1. m \in SUBSET Nat /\ IsFiniteSet(m)
  BY MsgBasics
<1>2. \A t \in SetToSeqs(m) : \A i \in DOMAIN t : t[i] \in m
  BY DEF SetToSeqs
<1>3. PICK u \in SetToSeqs(m) : \A i, j \in DOMAIN u : i < j => u[i] < u[j]
  BY <1>1, AscendingExists
<1>4. u \in sorted
  <2> SUFFICES ASSUME NEW i \in DOMAIN u, NEW j \in DOMAIN u, i < j PROVE ~FragCmp(u[i], u[j])
    OBVIOUS
  <2>1. u[i] \in Msg(f) /\ u[j] \in Msg(f) /\ u[i] < u[j]
    BY <1>2, <1>3
  <2> QED BY <2>1, CmpIsOrder
<1>5. s \in sorted
  BY <1>4 DEF PopOrders
<1> SUFFICES ASSUME NEW i \in DOMAIN s, NEW j \in DOMAIN s, i < j PROVE s[i] < s[j]
  OBVIOUS
<1>6. s[i] \in Msg(f) /\ s[j] \in Msg(f) /\ s[i] \in Nat /\ s[j] \in Nat
  BY <1>1, <1>2, <1>5
<1>7. ~FragCmp(s[i], s[j])
  BY <1>5
<1>8. ~(s[j] < s[i])
  BY <1>6, <1>7, CmpIsOrder
<1>9. s[i] # s[j]
  <2>1. DOMAIN s = 1..Cardinality(m) /\ \A x, y \in 1..Cardinality(m) : x # y => s[x] # s[y]
    BY <1>5 DEF SetToSeqs
  <2>2. Cardinality(m) \in Nat
    BY <1>1, FS_CardinalityType
  <2>3. i # j
    BY <2>1, <2>2
  <2> QED BY <2>1, <2>3
<1> QED BY <1>6, <1>8, <1>9

\* A remainder is its own remainder.
LEMMA SmallRemainder ==
    ASSUME NEW c \in Nat \ {0}, NEW r \in 0..(c - 1)
    PROVE  r % c = r
  OBVIOUS

\* Counting on from a number or from its remainder is the same.
LEMMA CountedFrom ==
    ASSUME NEW c \in Nat \ {0}, NEW a \in Nat, NEW d \in Nat, d < c
    PROVE  ((a % c) + d) % c = (a + d) % c
<1>1. PICK r \in 0..(c - 1) : r = a % c
  BY Remainders
<1>2. r \in Nat /\ r % c = r
  BY SmallRemainder
<1>3. (r + d) % c = (r % c) + d \/ (r + d) % c = (r % c) + d - c
  BY <1>2, CountedOn
<1>4. (a + d) % c = (a % c) + d \/ (a + d) % c = (a % c) + d - c
  BY CountedOn
<1>5. PICK x \in 0..(c - 1), y \in 0..(c - 1) : x = (r + d) % c /\ y = (a + d) % c
  <2>1. r + d \in Nat /\ a + d \in Nat
    BY <1>2
  <2> QED BY <2>1, Remainders
<1>6. x = y
  BY <1>1, <1>2, <1>3, <1>4, <1>5
<1> QED BY <1>1, <1>5, <1>6

\* Less than c numbers further there is another number.
LEMMA CountedDiffer ==
    ASSUME NEW c \in Nat \ {0}, NEW a \in Nat, NEW d \in Nat, NEW e \in Nat, d < c, e < c,
           (a + d) % c = (a + e) % c
    PROVE  d = e
<1>1. PICK r \in 0..(c - 1) : r = a % c
  BY Remainders
<1>2. (a + d) % c = r + d \/ (a + d) % c = r + d - c
  BY <1>1, CountedOn
<1>3. (a + e) % c = r + e \/ (a + e) % c = r + e - c
  BY <1>1, CountedOn
<1> QED BY <1>2, <1>3

\* A frame of the message in the making that is not yet queued is no duplicate.
LEMMA NewInMessage ==
    ASSUME stream \in Streams, WellFormed(stream), NEW f \in Frames, flow(f) \in Flows,
           NEW fl \in FlowStates, Books(fl), fl.frag_q \subseteq Msg(f), f \notin fl.frag_q
    PROVE  ~Duplicate(fl, f)
<1>1. f \in Msg(f) /\ f \in Nat /\ Msg(f) \subseteq Nat
  BY MsgBasics
<1>2. ~(fl.hasFir /\ fir(f))
  <2> SUFFICES ASSUME fl.hasFir, fir(f) PROVE FALSE
    OBVIOUS
  <2>1. PICK g \in fl.frag_q : fir(g)
    BY DEF Books
  <2>2. g \in Msg(f) /\ f <= g /\ g <= f
    BY <1>1, <2>1, MsgEnds
  <2> QED BY <1>1, <2>2
<1>3. ~(fl.hasFin /\ fin(f))
  <2> SUFFICES ASSUME fl.hasFin, fin(f) PROVE FALSE
    OBVIOUS
  <2>1. PICK g \in fl.frag_q : fin(g)
    BY DEF Books
  <2>2. g \in Msg(f) /\ f <= g /\ g <= f
    BY <1>1, <2>1, MsgEnds
  <2> QED BY <1>1, <2>2
<1>4. seq(f) \notin fl.hasSeq
  <2> SUFFICES ASSUME NEW g \in fl.frag_q, seq(g) = seq(f) PROVE FALSE
    BY DEF Books
  <2>1. g \in Msg(f) /\ g \in Nat /\ g \in Frames
    BY <1>1, MsgBasics
  <2>2. PICK a \in Nat, c \in Nat : a = seq(f) /\ c = SeqCount
    BY FramesTyped, SeqCountAssumption DEF Numbers
  <2>3. CASE g < f
    <3>1. PICK d \in Nat : /\ 0 < d /\ d + d < SeqCount
                           /\ seq(f) = seq(g) + d \/ seq(f) = seq(g) + d - SeqCount
      BY <1>1, <2>1, <2>3, SeqApart
    <3> QED BY <2>2, <3>1
  <2>4. CASE f < g
    <3>1. PICK d \in Nat : /\ 0 < d /\ d + d < SeqCount
                           /\ seq(g) = seq(f) + d \/ seq(g) = seq(f) + d - SeqCount
      BY <1>1, <2>1, <2>4, SeqApart
    <3> QED BY <2>2, <3>1
  <2>5. g # f
    OBVIOUS
  <2> QED BY <1>1, <2>1, <2>3, <2>4, <2>5
<1> QED BY <1>2, <1>3, <1>4 DEF Duplicate

\* The first and the last frame of a message.
LEMMA MsgRanks ==
    ASSUME stream \in Streams, WellFormed(stream), NEW f \in Frames, flow(f) \in Flows
    PROVE  /\ Cardinality(Msg(f)) \in Nat \ {0}
           /\ \A g \in Msg(f) : /\ fir(g) <=> Rank(Msg(f), g) = 0
                                /\ fin(g) <=> Rank(Msg(f), g) = Cardinality(Msg(f)) - 1
<1> DEFINE m == Msg(f)
           n == Cardinality(m)
<1>1. m \in SUBSET Nat /\ IsFiniteSet(m) /\ f \in m
  BY MsgBasics
<1> HIDE DEF m
<1>2. n \in Nat /\ n # 0
  BY <1>1, FS_CardinalityType, FS_EmptySet
<1>3. \A g \in m : /\ fir(g) <=> \A h \in m : g <= h
                   /\ fin(g) <=> \A h \in m : h <= g
  BY MsgEnds DEF m
<1>4. PICK x \in m : Rank(m, x) = 0
  <2>1. 0 \in Nat /\ 0 < n
    BY <1>2
  <2> QED BY <1>1, <2>1, RankOnto
<1>5. PICK y \in m : Rank(m, y) = n - 1
  <2>1. n - 1 \in Nat /\ n - 1 < n
    BY <1>2
  <2> QED BY <1>1, <2>1, RankOnto
<1>6. \A a, b \in m : /\ a \in Nat /\ b \in Nat /\ Rank(m, a) \in Nat /\ Rank(m, b) \in Nat
                      /\ Rank(m, a) < n /\ (a < b => Rank(m, a) < Rank(m, b))
  BY <1>1, RankOrder
<1>7. ASSUME NEW g \in m
      PROVE  /\ (\A h \in m : g <= h) <=> Rank(m, g) = 0
             /\ (\A h \in m : h <= g) <=> Rank(m, g) = n - 1
  <2>1. ASSUME \A h \in m : g <= h PROVE Rank(m, g) = 0
    <3>1. g <= x
      BY <2>1
    <3> QED BY <1>4, <1>6, <3>1
  <2>2. ASSUME Rank(m, g) = 0, NEW h \in m PROVE g <= h
    BY <1>6, <2>2
  <2>3. ASSUME \A h \in m : h <= g PROVE Rank(m, g) = n - 1
    <3>1. y <= g
      BY <2>3
    <3>2. y = g \/ y < g
      BY <1>6, <3>1
    <3>3. ~(y < g)
      <4>1. Rank(m, g) < n /\ Rank(m, g) \in Nat
        BY <1>6
      <4> QED BY <1>2, <1>5, <1>6, <4>1
    <3> QED BY <1>5, <3>2, <3>3
  <2>4. ASSUME Rank(m, g) = n - 1, NEW h \in m PROVE h <= g
    <3>1. ~(g < h)
      <4>1. Rank(m, h) < n /\ Rank(m, h) \in Nat
        BY <1>6
      <4> QED BY <1>2, <1>6, <2>4, <4>1
    <3> QED BY <1>6, <3>1
  <2> QED BY <2>1, <2>2, <2>3, <2>4
<1>8. \A g \in m : (fir(g) <=> Rank(m, g) = 0) /\ (fin(g) <=> Rank(m, g) = n - 1)
  BY <1>3, <1>7
<1> QED BY <1>2, <1>8 DEF m

\* The count of the fragments tells that the message is complete, and only then.
LEMMA CompleteIs ==
    ASSUME stream \in Streams, WellFormed(stream), NEW f \in Frames, flow(f) \in Flows,
           NEW fl \in FlowStates, Books(fl), fl.frag_q \subseteq Msg(f), fl.frag_q # {}
    PROVE  Complete(fl) <=> fl.frag_q = Msg(f)
<1> DEFINE m == Msg(f)
           q == fl.frag_q
<1>1. m \in SUBSET Nat /\ IsFiniteSet(m) /\ q \in SUBSET m
  BY MsgBasics
<1>2. PICK n \in Nat, k \in Nat, c \in Nat \ {0} :
        /\ n = Cardinality(m) /\ k = Cardinality(q) /\ c = SeqCount
        /\ 0 < k /\ k <= n /\ n + n <= c /\ (k = n => q = m)
  <2>1. IsFiniteSet(q) /\ Cardinality(q) <= Cardinality(m) /\ (Cardinality(m) = Cardinality(q) => m = q)
    BY <1>1, FS_Subset
  <2>2. Cardinality(q) \in Nat /\ Cardinality(q) # 0 /\ Cardinality(m) \in Nat
    BY <1>1, <2>1, FS_CardinalityType, FS_EmptySet
  <2>3. 2 * Cardinality(m) <= SeqCount /\ SeqCount \in Nat \ {0}
    BY MsgNumbers, SeqCountAssumption
  <2> QED BY <2>1, <2>2, <2>3
<1>3. PICK b \in Nat : \A g \in m : seq(g) = (b + Rank(m, g)) % c
  BY <1>2, MsgNumbers
<1>4. \A g \in m : /\ fir(g) <=> Rank(m, g) = 0
                   /\ fin(g) <=> Rank(m, g) = n - 1
  BY <1>2, MsgRanks
<1>5. PICK d \in Nat, e \in Nat : d = k - 1 /\ e = n - 1 /\ d < c /\ e < c
  BY <1>2
<1>6. ASSUME NEW g \in q, fir(g), NEW h \in q, fin(h)
      PROVE  (fl.firSeq + k - 1) % c = fl.finSeq <=> k = n
  <2>1. fl.firSeq = seq(g) /\ fl.finSeq = seq(h)
    BY <1>6 DEF Books
  <2>2. Rank(m, g) = 0 /\ Rank(m, h) = e
    BY <1>1, <1>4, <1>5, <1>6
  <2>3. seq(g) = b % c /\ seq(h) = (b + e) % c
    <3>1. b + 0 = b
      OBVIOUS
    <3> QED BY <1>1, <1>3, <2>2, <3>1
  <2>4. PICK r \in Nat : r = b % c
    BY Remainders
  <2>5. r + k - 1 = r + d
    BY <1>5
  <2>6. (r + d) % c = (b + d) % c
    BY <1>5, <2>4, CountedFrom
  <2>7. ((b + d) % c = (b + e) % c) <=> d = e
    BY <1>5, CountedDiffer
  <2>8. d = e <=> k = n
    BY <1>5
  <2> QED BY <2>1, <2>3, <2>4, <2>5, <2>6, <2>7, <2>8
<1>7. ASSUME Complete(fl) PROVE q = m
  <2>1. PICK g \in q, h \in q : fir(g) /\ fin(h)
    BY <1>7 DEF Complete, Books
  <2>2. (fl.firSeq + k - 1) % c = fl.finSeq
    BY <1>2, <1>7 DEF Complete
  <2> QED BY <1>2, <1>6, <2>1, <2>2
<1>8. ASSUME q = m PROVE Complete(fl)
  <2>1. PICK g \in m : Rank(m, g) = 0
    <3>1. 0 \in Nat /\ 0 < Cardinality(m)
      BY <1>2
    <3> QED BY <1>1, <3>1, RankOnto
  <2>2. PICK h \in m : Rank(m, h) = n - 1
    <3>1. e < Cardinality(m)
      BY <1>2, <1>5
    <3> QED BY <1>1, <1>5, <3>1, RankOnto
  <2>3. g \in q /\ fir(g) /\ h \in q /\ fin(h)
    BY <1>4, <1>8, <2>1, <2>2
  <2>4. fl.hasFir /\ fl.hasFin
    BY <2>3 DEF Books
  <2>5. (fl.firSeq + k - 1) % c = fl.finSeq
    BY <1>2, <1>6, <1>8, <2>3
  <2> QED BY <1>2, <2>4, <2>5 DEF Complete
<1> QED BY <1>7, <1>8
-----------------------------------------------------------------------------
(* How far a flow has come *)

\* The handler's tolerance of frame f of stream s when the frames A came before it.
Tolerable(s, f, A) ==
    \A g \in DOMAIN s :
        g < f /\ s[g].flow = s[f].flow /\ g \notin A =>
            \/ s[g].msg = s[f].msg
            \/ /\ s[f].fir /\ s[f].fin
               /\ \E h \in A : s[h].flow = s[f].flow /\ s[h].msg = s[g].msg
               /\ \A h \in g..f : s[h].flow = s[f].flow => s[h].msg \in {s[g].msg, s[f].msg}

\* The frames D of flow w are written, q queued and p saved: what is written are the first
\* messages of the flow, q belongs to the next one and is not all of it, and p is the whole
\* message right after that.
Progress(s, w, D, q, p) ==
    /\ \A f \in D : \A g \in DOMAIN s :
         s[g].flow = w /\ (g < f \/ g \in MessageOf(s, f)) => g \in D
    /\ \A k \in q :
         /\ MessageOf(s, k) \cap D = {}
         /\ q \subseteq MessageOf(s, k) /\ q # MessageOf(s, k)
         /\ \A g \in DOMAIN s : s[g].flow = w /\ g < k => g \in D \cup MessageOf(s, k)
         /\ p # NoFrame =>
              /\ s[p].fir /\ s[p].fin
              /\ \A g \in MessageOf(s, k) : g < p
              /\ \A g \in DOMAIN s : s[g].flow = w /\ g < p => g \in D \cup MessageOf(s, k)

\* Flow w, which is in state fl and of which the frames D are written, takes frame f.
Takes(w, D, fl, f) ==
    /\ fl \in FlowStates /\ Books(fl)
    /\ \A g \in D \cup Held(fl) \cup {f} : g \in Frames /\ flow(g) = w
    /\ f \notin D /\ f \notin Held(fl) /\ D \cap Held(fl) = {} /\ fl.frag_q \cap Saved(fl) = {}
    /\ Progress(stream, w, D, fl.frag_q, fl.pNextFrame)
    /\ Tolerable(stream, f, D \cup Held(fl))

\* What that says in terms of messages.
LEMMA TakesSays ==
    ASSUME stream \in Streams, WellFormed(stream), NEW w \in Flows, NEW D, NEW fl, NEW f,
           Takes(w, D, fl, f), NEW q, q = fl.frag_q, NEW p, p = fl.pNextFrame
    PROVE  /\ f \in Frames /\ flow(f) = w /\ f \in Nat
           /\ \A g \in D \cup q : g \in Frames /\ flow(g) = w /\ g \in Nat /\ g # f
           /\ p # NoFrame => /\ p \in Frames /\ flow(p) = w /\ p \in Nat /\ p # f
                             /\ p \notin D /\ p \notin q /\ q # {}
           /\ f \notin D /\ D \cap q = {}
           /\ \A g \in D : \A h \in Frames : flow(h) = w /\ (h < g \/ h \in Msg(g)) => h \in D
           /\ \A k \in q : /\ Msg(k) \cap D = {} /\ q \subseteq Msg(k) /\ q # Msg(k)
                           /\ \A g \in Frames : flow(g) = w /\ g < k => g \in D \cup Msg(k)
           /\ \A k \in q : p # NoFrame =>
                           /\ fir(p) /\ fin(p) /\ \A g \in Msg(k) : g < p
                           /\ \A g \in Frames : flow(g) = w /\ g < p => g \in D \cup Msg(k)
           /\ \A g \in Frames : g < f /\ flow(g) = w /\ g \notin D /\ g \notin q /\ g # p =>
                \/ g \in Msg(f)
                \/ /\ ~isFragment(f)
                   /\ \E h \in Frames : flow(h) = w /\ h \in Msg(g) /\ (h \in D \/ h \in q \/ h = p)
                   /\ \A h \in Frames : flow(h) = w /\ g < h /\ h < f => h \in Msg(g) \cup Msg(f)
<1>1. /\ fl \in FlowStates /\ Books(fl)
      /\ \A g \in D \cup Held(fl) \cup {f} : g \in Frames /\ flow(g) = w
      /\ f \notin D /\ f \notin Held(fl) /\ D \cap Held(fl) = {} /\ fl.frag_q \cap Saved(fl) = {}
  BY DEF Takes
<1>2. Progress(stream, w, D, q, p) /\ Tolerable(stream, f, D \cup Held(fl))
  BY DEF Takes
<1>3. Frames \subseteq Nat /\ Frames = DOMAIN stream /\ NoFrame \notin Frames
  BY FramesTyped DEF Frames
<1>4. \A g : /\ g \in Held(fl) <=> (g \in q \/ (g = p /\ p # NoFrame))
             /\ g \in Saved(fl) <=> (g = p /\ p # NoFrame)
  BY DEF Held, Saved
<1>5. /\ f \in Frames /\ flow(f) = w /\ f \in Nat
      /\ \A g \in D \cup q : g \in Frames /\ flow(g) = w /\ g \in Nat /\ g # f
      /\ f \notin D /\ D \cap q = {}
  BY <1>1, <1>3, <1>4
<1>6. p # NoFrame => /\ p \in Frames /\ flow(p) = w /\ p \in Nat /\ p # f
                     /\ p \notin D /\ p \notin q /\ q # {}
  BY <1>1, <1>3, <1>4 DEF Books
<1>7. \A g \in D : \A h \in Frames : flow(h) = w /\ (h < g \/ h \in Msg(g)) => h \in D
  BY <1>2, <1>3 DEF Progress, Msg, flow
<1>8. \A k \in q : /\ Msg(k) \cap D = {} /\ q \subseteq Msg(k) /\ q # Msg(k)
                   /\ \A g \in Frames : flow(g) = w /\ g < k => g \in D \cup Msg(k)
  BY <1>2, <1>3 DEF Progress, Msg, flow
<1>9. \A k \in q : p # NoFrame =>
                   /\ fir(p) /\ fin(p) /\ \A g \in Msg(k) : g < p
                   /\ \A g \in Frames : flow(g) = w /\ g < p => g \in D \cup Msg(k)
  BY <1>2, <1>3 DEF Progress, Msg, flow, fir, fin
<1>10. ASSUME NEW g \in Frames, g < f, flow(g) = w, g \notin D, g \notin q, g # p, g \notin Msg(f)
       PROVE  /\ ~isFragment(f)
              /\ \E h \in Frames : flow(h) = w /\ h \in Msg(g) /\ (h \in D \/ h \in q \/ h = p)
              /\ \A h \in Frames : flow(h) = w /\ g < h /\ h < f => h \in Msg(g) \cup Msg(f)
  <2>1. g \in DOMAIN stream /\ stream[g].flow = stream[f].flow /\ g \notin D \cup Held(fl)
    BY <1>3, <1>4, <1>5, <1>10 DEF flow
  <2>2. stream[g].msg # stream[f].msg
    BY <1>5, <1>10, MsgBasics
  <2>3. /\ stream[f].fir /\ stream[f].fin
        /\ \E h \in D \cup Held(fl) : stream[h].flow = stream[f].flow /\ stream[h].msg = stream[g].msg
        /\ \A h \in g..f : stream[h].flow = stream[f].flow => stream[h].msg \in {stream[g].msg, stream[f].msg}
    BY <1>2, <1>10, <2>1, <2>2 DEF Tolerable
  <2>4. ~isFragment(f)
    BY <2>3 DEF isFragment, fir, fin
  <2>5. \E h \in Frames : flow(h) = w /\ h \in Msg(g) /\ (h \in D \/ h \in q \/ h = p)
    <3>1. PICK h \in D \cup Held(fl) : stream[h].flow = stream[f].flow /\ stream[h].msg = stream[g].msg
      BY <2>3
    <3>2. h \in Frames /\ flow(h) = w /\ (h \in D \/ h \in q \/ h = p)
      BY <1>1, <1>4, <3>1
    <3>3. h \in Msg(g)
      BY <1>10, <3>1, <3>2, MsgBasics
    <3> QED BY <3>2, <3>3
  <2>6. ASSUME NEW h \in Frames, flow(h) = w, g < h, h < f PROVE h \in Msg(g) \cup Msg(f)
    <3>1. h \in g..f /\ stream[h].flow = stream[f].flow
      <4>1. h \in Nat /\ g \in Nat
        BY <1>3, <1>10
      <4> QED BY <1>5, <2>6, <4>1 DEF flow
    <3>2. stream[h].msg = stream[g].msg \/ stream[h].msg = stream[f].msg
      BY <2>3, <3>1
    <3> QED BY <1>5, <1>10, <2>6, <3>2, MsgBasics
  <2> QED BY <2>4, <2>5, <2>6
<1>11. \A g \in Frames : g < f /\ flow(g) = w /\ g \notin D /\ g \notin q /\ g # p =>
                \/ g \in Msg(f)
                \/ /\ ~isFragment(f)
                   /\ \E h \in Frames : flow(h) = w /\ h \in Msg(g) /\ (h \in D \/ h \in q \/ h = p)
                   /\ \A h \in Frames : flow(h) = w /\ g < h /\ h < f => h \in Msg(g) \cup Msg(f)
  BY <1>10
<1> QED BY <1>5, <1>6, <1>7, <1>8, <1>9, <1>11

\* A frame with FIR and FIN is a message by itself, and no other is.
LEMMA WholeAlone ==
    ASSUME stream \in Streams, WellFormed(stream), NEW f \in Frames, flow(f) \in Flows
    PROVE  ~isFragment(f) <=> Msg(f) = {f}
<1>1. f \in Msg(f) /\ Msg(f) \subseteq Nat
  BY MsgBasics
<1>2. /\ fir(f) <=> \A h \in Msg(f) : f <= h
      /\ fin(f) <=> \A h \in Msg(f) : h <= f
  BY <1>1, MsgEnds
<1>3. ASSUME fir(f), fin(f), NEW h \in Msg(f) PROVE h = f
  <2>1. f <= h /\ h <= f /\ f \in Nat /\ h \in Nat
    BY <1>1, <1>2, <1>3
  <2> QED BY <2>1
<1>4. Msg(f) = {f} => fir(f) /\ fin(f)
  BY <1>1, <1>2
<1> QED BY <1>1, <1>3, <1>4 DEF isFragment

\* A flow that takes a fragment behind others takes one of the message in the making.
LEMMA FragmentContinues ==
    ASSUME stream \in Streams, WellFormed(stream), NEW w \in Flows, NEW D, NEW fl, NEW f,
           Takes(w, D, fl, f), isFragment(f), NEW k \in fl.frag_q
    PROVE  f \in Msg(k) /\ Msg(f) = Msg(k)
<1>1. PICK q, p : q = fl.frag_q /\ p = fl.pNextFrame
  OBVIOUS
<1>2. /\ f \in Frames /\ flow(f) = w /\ f \in Nat /\ f \notin D
      /\ k \in Frames /\ flow(k) = w /\ k \in Nat /\ k # f
      /\ Msg(k) \cap D = {} /\ q \subseteq Msg(k) /\ q # Msg(k)
      /\ \A g \in Frames : flow(g) = w /\ g < k => g \in D \cup Msg(k)
      /\ p # NoFrame => \A g \in Msg(k) : g < p
      /\ \A g \in Frames : g < f /\ flow(g) = w /\ g \notin D /\ g \notin q /\ g # p => g \in Msg(f)
  BY <1>1, TakesSays
<1>3. /\ Msg(k) \in SUBSET Frames /\ Msg(k) \in SUBSET Nat /\ k \in Msg(k)
      /\ \A g \in Msg(k) : flow(g) = w /\ Msg(g) = Msg(k)
      /\ \A g \in Msg(f) : Msg(g) = Msg(f)
      /\ f \in Msg(f) /\ NoFrame \notin Frames
  BY <1>2, MsgBasics, FramesTyped
<1>4. PICK x \in Msg(k) : x \notin q
  BY <1>2
<1>5. x \in Frames /\ x \in Nat /\ flow(x) = w /\ x \notin D /\ x # p
  <2>1. x \in Frames /\ x \in Nat /\ flow(x) = w /\ x \notin D /\ x # NoFrame
    BY <1>2, <1>3
  <2>2. p # NoFrame => x < p
    BY <1>2
  <2> QED BY <2>1, <2>2
<1>6. CASE x < f
  <2>1. x \in Msg(f)
    BY <1>2, <1>4, <1>5, <1>6
  <2> QED BY <1>3, <2>1
<1>7. CASE f < x
  <2>1. CASE k < f
    <3>1. f \in Msg(k)
      BY <1>2, <1>3, <1>7, <2>1, MsgTogether
    <3> QED BY <1>3, <3>1
  <2>2. CASE f < k
    <3>1. f \in Msg(k)
      BY <1>2, <2>2
    <3> QED BY <1>3, <3>1
  <2> QED BY <1>2, <2>1, <2>2
<1>8. CASE x = f
  BY <1>3, <1>8
<1> QED BY <1>2, <1>5, <1>6, <1>7, <1>8

\* All that is before a fragment which a flow takes is written or of its message.
LEMMA FragmentAfter ==
    ASSUME stream \in Streams, WellFormed(stream), NEW w \in Flows, NEW D, NEW fl, NEW f,
           Takes(w, D, fl, f), isFragment(f)
    PROVE  /\ fl.frag_q \subseteq Msg(f) /\ Msg(f) \cap D = {} /\ Msg(f) # {f}
           /\ \A g \in Frames : flow(g) = w /\ g < f => g \in D \cup Msg(f)
<1>1. PICK q, p : q = fl.frag_q /\ p = fl.pNextFrame
  OBVIOUS
<1>2. /\ f \in Frames /\ flow(f) = w /\ f \in Nat /\ f \notin D
      /\ p # NoFrame => p \in Nat /\ q # {}
      /\ \A g \in D : \A h \in Frames : flow(h) = w /\ (h < g \/ h \in Msg(g)) => h \in D
      /\ \A k \in q : p # NoFrame => \A g \in Msg(k) : g < p
      /\ \A g \in Frames : g < f /\ flow(g) = w /\ g \notin D /\ g \notin q /\ g # p => g \in Msg(f)
      /\ \A g \in D : g \in Frames
  BY <1>1, TakesSays
<1>3. f \in Msg(f) /\ NoFrame \notin Frames
  BY <1>2, MsgBasics, FramesTyped
<1>4. Msg(f) # {f}
  BY <1>2, WholeAlone
<1>5. Msg(f) \cap D = {}
  <2> SUFFICES ASSUME NEW x \in Msg(f), x \in D PROVE FALSE
    OBVIOUS
  <2>1. f \in Msg(x)
    BY <1>2, <1>3, MsgBasics
  <2> QED BY <1>2, <2>1
<1>6. ASSUME NEW k \in q PROVE f \in Msg(k) /\ Msg(f) = Msg(k) /\ k \in Msg(k)
  <2>1. f \in Msg(k) /\ Msg(f) = Msg(k)
    BY <1>1, FragmentContinues
  <2>2. k \in Frames
    BY <1>1, TakesSays
  <2> QED BY <2>1, <2>2, MsgBasics
<1>7. q \subseteq Msg(f)
  BY <1>6
<1>8. ASSUME NEW g \in Frames, flow(g) = w, g < f PROVE g \in D \cup Msg(f)
  <2>1. CASE g = p
    <3>1. g # NoFrame
      BY <1>3
    <3>2. PICK k \in q : TRUE
      BY <1>2, <2>1, <3>1
    <3>3. f < p
      BY <1>2, <1>6, <2>1, <3>1, <3>2
    <3>4. p \in Nat
      BY <1>2, <2>1, <3>1
    <3> QED BY <1>2, <1>8, <2>1, <3>3, <3>4
  <2>2. CASE g # p
    BY <1>2, <1>7, <1>8, <2>2
  <2> QED BY <2>1, <2>2
<1> QED BY <1>1, <1>4, <1>5, <1>7, <1>8

\* s goes up.
Ascending(s) == \A i, j \in 1..Len(s) : i < j => s[i] < s[j]

\* An ascending sequence goes on with one more.
LEMMA AscendingOn ==
    ASSUME NEW s, NEW S \in SUBSET Nat, s \in Seq(S), Ascending(s), NEW p \in Nat, \A x \in S : x < p
    PROVE  Ascending(s \o <<p>>)
<1> DEFINE t == s \o <<p>>
<1>1. /\ Len(s) \in Nat /\ Len(t) = Len(s) + 1
      /\ \A i \in 1..Len(s) : t[i] = s[i] /\ s[i] \in S
      /\ t[Len(s) + 1] = p
  OBVIOUS
<1> HIDE DEF t
<1>2. ASSUME NEW i \in 1..Len(t), NEW j \in 1..Len(t), i < j PROVE t[i] < t[j]
  <2>1. CASE j \in 1..Len(s)
    <3>1. i \in 1..Len(s)
      BY <1>1, <1>2, <2>1
    <3> QED BY <1>1, <1>2, <2>1, <3>1 DEF Ascending
  <2>2. CASE j = Len(s) + 1
    <3>1. i \in 1..Len(s)
      BY <1>1, <1>2, <2>2
    <3> QED BY <1>1, <2>2, <3>1
  <2> QED BY <1>1, <2>1, <2>2
<1>3. Ascending(t)
  BY <1>2 DEF Ascending
<1> QED BY <1>3 DEF t

\* The flush of a complete message writes it and what was saved behind it in their order.
LEMMA FlushedInOrder ==
    ASSUME stream \in Streams, WellFormed(stream), NEW f \in Frames, flow(f) \in Flows,
           NEW fl \in FlowStates, fl.frag_q = Msg(f),
           fl.pNextFrame # NoFrame => \A g \in Msg(f) : g < fl.pNextFrame,
           NEW out \in FlushOutputs(fl)
    PROVE  Ascending(out)
<1>1. PICK s \in PopOrders(Msg(f)) : out = s \o Opt(fl.pNextFrame)
  BY DEF FlushOutputs
<1>2. Msg(f) \in SUBSET Nat /\ IsFiniteSet(Msg(f))
  BY MsgBasics
<1>3. s \in SetToSeqs(Msg(f))
  BY <1>1 DEF PopOrders
<1>4. Lists(s, Msg(f))
  BY <1>2, <1>3, ListsEnumerated
<1>5. s \in Seq(Msg(f)) /\ DOMAIN s = 1..Len(s)
  BY <1>4 DEF Lists
<1>6. Ascending(s)
  <2>1. \A i, j \in DOMAIN s : i < j => s[i] < s[j]
    BY <1>1, PoppedInOrder
  <2> QED BY <1>5, <2>1 DEF Ascending
<1>7. CASE fl.pNextFrame = NoFrame
  <2>1. out = s
    BY <1>1, <1>5, <1>7 DEF Opt
  <2> QED BY <1>6, <2>1
<1>8. CASE fl.pNextFrame # NoFrame
  <2>1. out = s \o <<fl.pNextFrame>>
    BY <1>1, <1>8 DEF Opt
  <2>2. fl.pNextFrame \in Nat
    BY <1>8, FramesTyped DEF FlowStates
  <2> QED BY <1>2, <1>5, <1>6, <1>8, <2>1, <2>2, AscendingOn
<1> QED BY <1>7, <1>8

\* A fragment is no duplicate; the flow makes progress with it, or is done with the message.
LEMMA FragmentProgress ==
    ASSUME stream \in Streams, WellFormed(stream), NEW w \in Flows, NEW D, NEW fl, NEW f,
           Takes(w, D, fl, f), isFragment(f), NEW nq, nq = Recorded(fl, f)
    PROVE  /\ ~Duplicate(fl, f)
           /\ ~Complete(nq) => Progress(stream, w, D, nq.frag_q, nq.pNextFrame)
           /\ Complete(nq) => /\ Progress(stream, w, D \cup Held(nq), {}, NoFrame)
                              /\ \A out \in FlushOutputs(nq) : Ascending(out)
                              /\ \A d \in D, x \in Held(nq) : d < x
<1>1. PICK q, p : q = fl.frag_q /\ p = fl.pNextFrame
  OBVIOUS
<1>2. /\ f \in Frames /\ flow(f) = w /\ f \in Nat /\ f \notin D /\ f \notin q
      /\ \A g \in D : g \in Frames /\ flow(g) = w /\ g \in Nat
      /\ p # NoFrame => p \in Frames /\ flow(p) = w /\ p \in Nat /\ p \notin D /\ q # {}
      /\ \A g \in D : \A h \in Frames : flow(h) = w /\ (h < g \/ h \in Msg(g)) => h \in D
      /\ \A k \in q : \A g \in Frames : flow(g) = w /\ g < k => g \in D \cup Msg(k)
      /\ \A k \in q : p # NoFrame => /\ fir(p) /\ fin(p) /\ \A g \in Msg(k) : g < p
                                     /\ \A g \in Frames : flow(g) = w /\ g < p => g \in D \cup Msg(k)
  BY <1>1, TakesSays
<1>3. /\ q \subseteq Msg(f) /\ Msg(f) \cap D = {} /\ Msg(f) # {f}
      /\ \A g \in Frames : flow(g) = w /\ g < f => g \in D \cup Msg(f)
  BY <1>1, FragmentAfter
<1>4. /\ f \in Msg(f) /\ Msg(f) \in SUBSET Frames /\ Msg(f) \in SUBSET Nat
      /\ \A g \in Msg(f) : flow(g) = w /\ Msg(g) = Msg(f)
  BY <1>2, MsgBasics
<1>5. fl \in FlowStates /\ Books(fl)
  BY DEF Takes
<1>6. ~Duplicate(fl, f)
  BY <1>1, <1>2, <1>3, <1>5, NewInMessage
<1>7. /\ nq \in FlowStates /\ Books(nq) /\ nq.frag_q = q \cup {f} /\ nq.pNextFrame = p
  BY <1>1, <1>2, <1>5, <1>6, RecordedBooks
<1>8. Complete(nq) <=> q \cup {f} = Msg(f)
  <2>1. nq.frag_q \subseteq Msg(f) /\ nq.frag_q # {}
    BY <1>3, <1>4, <1>7
  <2> QED BY <1>2, <1>7, <2>1, CompleteIs
<1>9. \A k \in q \cup {f} : \A g \in Frames : flow(g) = w /\ g < k => g \in D \cup Msg(f)
  BY <1>2, <1>3, <1>4
<1>10. p # NoFrame => /\ fir(p) /\ fin(p) /\ \A g \in Msg(f) : g < p
                      /\ \A g \in Frames : flow(g) = w /\ g < p => g \in D \cup Msg(f)
  <2> SUFFICES ASSUME p # NoFrame
               PROVE  /\ fir(p) /\ fin(p) /\ \A g \in Msg(f) : g < p
                      /\ \A g \in Frames : flow(g) = w /\ g < p => g \in D \cup Msg(f)
    OBVIOUS
  <2>1. PICK k \in q : TRUE
    BY <1>2
  <2>2. Msg(k) = Msg(f)
    BY <1>3, <1>4
  <2> QED BY <1>2, <2>2
<1>11. Frames = DOMAIN stream
  BY DEF Frames
<1>12. ASSUME ~Complete(nq) PROVE Progress(stream, w, D, nq.frag_q, nq.pNextFrame)
  <2>1. ASSUME NEW k \in q \cup {f}
        PROVE  /\ Msg(k) \cap D = {} /\ q \cup {f} \subseteq Msg(k) /\ q \cup {f} # Msg(k)
               /\ \A g \in Frames : flow(g) = w /\ g < k => g \in D \cup Msg(k)
               /\ p # NoFrame => /\ fir(p) /\ fin(p) /\ \A g \in Msg(k) : g < p
                                 /\ \A g \in Frames : flow(g) = w /\ g < p => g \in D \cup Msg(k)
    <3>1. Msg(k) = Msg(f)
      BY <1>3, <1>4
    <3> QED BY <1>3, <1>4, <1>8, <1>9, <1>10, <1>12, <3>1
  <2> QED BY <1>2, <1>7, <1>11, <2>1 DEF Progress, Msg, flow, fir, fin
<1>13. ASSUME Complete(nq)
       PROVE  /\ Progress(stream, w, D \cup Held(nq), {}, NoFrame)
              /\ \A out \in FlushOutputs(nq) : Ascending(out)
              /\ \A d \in D, x \in Held(nq) : d < x
  <2>1. nq.frag_q = Msg(f)
    BY <1>7, <1>8, <1>13
  <2>2. \A g : g \in Held(nq) <=> (g \in Msg(f) \/ (g = p /\ p # NoFrame))
    BY <1>7, <2>1 DEF Held, Saved
  <2>3. \A out \in FlushOutputs(nq) : Ascending(out)
    BY <1>2, <1>7, <1>10, <2>1, FlushedInOrder
  <2>4. ASSUME NEW d \in D, NEW x \in Held(nq) PROVE d < x
    <3>1. x \in Frames /\ flow(x) = w /\ x \in Nat /\ x \notin D
      BY <1>2, <1>3, <1>4, <2>2
    <3>2. ~(x < d)
      BY <1>2, <3>1
    <3> QED BY <1>2, <3>1, <3>2
  <2>5. p # NoFrame => Msg(p) = {p}
    BY <1>2, <1>10, WholeAlone DEF isFragment
  <2>6. ASSUME NEW x \in D \cup Held(nq), NEW g \in Frames, flow(g) = w, g < x \/ g \in Msg(x)
        PROVE  g \in D \cup Held(nq)
    <3>1. CASE x \in D
      BY <1>2, <2>6, <3>1
    <3>2. CASE x \in Msg(f)
      <4>1. Msg(x) = Msg(f) /\ x \in q \cup {f}
        BY <1>4, <1>8, <1>13, <3>2
      <4>2. g \in D \cup Msg(f)
        BY <1>9, <2>6, <4>1
      <4> QED BY <2>2, <4>2
    <3>3. CASE x = p /\ p # NoFrame
      <4>1. g \in D \cup Msg(f) \/ g = p
        BY <1>10, <2>5, <2>6, <3>3
      <4> QED BY <2>2, <3>3, <4>1
    <3> QED BY <2>2, <3>1, <3>2, <3>3
  <2>7. Progress(stream, w, D \cup Held(nq), {}, NoFrame)
    BY <1>11, <2>6 DEF Progress, Msg, flow
  <2> QED BY <2>3, <2>4, <2>7
<1> QED BY <1>6, <1>12, <1>13

\* A flow that takes a whole message has none saved; the message is behind all that is
\* written, or right behind the message in the making.
LEMMA WholeProgress ==
    ASSUME stream \in Streams, WellFormed(stream), NEW w \in Flows, NEW D, NEW fl, NEW f,
           Takes(w, D, fl, f), ~isFragment(f)
    PROVE  /\ fl.pNextFrame = NoFrame
           /\ fl.frag_q = {} => /\ Progress(stream, w, D \cup {f}, {}, NoFrame)
                                /\ \A d \in D : d < f
           /\ fl.frag_q # {} => Progress(stream, w, D, fl.frag_q, f)
<1>1. PICK q, p : q = fl.frag_q /\ p = fl.pNextFrame
  OBVIOUS
<1>2. /\ f \in Frames /\ flow(f) = w /\ f \in Nat /\ f \notin D /\ f \notin q
      /\ \A g \in D \cup q : g \in Frames /\ flow(g) = w /\ g \in Nat
      /\ p # NoFrame => p \in Frames /\ flow(p) = w /\ p \in Nat /\ p # f /\ q # {}
      /\ \A g \in D : \A h \in Frames : flow(h) = w /\ (h < g \/ h \in Msg(g)) => h \in D
      /\ \A k \in q : /\ Msg(k) \cap D = {} /\ q \subseteq Msg(k) /\ q # Msg(k)
                      /\ \A g \in Frames : flow(g) = w /\ g < k => g \in D \cup Msg(k)
      /\ \A k \in q : p # NoFrame =>
                      /\ \A g \in Msg(k) : g < p
                      /\ \A g \in Frames : flow(g) = w /\ g < p => g \in D \cup Msg(k)
      /\ \A g \in Frames : g < f /\ flow(g) = w /\ g \notin D /\ g \notin q /\ g # p =>
           \/ g \in Msg(f)
           \/ /\ \E h \in Frames : flow(h) = w /\ h \in Msg(g) /\ (h \in D \/ h \in q \/ h = p)
              /\ \A h \in Frames : flow(h) = w /\ g < h /\ h < f => h \in Msg(g) \cup Msg(f)
  BY <1>1, TakesSays
<1>3. Msg(f) = {f} /\ fir(f) /\ fin(f) /\ NoFrame \notin Frames
  BY <1>2, WholeAlone, FramesTyped DEF isFragment
<1>4. ASSUME NEW k \in q
      PROVE  /\ k \in Msg(k) /\ Msg(k) \in SUBSET Frames /\ Msg(k) \in SUBSET Nat
             /\ \A g \in Msg(k) : flow(g) = w /\ Msg(g) = Msg(k)
             /\ f \notin Msg(k)
  <2>1. /\ k \in Msg(k) /\ Msg(k) \in SUBSET Frames /\ Msg(k) \in SUBSET Nat
        /\ \A g \in Msg(k) : flow(g) = w /\ Msg(g) = Msg(k)
    BY <1>2, MsgBasics
  <2>2. f \notin Msg(k)
    BY <1>2, <1>3, <2>1
  <2> QED BY <2>1, <2>2
<1>5. ASSUME NEW k \in q, NEW x \in Msg(k) PROVE x < f
  <2>1. x \in Nat /\ x # f /\ k \in Nat /\ k # f /\ k \in Frames /\ flow(k) = w
    BY <1>2, <1>4
  <2>2. ~(f < k)
    BY <1>2, <1>4
  <2>3. ~(k < f /\ f < x)
    <3> SUFFICES ASSUME k < f, f < x PROVE FALSE
      OBVIOUS
    <3>1. f \in Msg(k)
      BY <1>2, <1>4, <2>1, MsgTogether
    <3> QED BY <1>4, <3>1
  <2> QED BY <1>2, <2>1, <2>2, <2>3
<1>6. p = NoFrame
  <2> SUFFICES ASSUME p # NoFrame PROVE FALSE
    OBVIOUS
  <2>1. PICK k \in q : TRUE
    BY <1>2
  <2>2. PICK x \in Msg(k) : x \notin q
    BY <1>2
  <2>3. x \in Frames /\ flow(x) = w /\ x \notin D /\ x < p /\ x \in Nat /\ x < f /\ Msg(x) = Msg(k)
    BY <1>2, <1>4, <1>5
  <2>4. x # p /\ x \notin Msg(f)
    BY <1>2, <1>3, <2>3
  <2>5. \A h \in Frames : flow(h) = w /\ x < h /\ h < f => h \in Msg(x) \cup Msg(f)
    BY <1>2, <2>2, <2>3, <2>4
  <2>6. p \notin Msg(k) /\ p \in Nat
    <3>1. p \in Nat /\ ~(p < p)
      BY <1>2
    <3> QED BY <1>2, <3>1
  <2>7. ~(p < f)
    BY <1>2, <1>3, <2>3, <2>5, <2>6
  <2>8. f < p
    BY <1>2, <2>6, <2>7
  <2>9. f \in Msg(k)
    BY <1>2, <2>8
  <2> QED BY <1>4, <2>9
<1>7. \A g : ~(g \in Frames /\ g = p)
  BY <1>3, <1>6
<1>8. Frames = DOMAIN stream
  BY DEF Frames
<1>9. ASSUME q = {}
      PROVE  Progress(stream, w, D \cup {f}, {}, NoFrame) /\ \A d \in D : d < f
  <2>1. ASSUME NEW g \in Frames, flow(g) = w, g < f PROVE g \in D
    <3> SUFFICES ASSUME g \notin D PROVE FALSE
      OBVIOUS
    <3>1. g # f
      BY <1>2, <2>1
    <3>2. PICK h \in Frames : h \in Msg(g) /\ h \in D
      BY <1>2, <1>3, <1>7, <1>9, <2>1, <3>1
    <3>3. g \in Msg(h)
      BY <2>1, <3>2, MsgBasics
    <3> QED BY <1>2, <2>1, <3>2, <3>3
  <2>2. \A d \in D : d < f
    <3> SUFFICES ASSUME NEW d \in D PROVE d < f
      OBVIOUS
    <3>1. d \in Nat /\ ~(f < d) /\ d # f
      BY <1>2
    <3> QED BY <1>2, <3>1
  <2>3. ASSUME NEW x \in D \cup {f}, NEW g \in Frames, flow(g) = w, g < x \/ g \in Msg(x)
        PROVE  g \in D \cup {f}
    BY <1>2, <1>3, <2>1, <2>3
  <2>4. Progress(stream, w, D \cup {f}, {}, NoFrame)
    BY <1>8, <2>3 DEF Progress, Msg, flow
  <2> QED BY <2>2, <2>4
<1>10. Progress(stream, w, D, q, f)
  <2>1. ASSUME NEW k \in q, NEW g \in Frames, flow(g) = w, g < f PROVE g \in D \cup Msg(k)
    <3> SUFFICES ASSUME g \notin D, g \notin q PROVE g \in Msg(k)
      BY <1>2
    <3>1. g # f /\ g \notin Msg(f)
      BY <1>2, <1>3, <2>1
    <3>2. PICK h \in Frames : h \in Msg(g) /\ (h \in D \/ h \in q)
      BY <1>2, <1>7, <2>1, <3>1
    <3>3. g \in Msg(h) /\ Msg(h) = Msg(g)
      BY <2>1, <3>2, MsgBasics
    <3>4. h \notin D
      BY <1>2, <2>1, <3>3
    <3>5. h \in Msg(k)
      BY <1>2, <3>2, <3>4
    <3> QED BY <1>4, <3>3, <3>5
  <2>2. ASSUME NEW k \in q
        PROVE  /\ Msg(k) \cap D = {} /\ q \subseteq Msg(k) /\ q # Msg(k)
               /\ \A g \in Frames : flow(g) = w /\ g < k => g \in D \cup Msg(k)
               /\ fir(f) /\ fin(f) /\ \A g \in Msg(k) : g < f
               /\ \A g \in Frames : flow(g) = w /\ g < f => g \in D \cup Msg(k)
    BY <1>2, <1>3, <1>5, <2>1
  <2> QED BY <1>2, <1>8, <2>2 DEF Progress, Msg, flow, fir, fin
<1> QED BY <1>1, <1>6, <1>9, <1>10

-----------------------------------------------------------------------------
(* The strands *)

\* The elements of s from place i on.
Onward(s, i) == {s[j] : j \in i..Len(s)}

\* t is s with x after its last element.
Extended(s, x, t) ==
    /\ Len(s) \in Nat /\ Len(t) = Len(s) + 1 /\ t[Len(s) + 1] = x
    /\ \A i \in 1..Len(s) : t[i] = s[i]
    /\ \A i \in 1..(Len(s) + 1) : Onward(t, i) = Onward(s, i) \cup {x}
    /\ Onward(t, Len(s) + 1) = {x}

\* A sequence that gets one more element.
LEMMA OnwardAppend ==
    ASSUME NEW S, NEW s \in Seq(S), NEW x, NEW t, t = Append(s, x)
    PROVE  Extended(s, x, t)
<1>1. PICK n \in Nat : n = Len(s)
  OBVIOUS
<1>2. Len(t) = n + 1 /\ t[n + 1] = x /\ \A i \in 1..n : t[i] = s[i]
  BY <1>1
<1>3. ASSUME NEW i \in 1..(n + 1) PROVE Onward(t, i) = Onward(s, i) \cup {x}
  <2>1. ASSUME NEW y \in Onward(t, i) PROVE y \in Onward(s, i) \cup {x}
    <3>1. PICK j \in i..(n + 1) : y = t[j]
      BY <1>2, <2>1 DEF Onward
    <3>2. CASE j = n + 1
      BY <1>2, <3>1, <3>2
    <3>3. CASE j \in i..n
      <4>1. j \in 1..n
        BY <3>3
      <4>2. y = s[j]
        BY <1>2, <3>1, <4>1
      <4> QED BY <1>1, <3>3, <4>2 DEF Onward
    <3>4. j = n + 1 \/ j \in i..n
      OBVIOUS
    <3> QED BY <3>2, <3>3, <3>4
  <2>2. ASSUME NEW y \in Onward(s, i) \cup {x} PROVE y \in Onward(t, i)
    <3>1. CASE y = x
      <4>1. n + 1 \in i..Len(t)
        BY <1>2
      <4> QED BY <1>2, <3>1, <4>1 DEF Onward
    <3>2. CASE y \in Onward(s, i)
      <4>1. PICK j \in i..n : y = s[j]
        BY <1>1, <3>2 DEF Onward
      <4>2. j \in 1..n /\ j \in i..Len(t)
        BY <1>2
      <4> QED BY <1>2, <4>1, <4>2 DEF Onward
    <3> QED BY <2>2, <3>1, <3>2
  <2> QED BY <2>1, <2>2
<1>4. Onward(s, n + 1) = {}
  BY <1>1 DEF Onward
<1>5. n + 1 \in 1..(n + 1)
  OBVIOUS
<1>6. Onward(t, n + 1) = {x}
  BY <1>3, <1>4, <1>5
<1> QED BY <1>1, <1>2, <1>3, <1>6 DEF Extended

\* t is s without its first element.
Shifted(s, t) ==
    /\ Len(s) \in Nat /\ 1 \in 1..Len(s) /\ s[1] = Head(s) /\ Len(t) \in Nat
    /\ \A i \in 1..Len(t) : i + 1 \in 1..Len(s) /\ t[i] = s[i + 1]
    /\ \A i \in Nat \ {0} : Onward(t, i) = Onward(s, i + 1)
    /\ Onward(s, 1) = Onward(t, 1) \cup {Head(s)}

\* A sequence that loses its first element.
LEMMA OnwardTail ==
    ASSUME NEW S, NEW s \in Seq(S), s # <<>>, NEW t, t = Tail(s)
    PROVE  Shifted(s, t)
<1>1. PICK n \in Nat : Len(t) = n /\ Len(s) = n + 1
  OBVIOUS
<1>2. s[1] = Head(s) /\ \A i \in 1..n : t[i] = s[i + 1]
  BY <1>1
<1>3. ASSUME NEW i \in Nat \ {0} PROVE Onward(t, i) = Onward(s, i + 1)
  <2>1. ASSUME NEW y \in Onward(t, i) PROVE y \in Onward(s, i + 1)
    <3>1. PICK j \in i..n : y = t[j]
      BY <1>1, <2>1 DEF Onward
    <3>2. j \in 1..n /\ j + 1 \in (i + 1)..Len(s)
      BY <1>1
    <3>3. y = s[j + 1]
      BY <1>2, <3>1, <3>2
    <3> QED BY <3>2, <3>3 DEF Onward
  <2>2. ASSUME NEW y \in Onward(s, i + 1) PROVE y \in Onward(t, i)
    <3>1. PICK j \in (i + 1)..(n + 1) : y = s[j]
      BY <1>1, <2>2 DEF Onward
    <3>2. j - 1 \in 1..n /\ j - 1 \in i..Len(t) /\ (j - 1) + 1 = j
      BY <1>1
    <3>3. y = t[j - 1]
      BY <1>2, <3>1, <3>2
    <3> QED BY <3>2, <3>3 DEF Onward
  <2> QED BY <2>1, <2>2
<1>4. Onward(s, 1) = Onward(s, 1 + 1) \cup {s[1]}
  <2>1. \A j : j \in 1..(n + 1) <=> (j \in (1 + 1)..(n + 1) \/ j = 1)
    OBVIOUS
  <2>2. /\ \A y : y \in Onward(s, 1) <=> \E j \in 1..(n + 1) : y = s[j]
        /\ \A y : y \in Onward(s, 1 + 1) <=> \E j \in (1 + 1)..(n + 1) : y = s[j]
    BY <1>1 DEF Onward
  <2>3. \A y : y \in Onward(s, 1) <=> (y \in Onward(s, 1 + 1) \/ y = s[1])
    BY <2>1, <2>2
  <2> QED BY <2>3
<1>5. \A i \in 1..n : i + 1 \in 1..(n + 1)
  OBVIOUS
<1>6. Onward(s, 1) = Onward(t, 1) \cup {Head(s)}
  BY <1>2, <1>3, <1>4
<1>7. /\ Len(s) \in Nat /\ 1 \in 1..Len(s) /\ s[1] = Head(s) /\ Len(t) \in Nat
      /\ \A i \in 1..Len(t) : i + 1 \in 1..Len(s) /\ t[i] = s[i + 1]
  BY <1>1, <1>2, <1>5
<1> QED BY <1>3, <1>6, <1>7 DEF Shifted

\* What came before matters on the frame's own flow only.
LEMMA TolerableSame ==
    ASSUME NEW s, NEW f, NEW A, NEW B, Tolerable(s, f, A), A \subseteq DOMAIN s, B \subseteq DOMAIN s,
           \A g \in DOMAIN s : s[g].flow = s[f].flow => (g \in A <=> g \in B)
    PROVE  Tolerable(s, f, B)
  BY DEF Tolerable

\* The frames of flow w among those written.
Done(s, t, w) == {f \in DOMAIN s : s[f].flow = w /\ \E i \in 1..Len(t) : t[i] = f}

\* The frames of each flow are written in the order of the stream.
InOrder(s, t) ==
    \A i, j \in 1..Len(t) :
        i < j /\ s[t[i]].flow = s[t[j]].flow /\ s[t[i]].flow # Unframed => t[i] < t[j]

\* The frames O of flow w are written after t, in the order out.
Adds(s, t, w, O, out) ==
    /\ t \in Seq(DOMAIN s) /\ O \in SUBSET DOMAIN s /\ Lists(out, O)
    /\ \A g \in O : s[g].flow = w

\* They go up from those of the flow that were written before.
GoesUp(s, t, w, O, out) ==
    w # Unframed => Ascending(out) /\ \A d \in Done(s, t, w), x \in O : d < x

\* Of flow w the frames O are written in u and not in t.
DoneGrows(s, t, u, w, O) ==
    /\ Done(s, u, w) = Done(s, t, w) \cup O
    /\ \A v : v # w => Done(s, u, v) = Done(s, t, v)

\* What of the flows is written then.
LEMMA DoneOn ==
    ASSUME NEW s, NEW t, NEW w, NEW O, NEW out, Adds(s, t, w, O, out), NEW u, u = t \o out
    PROVE  DoneGrows(s, t, u, w, O)
<1>0. /\ t \in Seq(DOMAIN s) /\ O \in SUBSET DOMAIN s /\ Lists(out, O)
      /\ \A g \in O : s[g].flow = w
  BY DEF Adds
<1>1. PICK m \in Nat, n \in Nat : m = Len(t) /\ n = Len(out) /\ Len(u) = m + n
  BY <1>0 DEF Lists
<1>2. /\ \A i \in 1..m : u[i] = t[i]
      /\ \A i \in 1..n : u[m + i] = out[i] /\ out[i] \in O
      /\ \A x \in O : \E i \in 1..n : out[i] = x
  <2>1. out \in Seq(O) /\ out \in Seq(DOMAIN s)
    BY <1>0 DEF Lists
  <2>2. \A i \in 1..m : u[i] = t[i]
    BY <1>0, <1>1, <2>1
  <2>3. \A i \in 1..n : u[m + i] = out[i] /\ out[i] \in O
    BY <1>0, <1>1, <2>1
  <2>4. \A x \in O : \E i \in 1..n : out[i] = x
    BY <1>0, <1>1 DEF Lists
  <2> QED BY <2>2, <2>3, <2>4
<1>3. \A f : (\E i \in 1..Len(u) : u[i] = f) <=> ((\E i \in 1..Len(t) : t[i] = f) \/ f \in O)
  <2>1. ASSUME NEW i \in 1..Len(u) PROVE (\E j \in 1..Len(t) : t[j] = u[i]) \/ u[i] \in O
    <3>1. CASE i <= m
      <4>1. i \in 1..m
        BY <1>1, <3>1
      <4> QED BY <1>1, <1>2, <4>1
    <3>2. CASE ~(i <= m)
      <4>1. i - m \in 1..n /\ m + (i - m) = i
        BY <1>1, <3>2
      <4> QED BY <1>2, <4>1
    <3> QED BY <3>1, <3>2
  <2>2. ASSUME NEW i \in 1..Len(t) PROVE \E j \in 1..Len(u) : u[j] = t[i]
    <3>1. i \in 1..m /\ i \in 1..Len(u)
      BY <1>1
    <3> QED BY <1>2, <3>1
  <2>3. ASSUME NEW f \in O PROVE \E j \in 1..Len(u) : u[j] = f
    <3>1. PICK i \in 1..n : out[i] = f
      BY <1>2
    <3>2. m + i \in 1..Len(u)
      BY <1>1
    <3> QED BY <1>2, <3>1, <3>2
  <2> SUFFICES ASSUME NEW f
               PROVE  (\E i \in 1..Len(u) : u[i] = f) <=> ((\E i \in 1..Len(t) : t[i] = f) \/ f \in O)
    OBVIOUS
  <2>4. ASSUME NEW i \in 1..Len(u), u[i] = f PROVE (\E j \in 1..Len(t) : t[j] = f) \/ f \in O
    BY <2>1, <2>4
  <2>5. ASSUME NEW i \in 1..Len(t), t[i] = f PROVE \E j \in 1..Len(u) : u[j] = f
    BY <2>2, <2>5
  <2> QED BY <2>3, <2>4, <2>5
<1>4. Done(s, u, w) = Done(s, t, w) \cup O
  BY <1>0, <1>3 DEF Done
<1>5. ASSUME NEW v, v # w PROVE Done(s, u, v) = Done(s, t, v)
  BY <1>0, <1>3, <1>5 DEF Done
<1> QED BY <1>4, <1>5 DEF DoneGrows

\* All are written in order if these go up.
LEMMA InOrderOn ==
    ASSUME NEW s, NEW t, NEW w, NEW O, NEW out, Adds(s, t, w, O, out), NEW u, u = t \o out,
           InOrder(s, t), GoesUp(s, t, w, O, out)
    PROVE  InOrder(s, u)
<1>0. /\ t \in Seq(DOMAIN s) /\ O \in SUBSET DOMAIN s /\ Lists(out, O)
      /\ \A g \in O : s[g].flow = w
  BY DEF Adds
<1>1. PICK m \in Nat, n \in Nat : m = Len(t) /\ n = Len(out) /\ Len(u) = m + n
  BY <1>0 DEF Lists
<1>2. /\ \A i \in 1..m : u[i] = t[i] /\ t[i] \in DOMAIN s
      /\ \A i \in 1..n : u[m + i] = out[i] /\ out[i] \in O
  <2>1. out \in Seq(O) /\ out \in Seq(DOMAIN s)
    BY <1>0 DEF Lists
  <2>2. \A i \in 1..m : u[i] = t[i] /\ t[i] \in DOMAIN s
    BY <1>0, <1>1, <2>1
  <2>3. \A i \in 1..n : u[m + i] = out[i] /\ out[i] \in O
    BY <1>0, <1>1, <2>1
  <2> QED BY <2>2, <2>3
<1>3. \A i \in 1..Len(u) : i \in 1..m \/ (i - m \in 1..n /\ m + (i - m) = i)
  BY <1>1
<1> SUFFICES ASSUME NEW i \in 1..Len(u), NEW j \in 1..Len(u), i < j,
                    s[u[i]].flow = s[u[j]].flow, s[u[i]].flow # Unframed
             PROVE  u[i] < u[j]
  BY DEF InOrder
<1>4. CASE i \in 1..m /\ j \in 1..m
  <2>1. u[i] = t[i] /\ u[j] = t[j]
    BY <1>2, <1>4
  <2> QED BY <1>1, <1>4, <2>1 DEF InOrder
<1>5. CASE i \in 1..m /\ (j - m \in 1..n /\ m + (j - m) = j)
  <2>1. u[i] = t[i] /\ t[i] \in DOMAIN s /\ u[j] \in O
    BY <1>2, <1>5
  <2>2. s[u[j]].flow = w /\ w # Unframed
    BY <1>0, <2>1
  <2>3. u[i] \in Done(s, t, w)
    BY <1>1, <1>5, <2>1, <2>2 DEF Done
  <2> QED BY <2>1, <2>2, <2>3 DEF GoesUp
<1>6. CASE (i - m \in 1..n /\ m + (i - m) = i) /\ (j - m \in 1..n /\ m + (j - m) = j)
  <2>1. u[i] = out[i - m] /\ u[j] = out[j - m] /\ u[i] \in O
    BY <1>2, <1>6
  <2>2. i - m < j - m
    BY <1>1
  <2>3. w # Unframed
    BY <1>0, <2>1
  <2>4. Ascending(out)
    BY <2>3 DEF GoesUp
  <2> QED BY <1>1, <1>6, <2>1, <2>2, <2>4 DEF Ascending
<1>7. ~((i - m \in 1..n /\ m + (i - m) = i) /\ j \in 1..m)
  BY <1>1
<1> QED BY <1>3, <1>4, <1>5, <1>6, <1>7

-----------------------------------------------------------------------------
(* Frames in order *)

\* The frames on the marshalling strand came in time.
MarshalledTolerable ==
    \A i \in 1..Len(marshalling_strand) :
        Tolerable(stream, marshalling_strand[i], arrived \ Onward(marshalling_strand, i))

\* So did those on the strands of the flows.
PostedTolerable ==
    \A w \in Flows : \A i \in 1..Len(flow_strand[w]) :
        Tolerable(stream, flow_strand[w][i],
                  arrived \ (Onward(marshalling_strand, 1) \cup Onward(flow_strand[w], i)))

\* Every flow has written its first messages and collects the next one.
FlowsProgress ==
    \A w \in Flows : Progress(stream, w, Done(stream, written, w),
                              TransportFlows[w].frag_q, TransportFlows[w].pNextFrame)

\* The inductive invariant for the order.
OrderInv ==
    orderly /\ lost = {} =>
        /\ MarshalledTolerable /\ PostedTolerable /\ FlowsProgress
        /\ InOrder(stream, written)

\* What the places say of the sequences.
LEMMA PlacedSays ==
    ASSUME FragInv, NEW pl, Placed(pl)
    PROVE  /\ stream \in Streams /\ Frames = DOMAIN stream /\ arrived \subseteq Frames
           /\ marshalling_strand \in Seq(Frames) /\ written \in Seq(Frames)
           /\ \A w \in Flows : flow_strand[w] \in Seq(Frames)
           /\ \A g : g \in Onward(marshalling_strand, 1) <=> g \in At(pl, "marshalled")
           /\ \A w \in Flows : \A g : g \in Onward(flow_strand[w], 1) <=> g \in AtFlow(pl, "posted", w)
           /\ \A w : Done(stream, written, w) = AtFlow(pl, "written", w)
<1>1. Typed
  BY DEF FragInv
<1>2. stream \in Streams /\ Frames = DOMAIN stream /\ arrived \subseteq Frames
  BY <1>1 DEF Typed, Frames
<1>3. /\ At(pl, "marshalled") \subseteq Frames /\ At(pl, "written") \subseteq Frames
      /\ \A w : AtFlow(pl, "posted", w) \subseteq Frames
  BY DEF At, AtFlow
<1>4. /\ Lists(marshalling_strand, At(pl, "marshalled")) /\ Lists(written, At(pl, "written"))
      /\ \A w \in Flows : Lists(flow_strand[w], AtFlow(pl, "posted", w))
  BY DEF Placed
<1>5. ASSUME NEW s, NEW S, S \subseteq Frames, Lists(s, S)
      PROVE  /\ s \in Seq(Frames)
             /\ \A g : g \in Onward(s, 1) <=> g \in S
             /\ \A g : g \in S <=> \E i \in 1..Len(s) : s[i] = g
  <2>1. s \in Seq(S)
    BY <1>5 DEF Lists
  <2>2. s \in Seq(Frames)
    BY <1>5, <2>1
  <2>3. \A g : g \in S <=> \E i \in 1..Len(s) : s[i] = g
    BY <1>5, <2>1 DEF Lists
  <2>4. \A g : g \in Onward(s, 1) <=> \E i \in 1..Len(s) : s[i] = g
    BY DEF Onward
  <2> QED BY <2>2, <2>3, <2>4
<1>6. /\ marshalling_strand \in Seq(Frames)
      /\ \A g : g \in Onward(marshalling_strand, 1) <=> g \in At(pl, "marshalled")
  BY <1>3, <1>4, <1>5
<1>7. /\ written \in Seq(Frames)
      /\ \A g : g \in At(pl, "written") <=> \E i \in 1..Len(written) : written[i] = g
  BY <1>3, <1>4, <1>5
<1>8. ASSUME NEW w \in Flows
      PROVE  /\ flow_strand[w] \in Seq(Frames)
             /\ \A g : g \in Onward(flow_strand[w], 1) <=> g \in AtFlow(pl, "posted", w)
  <2>1. Lists(flow_strand[w], AtFlow(pl, "posted", w))
    BY <1>4
  <2> QED BY <1>3, <1>5, <2>1
<1>9. ASSUME NEW w PROVE Done(stream, written, w) = AtFlow(pl, "written", w)
  <2>1. \A g : g \in Done(stream, written, w) <=> (g \in Frames /\ flow(g) = w /\ g \in At(pl, "written"))
    BY <1>2, <1>7 DEF Done, flow
  <2>2. \A g : g \in AtFlow(pl, "written", w) <=> (g \in Frames /\ flow(g) = w /\ g \in At(pl, "written"))
    BY DEF At, AtFlow
  <2> QED BY <2>1, <2>2
<1> QED BY <1>2, <1>6, <1>7, <1>8, <1>9

\* What the handler of a flow finds.
LEMMA TakesHead ==
    ASSUME FragInv, OrderInv, orderly, lost = {}, NEW w \in Flows, flow_strand[w] # <<>>
    PROVE  Takes(w, Done(stream, written, w), TransportFlows[w], Head(flow_strand[w]))
<1>1. PICK pl : Placed(pl)
  BY DEF FragInv
<1>2. Typed /\ Booked
  BY DEF FragInv
<1>3. PICK f, fl, D : /\ f = Head(flow_strand[w]) /\ fl = TransportFlows[w]
                      /\ D = Done(stream, written, w)
  OBVIOUS
<1>4. /\ stream \in Streams /\ Frames = DOMAIN stream /\ arrived \subseteq Frames
      /\ flow_strand[w] \in Seq(Frames)
      /\ \A g : g \in Onward(marshalling_strand, 1) <=> g \in At(pl, "marshalled")
      /\ \A g : g \in Onward(flow_strand[w], 1) <=> g \in AtFlow(pl, "posted", w)
      /\ D = AtFlow(pl, "written", w)
  BY <1>1, <1>3, PlacedSays
<1>5. f \in AtFlow(pl, "posted", w)
  BY <1>1, <1>3, ListsTail DEF Placed
<1>6. fl.frag_q = AtFlow(pl, "queued", w) /\ Saved(fl) = AtFlow(pl, "next", w)
  BY <1>1, <1>3 DEF Placed
<1>7. fl \in FlowStates /\ Books(fl)
  BY <1>2, <1>3 DEF Typed, Booked
<1>8. /\ \A g \in D \cup Held(fl) \cup {f} : g \in Frames /\ flow(g) = w
      /\ f \notin D /\ f \notin Held(fl) /\ D \cap Held(fl) = {} /\ fl.frag_q \cap Saved(fl) = {}
  BY <1>4, <1>5, <1>6 DEF AtFlow, Held
<1>9. Progress(stream, w, D, fl.frag_q, fl.pNextFrame)
  BY <1>3 DEF OrderInv, FlowsProgress
<1>10. PICK A : A = arrived \ (Onward(marshalling_strand, 1) \cup Onward(flow_strand[w], 1))
  OBVIOUS
<1>11. Tolerable(stream, f, A)
  <2>1. 1 \in 1..Len(flow_strand[w]) /\ flow_strand[w][1] = f
    BY <1>3, <1>4
  <2> QED BY <1>10, <2>1 DEF OrderInv, PostedTolerable
<1>12. ASSUME NEW g \in Frames, flow(g) = w PROVE g \in A <=> g \in D \cup Held(fl)
  <2>1. pl[g] \in Place /\ (pl[g] # "away" <=> g \in arrived)
    BY <1>1 DEF Placed
  <2>2. g \in A <=> (pl[g] # "away" /\ pl[g] # "marshalled" /\ pl[g] # "posted")
    <3>1. g \in At(pl, "marshalled") <=> pl[g] = "marshalled"
      BY DEF At
    <3>2. g \in AtFlow(pl, "posted", w) <=> pl[g] = "posted"
      BY <1>12 DEF AtFlow
    <3> QED BY <1>4, <1>10, <2>1, <3>1, <3>2
  <2>3. g \in D \cup Held(fl) <=> (pl[g] = "written" \/ pl[g] = "queued" \/ pl[g] = "next")
    BY <1>4, <1>6, <1>12 DEF AtFlow, Held
  <2> QED BY <2>1, <2>2, <2>3 DEF Place
<1>13. Tolerable(stream, f, D \cup Held(fl))
  <2>1. A \subseteq DOMAIN stream /\ D \cup Held(fl) \subseteq DOMAIN stream
    BY <1>4, <1>8, <1>10
  <2>2. stream[f].flow = w
    BY <1>5 DEF AtFlow, flow
  <2>3. \A g \in DOMAIN stream : stream[g].flow = stream[f].flow => (g \in A <=> g \in D \cup Held(fl))
    BY <1>4, <1>12, <2>2 DEF flow
  <2> QED BY <1>11, <2>1, <2>3, TolerableSame
<1>14. Takes(w, D, fl, f)
  BY <1>7, <1>8, <1>9, <1>13 DEF Takes
<1> QED BY <1>3, <1>14

\* The handler of flow w takes a frame and writes the frames O, which go up from those the
\* flow has written.
LEMMA FlowOrder ==
    ASSUME FragInv, OrderInv, orderly, lost = {}, NEW w \in Flows, flow_strand[w] # <<>>,
           NEW O \in SUBSET Frames, \A g \in O : flow(g) = w, NEW out, Lists(out, O), Ascending(out),
           NEW D, D = Done(stream, written, w), \A d \in D, x \in O : d < x,
           NEW nf, Progress(stream, w, D \cup O, nf.frag_q, nf.pNextFrame),
           flow_strand' = [flow_strand EXCEPT ![w] = Tail(@)],
           TransportFlows' = [TransportFlows EXCEPT ![w] = nf],
           written' = written \o out,
           UNCHANGED <<stream, arrived, lost, marshalling_strand, orderly>>
    PROVE  OrderInv'
<1>1. PICK pl : Placed(pl)
  BY DEF FragInv
<1>2. /\ Frames = DOMAIN stream /\ written \in Seq(DOMAIN stream)
      /\ \A v \in Flows : flow_strand[v] \in Seq(Frames)
  BY <1>1, PlacedSays
<1>3. TransportFlows \in [Flows -> FlowStates] /\ flow_strand \in [Flows -> Seq(Frames)]
  BY DEF FragInv, Typed
<1>4. MarshalledTolerable /\ PostedTolerable /\ FlowsProgress /\ InOrder(stream, written)
  BY DEF OrderInv
<1>5. Adds(stream, written, w, O, out) /\ GoesUp(stream, written, w, O, out)
  <2>1. \A g \in O : stream[g].flow = w
    BY DEF flow
  <2> QED BY <1>2, <2>1 DEF Adds, GoesUp
<1>6. InOrder(stream, written')
  BY <1>4, <1>5, InOrderOn
<1>7. /\ Done(stream, written', w) = D \cup O
      /\ \A v : v # w => Done(stream, written', v) = Done(stream, written, v)
  <2>1. DoneGrows(stream, written, written', w, O)
    BY <1>5, DoneOn
  <2> QED BY <2>1 DEF DoneGrows
<1>8. ASSUME NEW v \in Flows
      PROVE  Progress(stream, v, Done(stream, written', v),
                      TransportFlows'[v].frag_q, TransportFlows'[v].pNextFrame)
  <2>1. CASE v = w
    <3>1. TransportFlows'[v] = nf
      BY <1>3, <2>1
    <3> QED BY <1>7, <2>1, <3>1
  <2>2. CASE v # w
    <3>1. TransportFlows'[v] = TransportFlows[v]
      BY <1>3, <2>2
    <3> QED BY <1>4, <1>7, <2>2, <3>1 DEF FlowsProgress
  <2> QED BY <2>1, <2>2
<1>9. FlowsProgress'
  BY <1>8 DEF FlowsProgress
<1>10. MarshalledTolerable'
  BY <1>4 DEF MarshalledTolerable
<1>11. ASSUME NEW v \in Flows, NEW i \in 1..Len(flow_strand'[v])
       PROVE  Tolerable(stream, flow_strand'[v][i],
                        arrived \ (Onward(marshalling_strand, 1) \cup Onward(flow_strand'[v], i)))
  <2>1. CASE v = w
    <3>1. flow_strand'[v] = Tail(flow_strand[w])
      BY <1>3, <2>1
    <3>2. /\ i + 1 \in 1..Len(flow_strand[w]) /\ flow_strand'[v][i] = flow_strand[w][i + 1]
          /\ Onward(flow_strand'[v], i) = Onward(flow_strand[w], i + 1)
      <4>1. PICK s, t : s = flow_strand[w] /\ t = flow_strand'[v]
        OBVIOUS
      <4>2. s \in Seq(Frames) /\ s # <<>> /\ t = Tail(s)
        BY <1>2, <3>1, <4>1
      <4>3. i \in 1..Len(t) /\ i \in Nat \ {0}
        BY <4>1
      <4>4. Shifted(s, t)
        BY <4>2, OnwardTail
      <4>5. i + 1 \in 1..Len(s) /\ t[i] = s[i + 1] /\ Onward(t, i) = Onward(s, i + 1)
        BY <4>3, <4>4 DEF Shifted
      <4> QED BY <4>1, <4>5
    <3> QED BY <1>4, <3>2 DEF PostedTolerable
  <2>2. CASE v # w
    <3>1. flow_strand'[v] = flow_strand[v]
      BY <1>3, <2>2
    <3> QED BY <1>4, <1>11, <3>1 DEF PostedTolerable
  <2> QED BY <2>1, <2>2
<1>12. PostedTolerable'
  BY <1>11 DEF PostedTolerable
<1> QED BY <1>6, <1>9, <1>10, <1>12 DEF OrderInv

\* The handler of a flow, for a fragment.
LEMMA FragmentOrder ==
    ASSUME FragInv, OrderInv, WellFormed(stream), NEW w \in Flows, HandleFragment(w)
    PROVE  OrderInv'
<1>1. /\ flow_strand[w] # <<>> /\ flow_strand' = [flow_strand EXCEPT ![w] = Tail(@)]
      /\ UNCHANGED <<stream, arrived, lost, marshalling_strand, orderly>>
      /\ isFragment(Head(flow_strand[w]))
  BY DEF HandleFragment
<1>2. CASE ~(orderly /\ lost = {})
  BY <1>1, <1>2 DEF OrderInv
<1>3. CASE orderly /\ lost = {}
  <2>1. PICK f, fl, D : /\ f = Head(flow_strand[w]) /\ fl = TransportFlows[w]
                        /\ D = Done(stream, written, w)
    OBVIOUS
  <2>2. stream \in Streams
    BY DEF FragInv, Typed
  <2>3. Takes(w, D, fl, f)
    BY <1>1, <1>3, <2>1, TakesHead
  <2>4. PICK nq : nq = Recorded(fl, f)
    OBVIOUS
  <2>5. /\ ~Duplicate(fl, f)
        /\ ~Complete(nq) => Progress(stream, w, D, nq.frag_q, nq.pNextFrame)
        /\ Complete(nq) => /\ Progress(stream, w, D \cup Held(nq), {}, NoFrame)
                           /\ \A out \in FlushOutputs(nq) : Ascending(out)
                           /\ \A d \in D, x \in Held(nq) : d < x
    BY <1>1, <2>1, <2>2, <2>3, <2>4, FragmentProgress
  <2>6. PICK before \in {<<>>}, after \in IF Complete(nq) THEN FlushOutputs(nq) ELSE {<<>>} :
          /\ written' = written \o before \o after
          /\ TransportFlows' = [TransportFlows EXCEPT ![w] = IF Complete(nq) THEN Flushed(nq) ELSE nq]
    BY <2>1, <2>4, <2>5 DEF HandleFragment
  <2>7. written \o before = written
    <3>1. written \in Seq(Frames)
      BY PlacedSays DEF FragInv
    <3> QED BY <2>6, <3>1
  <2>8. CASE ~Complete(nq)
    <3>1. written' = written \o <<>> /\ TransportFlows' = [TransportFlows EXCEPT ![w] = nq]
      BY <2>6, <2>7, <2>8
    <3>2. Ascending(<<>>)
      BY DEF Ascending
    <3>3. PICK O : O = {}
      OBVIOUS
    <3>4. /\ Lists(<<>>, O) /\ O \in SUBSET Frames /\ \A g \in O : flow(g) = w
          /\ D \cup O = D /\ \A d \in D, x \in O : d < x
      BY <3>3, ListsNothing
    <3>5. Progress(stream, w, D \cup O, nq.frag_q, nq.pNextFrame)
      BY <2>5, <2>8, <3>4
    <3> QED BY <1>1, <1>3, <2>1, <3>1, <3>2, <3>4, <3>5, FlowOrder
  <2>9. CASE Complete(nq)
    <3>1. /\ after \in FlushOutputs(nq) /\ written' = written \o after
          /\ TransportFlows' = [TransportFlows EXCEPT ![w] = Flushed(nq)]
      BY <2>6, <2>7, <2>9
    <3>2. /\ fl \in FlowStates /\ Books(fl)
          /\ \A g \in D \cup Held(fl) \cup {f} : g \in Frames /\ flow(g) = w
          /\ f \notin Held(fl) /\ fl.frag_q \cap Saved(fl) = {}
      BY <2>3 DEF Takes
    <3>3. nq \in FlowStates /\ nq.frag_q = fl.frag_q \cup {f} /\ nq.pNextFrame = fl.pNextFrame
      BY <2>2, <2>4, <2>5, <3>2, RecordedBooks
    <3>4. Held(nq) = Held(fl) \cup {f} /\ nq.frag_q \cap Saved(nq) = {}
      BY <3>2, <3>3 DEF Held, Saved
    <3>5. Lists(after, Held(nq))
      BY <2>2, <3>1, <3>3, <3>4, FlushWritesHeld
    <3>6. PICK O : O = Held(nq)
      OBVIOUS
    <3>7. O \in SUBSET Frames /\ \A g \in O : flow(g) = w
      BY <3>2, <3>4, <3>6
    <3>8. PICK nf : nf = Flushed(nq)
      OBVIOUS
    <3>9. nf.frag_q = {} /\ nf.pNextFrame = NoFrame
      BY <3>3, <3>8, FlushedBooks
    <3>10. Progress(stream, w, D \cup O, nf.frag_q, nf.pNextFrame) /\ Ascending(after)
           /\ \A d \in D, x \in O : d < x
      BY <2>5, <2>9, <3>1, <3>6, <3>9
    <3> QED BY <1>1, <1>3, <2>1, <3>1, <3>5, <3>6, <3>7, <3>8, <3>10, FlowOrder
  <2> QED BY <2>8, <2>9
<1> QED BY <1>2, <1>3

\* The handler of a flow, for a whole message.
LEMMA WholeOrder ==
    ASSUME FragInv, OrderInv, WellFormed(stream), NEW w \in Flows, HandleWhole(w)
    PROVE  OrderInv'
<1>1. /\ flow_strand[w] # <<>> /\ flow_strand' = [flow_strand EXCEPT ![w] = Tail(@)]
      /\ UNCHANGED <<stream, arrived, lost, marshalling_strand, orderly>>
      /\ ~isFragment(Head(flow_strand[w]))
  BY DEF HandleWhole
<1>2. CASE ~(orderly /\ lost = {})
  BY <1>1, <1>2 DEF OrderInv
<1>3. CASE orderly /\ lost = {}
  <2>1. PICK f, fl, D : /\ f = Head(flow_strand[w]) /\ fl = TransportFlows[w]
                        /\ D = Done(stream, written, w)
    OBVIOUS
  <2>2. stream \in Streams /\ TransportFlows \in [Flows -> FlowStates] /\ written \in Seq(Frames)
    BY PlacedSays DEF FragInv, Typed
  <2>3. Takes(w, D, fl, f)
    BY <1>1, <1>3, <2>1, TakesHead
  <2>4. /\ fl.pNextFrame = NoFrame
        /\ fl.frag_q = {} => /\ Progress(stream, w, D \cup {f}, {}, NoFrame)
                             /\ \A d \in D : d < f
        /\ fl.frag_q # {} => Progress(stream, w, D, fl.frag_q, f)
    BY <1>1, <2>1, <2>2, <2>3, WholeProgress
  <2>5. f \in Frames /\ flow(f) = w /\ fl \in FlowStates
    BY <2>3 DEF Takes
  <2>6. CASE fl.frag_q # {}
    <3>1. PICK nf : nf = [fl EXCEPT !.pNextFrame = f]
      OBVIOUS
    <3>2. nf.frag_q = fl.frag_q /\ nf.pNextFrame = f
      BY <2>5, <3>1 DEF FlowStates
    <3>3. written' = written /\ TransportFlows' = [TransportFlows EXCEPT ![w].pNextFrame = f]
      BY <2>1, <2>4, <2>6 DEF HandleWhole
    <3>4. written' = written \o <<>> /\ TransportFlows' = [TransportFlows EXCEPT ![w] = nf]
      BY <2>1, <2>2, <3>1, <3>3
    <3>5. Ascending(<<>>)
      BY DEF Ascending
    <3>6. PICK O : O = {}
      OBVIOUS
    <3>7. /\ Lists(<<>>, O) /\ O \in SUBSET Frames /\ \A g \in O : flow(g) = w
          /\ D \cup O = D /\ \A d \in D, x \in O : d < x
      BY <3>6, ListsNothing
    <3>8. Progress(stream, w, D \cup O, nf.frag_q, nf.pNextFrame)
      BY <2>4, <2>6, <3>2, <3>7
    <3> QED BY <1>1, <1>3, <2>1, <3>4, <3>5, <3>7, <3>8, FlowOrder
  <2>7. CASE fl.frag_q = {}
    <3>1. written' = Append(written, f) /\ TransportFlows' = TransportFlows
      BY <2>1, <2>4, <2>7 DEF HandleWhole
    <3>2. written' = written \o <<f>> /\ TransportFlows' = [TransportFlows EXCEPT ![w] = fl]
      BY <2>1, <2>2, <2>5, <3>1
    <3>3. Ascending(<<f>>)
      BY DEF Ascending
    <3>4. PICK O : O = {f}
      OBVIOUS
    <3>5. Lists(<<f>>, O) /\ O \in SUBSET Frames /\ \A g \in O : flow(g) = w
      BY <2>5, <3>4, ListsOne
    <3>6. /\ Progress(stream, w, D \cup O, fl.frag_q, fl.pNextFrame)
          /\ \A d \in D, x \in O : d < x
      BY <2>4, <2>7, <3>4
    <3> QED BY <1>1, <1>3, <2>1, <3>2, <3>3, <3>5, <3>6, FlowOrder
  <2> QED BY <2>6, <2>7
<1> QED BY <1>2, <1>3

\* The frames on the strands belong to flows.
LEMMA StrandFlows ==
    ASSUME FragInv
    PROVE  /\ \A i \in 1..Len(marshalling_strand) :
                marshalling_strand[i] \in Frames /\ flow(marshalling_strand[i]) \in Flows
           /\ \A w \in Flows : \A i \in 1..Len(flow_strand[w]) :
                flow_strand[w][i] \in Frames /\ flow(flow_strand[w][i]) = w
<1>1. PICK pl : Placed(pl)
  BY DEF FragInv
<1>2. marshalling_strand \in Seq(At(pl, "marshalled"))
  BY <1>1 DEF Placed, Lists
<1>3. ASSUME NEW i \in 1..Len(marshalling_strand)
      PROVE  marshalling_strand[i] \in Frames /\ flow(marshalling_strand[i]) \in Flows
  <2>1. marshalling_strand[i] \in At(pl, "marshalled")
    BY <1>2
  <2> QED BY <1>1, <2>1 DEF Placed, At
<1>4. ASSUME NEW w \in Flows, NEW i \in 1..Len(flow_strand[w])
      PROVE  flow_strand[w][i] \in Frames /\ flow(flow_strand[w][i]) = w
  <2>1. flow_strand[w] \in Seq(AtFlow(pl, "posted", w))
    BY <1>1 DEF Placed, Lists
  <2>2. flow_strand[w][i] \in AtFlow(pl, "posted", w)
    BY <2>1
  <2> QED BY <2>2 DEF AtFlow
<1> QED BY <1>3, <1>4

\* Unframed data is written at once.
LEMMA UnframedOrder ==
    ASSUME FragInv, OrderInv, orderly, lost = {}, NEW g \in Frames, HandleFrame(g), flow(g) = Unframed
    PROVE  OrderInv'
<1>1. PICK pl : Placed(pl)
  BY DEF FragInv
<1>2. /\ stream \in Streams /\ Frames = DOMAIN stream /\ arrived \subseteq DOMAIN stream
      /\ written \in Seq(DOMAIN stream)
  BY <1>1, PlacedSays
<1>3. /\ stream' = stream /\ lost' = lost /\ flow_strand' = flow_strand
      /\ TransportFlows' = TransportFlows /\ arrived' = arrived \cup {g}
      /\ marshalling_strand' = marshalling_strand /\ orderly' = orderly
      /\ written' = Append(written, g)
  BY DEF HandleFrame
<1>4. MarshalledTolerable /\ PostedTolerable /\ FlowsProgress /\ InOrder(stream, written)
  BY DEF OrderInv
<1>5. PICK O : O = {g}
  OBVIOUS
<1>6. Adds(stream, written, Unframed, O, <<g>>) /\ GoesUp(stream, written, Unframed, O, <<g>>)
  <2>1. Lists(<<g>>, O) /\ \A h \in O : stream[h].flow = Unframed
    BY <1>5, ListsOne DEF flow
  <2> QED BY <1>2, <1>5, <2>1 DEF Adds, GoesUp
<1>7. written' = written \o <<g>>
  BY <1>2, <1>3
<1>8. InOrder(stream, written')
  BY <1>4, <1>6, <1>7, InOrderOn
<1>9. FlowsProgress'
  <2>1. DoneGrows(stream, written, written', Unframed, O)
    BY <1>6, <1>7, DoneOn
  <2>2. \A v \in Flows : Done(stream, written', v) = Done(stream, written, v)
    BY <2>1, FlowsAssumption DEF DoneGrows
  <2> QED BY <1>3, <1>4, <2>2 DEF FlowsProgress
<1>10. ASSUME NEW f \in Frames, flow(f) \in Flows, NEW X, Tolerable(stream, f, arrived \ X)
       PROVE  Tolerable(stream, f, arrived' \ X)
  <2>1. PICK A, B : A = arrived \ X /\ B = arrived' \ X
    OBVIOUS
  <2>2. A \subseteq DOMAIN stream /\ B \subseteq DOMAIN stream
    BY <1>2, <1>3, <2>1
  <2>3. stream[f].flow # stream[g].flow
    BY <1>10, FlowsAssumption DEF flow
  <2>4. \A h \in DOMAIN stream : stream[h].flow = stream[f].flow => (h \in A <=> h \in B)
    BY <1>3, <2>1, <2>3
  <2>5. Tolerable(stream, f, A)
    BY <1>10, <2>1
  <2> QED BY <2>1, <2>2, <2>4, <2>5, TolerableSame
<1>11. MarshalledTolerable'
  <2>1. \A i \in 1..Len(marshalling_strand) :
          Tolerable(stream, marshalling_strand[i], arrived' \ Onward(marshalling_strand, i))
    BY <1>4, <1>10, StrandFlows DEF MarshalledTolerable
  <2> QED BY <1>3, <2>1 DEF MarshalledTolerable
<1>12. PostedTolerable'
  <2>1. \A w \in Flows : \A i \in 1..Len(flow_strand[w]) :
          Tolerable(stream, flow_strand[w][i],
                    arrived' \ (Onward(marshalling_strand, 1) \cup Onward(flow_strand[w], i)))
    BY <1>4, <1>10, StrandFlows DEF PostedTolerable
  <2> QED BY <1>3, <2>1 DEF PostedTolerable
<1> QED BY <1>3, <1>8, <1>9, <1>11, <1>12 DEF OrderInv

\* A frame of a flow is posted to the marshalling strand.
LEMMA FramedOrder ==
    ASSUME FragInv, OrderInv, orderly, lost = {}, NEW g \in Frames, HandleFrame(g), flow(g) # Unframed,
           orderly'
    PROVE  OrderInv'
<1>1. PICK pl : Placed(pl)
  BY DEF FragInv
<1>2. marshalling_strand \in Seq(Frames) /\ Frames = DOMAIN stream
  BY <1>1, PlacedSays
<1>3. /\ stream' = stream /\ lost' = lost /\ flow_strand' = flow_strand
      /\ TransportFlows' = TransportFlows /\ arrived' = arrived \cup {g} /\ g \notin arrived
      /\ marshalling_strand' = Append(marshalling_strand, g)
      /\ written' = written /\ Tolerated(g)
  BY DEF HandleFrame
<1>4. MarshalledTolerable /\ PostedTolerable /\ FlowsProgress /\ InOrder(stream, written)
  BY DEF OrderInv
<1>5. Tolerable(stream, g, arrived)
  BY <1>2, <1>3 DEF Tolerated, Tolerable, flow, isFragment, fir, fin
<1>6. PICK s, t : s = marshalling_strand /\ t = marshalling_strand'
  OBVIOUS
<1>7. Extended(s, g, t)
  <2>1. s \in Seq(Frames) /\ t = Append(s, g)
    BY <1>2, <1>3, <1>6
  <2> QED BY <2>1, OnwardAppend
<1>8. \A X, Y : Y = X \cup {g} => arrived' \ Y = arrived \ X
  BY <1>3
<1>9. ASSUME NEW i \in 1..Len(t) PROVE Tolerable(stream, t[i], arrived' \ Onward(t, i))
  <2>1. CASE i \in 1..Len(s)
    <3>1. t[i] = s[i] /\ Onward(t, i) = Onward(s, i) \cup {g}
      <4>1. Len(s) \in Nat /\ i \in 1..(Len(s) + 1)
        BY <1>7, <2>1 DEF Extended
      <4> QED BY <1>7, <2>1, <4>1 DEF Extended
    <3>2. arrived' \ Onward(t, i) = arrived \ Onward(s, i)
      BY <1>8, <3>1
    <3> QED BY <1>4, <1>6, <2>1, <3>1, <3>2 DEF MarshalledTolerable
  <2>2. CASE i = Len(s) + 1
    <3>1. t[i] = g /\ Onward(t, i) = {g}
      BY <1>7, <2>2 DEF Extended
    <3>2. arrived' \ Onward(t, i) = arrived
      BY <1>3, <3>1
    <3> QED BY <1>5, <3>1, <3>2
  <2>3. Len(s) \in Nat /\ Len(t) = Len(s) + 1
    BY <1>7 DEF Extended
  <2> QED BY <2>1, <2>2, <2>3
<1>10. MarshalledTolerable'
  BY <1>3, <1>6, <1>9 DEF MarshalledTolerable
<1>11. Onward(t, 1) = Onward(s, 1) \cup {g}
  <2>1. 1 \in 1..(Len(s) + 1)
    BY <1>7 DEF Extended
  <2> QED BY <1>7, <2>1 DEF Extended
<1>12. ASSUME NEW w \in Flows, NEW i \in 1..Len(flow_strand[w])
       PROVE  Tolerable(stream, flow_strand[w][i], arrived' \ (Onward(t, 1) \cup Onward(flow_strand[w], i)))
  <2>1. PICK P : P = Onward(flow_strand[w], i)
    OBVIOUS
  <2>2. Onward(t, 1) \cup P = (Onward(s, 1) \cup P) \cup {g}
    BY <1>11
  <2>3. arrived' \ (Onward(t, 1) \cup P) = arrived \ (Onward(s, 1) \cup P)
    BY <1>8, <2>2
  <2>4. Tolerable(stream, flow_strand[w][i], arrived \ (Onward(s, 1) \cup P))
    BY <1>4, <1>6, <2>1 DEF PostedTolerable
  <2> QED BY <2>1, <2>3, <2>4
<1>13. PostedTolerable'
  BY <1>3, <1>6, <1>12 DEF PostedTolerable
<1>14. FlowsProgress' /\ InOrder(stream, written)'
  BY <1>3, <1>4 DEF FlowsProgress
<1> QED BY <1>10, <1>13, <1>14 DEF OrderInv

\* The marshalling strand posts a frame to the strand of its flow.
LEMMA MarshalOrder ==
    ASSUME FragInv, OrderInv, orderly, lost = {}, Marshal
    PROVE  OrderInv'
<1>1. PICK pl : Placed(pl)
  BY DEF FragInv
<1>2. PICK g, w, s, t : /\ s = marshalling_strand /\ t = marshalling_strand'
                        /\ g = Head(s) /\ w = flow(g)
  OBVIOUS
<1>3. /\ stream' = stream /\ arrived' = arrived /\ lost' = lost /\ TransportFlows' = TransportFlows
      /\ written' = written /\ orderly' = orderly
      /\ s # <<>> /\ t = Tail(s)
      /\ flow_strand' = [flow_strand EXCEPT ![w] = Append(@, g)]
  BY <1>2 DEF Marshal
<1>4. MarshalledTolerable /\ PostedTolerable /\ FlowsProgress /\ InOrder(stream, written)
  BY DEF OrderInv
<1>5. /\ s \in Seq(Frames) /\ Frames = DOMAIN stream /\ arrived \subseteq DOMAIN stream
      /\ \A v \in Flows : flow_strand[v] \in Seq(Frames)
      /\ flow_strand \in [Flows -> Seq(Frames)]
  <2>1. flow_strand \in [Flows -> Seq(Frames)]
    BY DEF FragInv, Typed
  <2> QED BY <1>1, <1>2, <2>1, PlacedSays
<1>6. Shifted(s, t)
  BY <1>3, <1>5, OnwardTail
<1>7. /\ 1 \in 1..Len(s) /\ s[1] = g /\ Onward(s, 1) = Onward(t, 1) \cup {g}
  BY <1>2, <1>6 DEF Shifted
<1>8. g \in Frames /\ w \in Flows
  BY <1>2, <1>7, StrandFlows
<1>9. Tolerable(stream, g, arrived \ Onward(s, 1))
  BY <1>2, <1>4, <1>7 DEF MarshalledTolerable
<1>10. ASSUME NEW i \in 1..Len(t) PROVE Tolerable(stream, t[i], arrived \ Onward(t, i))
  <2>1. i + 1 \in 1..Len(s) /\ t[i] = s[i + 1] /\ Onward(t, i) = Onward(s, i + 1)
    <3>1. i \in Nat \ {0}
      OBVIOUS
    <3> QED BY <1>6, <3>1 DEF Shifted
  <2> QED BY <1>2, <1>4, <2>1 DEF MarshalledTolerable
<1>11. MarshalledTolerable'
  BY <1>2, <1>3, <1>10 DEF MarshalledTolerable
<1>12. ASSUME NEW v \in Flows, NEW i \in 1..Len(flow_strand'[v])
       PROVE  Tolerable(stream, flow_strand'[v][i],
                        arrived \ (Onward(t, 1) \cup Onward(flow_strand'[v], i)))
  <2>1. PICK a, b : a = flow_strand[v] /\ b = flow_strand'[v]
    OBVIOUS
  <2>2. \A j \in 1..Len(a) : Tolerable(stream, a[j], arrived \ (Onward(s, 1) \cup Onward(a, j)))
    BY <1>2, <1>4, <2>1 DEF PostedTolerable
  <2>3. CASE v = w
    <3>1. b = Append(a, g) /\ a \in Seq(Frames)
      BY <1>3, <1>5, <2>1, <2>3
    <3>2. Extended(a, g, b)
      BY <3>1, OnwardAppend
    <3>3. CASE i \in 1..Len(a)
      <4>1. b[i] = a[i] /\ Onward(b, i) = Onward(a, i) \cup {g}
        <5>1. Len(a) \in Nat /\ i \in 1..(Len(a) + 1)
          BY <3>2, <3>3 DEF Extended
        <5> QED BY <3>2, <3>3, <5>1 DEF Extended
      <4>2. Onward(t, 1) \cup Onward(b, i) = Onward(s, 1) \cup Onward(a, i)
        BY <1>7, <4>1
      <4> QED BY <2>1, <2>2, <3>3, <4>1, <4>2
    <3>4. CASE i = Len(a) + 1
      <4>1. b[i] = g /\ Onward(b, i) = {g}
        BY <3>2, <3>4 DEF Extended
      <4>2. Onward(t, 1) \cup Onward(b, i) = Onward(s, 1)
        BY <1>7, <4>1
      <4> QED BY <1>9, <2>1, <4>1, <4>2
    <3>5. i \in 1..Len(b) /\ Len(a) \in Nat /\ Len(b) = Len(a) + 1
      BY <2>1, <3>2 DEF Extended
    <3> QED BY <3>3, <3>4, <3>5
  <2>4. CASE v # w
    <3>1. b = a
      BY <1>3, <1>5, <2>1, <2>4
    <3>2. a[i] \in Frames /\ flow(a[i]) = v /\ i \in 1..Len(a)
      BY <2>1, <3>1, StrandFlows
    <3>3. PICK A, B : /\ A = arrived \ (Onward(s, 1) \cup Onward(a, i))
                      /\ B = arrived \ (Onward(t, 1) \cup Onward(a, i))
      OBVIOUS
    <3>4. A \subseteq DOMAIN stream /\ B \subseteq DOMAIN stream
      BY <1>5, <3>3
    <3>5. stream[a[i]].flow # stream[g].flow
      BY <1>2, <2>4, <3>2 DEF flow
    <3>6. \A h \in DOMAIN stream : stream[h].flow = stream[a[i]].flow => (h \in A <=> h \in B)
      BY <1>7, <3>3, <3>5
    <3>7. Tolerable(stream, a[i], A)
      BY <2>2, <3>2, <3>3
    <3>8. Tolerable(stream, a[i], B)
      BY <3>4, <3>6, <3>7, TolerableSame
    <3> QED BY <2>1, <3>1, <3>3, <3>8
  <2> QED BY <2>3, <2>4
<1>13. PostedTolerable'
  BY <1>2, <1>3, <1>12 DEF PostedTolerable
<1>14. FlowsProgress' /\ InOrder(stream, written)'
  BY <1>3, <1>4 DEF FlowsProgress
<1> QED BY <1>11, <1>13, <1>14 DEF OrderInv

\* At the start nothing is on a strand and no flow holds or has written anything.
LEMMA OrderInit == Init => OrderInv
<1> SUFFICES ASSUME Init PROVE OrderInv
  OBVIOUS
<1>1. /\ marshalling_strand = <<>> /\ written = <<>>
      /\ \A w \in Flows : flow_strand[w] = <<>> /\ TransportFlows[w].frag_q = {}
  BY DEF Init, TransportFlow
<1>2. MarshalledTolerable /\ PostedTolerable /\ InOrder(stream, written)
  BY <1>1 DEF MarshalledTolerable, PostedTolerable, InOrder
<1>3. \A w : Done(stream, written, w) = {}
  BY <1>1 DEF Done
<1>4. FlowsProgress
  BY <1>1, <1>3 DEF FlowsProgress, Progress
<1> QED BY <1>2, <1>4 DEF OrderInv

\* Every step keeps the order.
LEMMA OrderStep ==
    ASSUME \A s \in Streams : WellFormed(s), FragInv, OrderInv, [Next]_vars
    PROVE  OrderInv'
<1>1. WellFormed(stream)
  BY DEF FragInv, Typed
<1>2. ASSUME NEW f \in Frames, HandleFrame(f) PROVE OrderInv'
  <2>1. lost' = lost /\ (orderly' => orderly)
    BY <1>2 DEF HandleFrame
  <2>2. CASE orderly' /\ lost' = {}
    <3>1. orderly /\ lost = {}
      BY <2>1, <2>2
    <3>2. CASE flow(f) = Unframed
      BY <1>2, <3>1, <3>2, UnframedOrder
    <3>3. CASE flow(f) # Unframed
      BY <1>2, <2>2, <3>1, <3>3, FramedOrder
    <3> QED BY <3>2, <3>3
  <2>3. CASE ~(orderly' /\ lost' = {})
    BY <2>3 DEF OrderInv
  <2> QED BY <2>2, <2>3
<1>3. ASSUME NEW f \in Frames, Lose(f) PROVE OrderInv'
  <2>1. lost' # {}
    BY <1>3 DEF Lose
  <2> QED BY <2>1 DEF OrderInv
<1>4. CASE Marshal
  <2>1. lost' = lost /\ orderly' = orderly
    BY <1>4 DEF Marshal
  <2>2. CASE orderly /\ lost = {}
    BY <1>4, <2>2, MarshalOrder
  <2>3. CASE ~(orderly /\ lost = {})
    BY <2>1, <2>3 DEF OrderInv
  <2> QED BY <2>2, <2>3
<1>5. ASSUME NEW w \in Flows, HandleFragment(w) PROVE OrderInv'
  BY <1>1, <1>5, FragmentOrder
<1>6. ASSUME NEW w \in Flows, HandleWhole(w) PROVE OrderInv'
  BY <1>1, <1>6, WholeOrder
<1>7. CASE UNCHANGED vars
  <2>1. /\ stream' = stream /\ flow_strand' = flow_strand /\ TransportFlows' = TransportFlows
        /\ marshalling_strand' = marshalling_strand /\ written' = written /\ orderly' = orderly
        /\ arrived' = arrived /\ lost' = lost
    BY <1>7 DEF vars
  <2>2. /\ MarshalledTolerable' = MarshalledTolerable /\ PostedTolerable' = PostedTolerable
        /\ FlowsProgress' = FlowsProgress
    BY <2>1 DEF MarshalledTolerable, PostedTolerable, FlowsProgress
  <2> QED BY <2>1, <2>2 DEF OrderInv
<1> QED BY <1>2, <1>3, <1>4, <1>5, <1>6, <1>7 DEF Next

\* When all have arrived and the strands are empty, no flow holds anything.
LEMMA NothingHeld ==
    ASSUME FragInv, OrderInv, orderly, lost = {}, NEW pl, Placed(pl),
           arrived = Frames, marshalling_strand = <<>>, \A w \in Flows : flow_strand[w] = <<>>
    PROVE  At(pl, "written") = Frames
<1>1. stream \in Streams /\ Booked /\ TransportFlows \in [Flows -> FlowStates]
  BY DEF FragInv, Typed
<1>2. \A f \in Frames : /\ pl[f] \in Place \ {"away"}
                        /\ pl[f] # "written" => flow(f) \in Flows
  BY DEF Placed
<1>3. \A f \in Frames : pl[f] # "marshalled"
  <2>1. Lists(<<>>, At(pl, "marshalled"))
    BY DEF Placed
  <2>2. At(pl, "marshalled") = {}
    BY <2>1 DEF Lists
  <2> QED BY <2>2 DEF At
<1>4. \A f \in Frames : pl[f] # "posted"
  <2> SUFFICES ASSUME NEW f \in Frames, pl[f] = "posted" PROVE FALSE
    OBVIOUS
  <2>1. PICK w : w = flow(f) /\ w \in Flows
    BY <1>2
  <2>2. Lists(<<>>, AtFlow(pl, "posted", w))
    BY <2>1 DEF Placed
  <2>3. AtFlow(pl, "posted", w) = {}
    BY <2>2 DEF Lists
  <2> QED BY <2>1, <2>3 DEF AtFlow
<1>5. ASSUME NEW w \in Flows PROVE TransportFlows[w].frag_q = {} /\ Saved(TransportFlows[w]) = {}
  <2>1. PICK fl, q, p, D : /\ fl = TransportFlows[w] /\ q = fl.frag_q /\ p = fl.pNextFrame
                           /\ D = Done(stream, written, w)
    OBVIOUS
  <2>2. /\ q = AtFlow(pl, "queued", w) /\ Saved(fl) = AtFlow(pl, "next", w)
        /\ D = AtFlow(pl, "written", w)
    BY <2>1, PlacedSays DEF Placed
  <2>3. Progress(stream, w, D, q, p)
    BY <2>1 DEF OrderInv, FlowsProgress
  <2>4. q = {}
    <3> SUFFICES ASSUME NEW k \in q PROVE FALSE
      OBVIOUS
    <3>1. k \in Frames /\ flow(k) = w
      BY <2>2 DEF AtFlow
    <3>2. /\ Msg(k) \cap D = {} /\ q \subseteq Msg(k) /\ q # Msg(k)
          /\ p # NoFrame => \A g \in Msg(k) : g < p
      BY <2>3 DEF Progress, Msg
    <3>3. PICK x \in Msg(k) : x \notin q
      BY <3>2
    <3>4. x \in Frames /\ flow(x) = w /\ x \in Nat
      BY <1>1, <3>1, MsgBasics
    <3>5. pl[x] # "queued" /\ pl[x] # "written"
      BY <2>2, <3>2, <3>3, <3>4 DEF AtFlow
    <3>6. pl[x] # "next"
      <4> SUFFICES ASSUME pl[x] = "next" PROVE FALSE
        OBVIOUS
      <4>1. x \in Saved(fl)
        BY <2>2, <3>4 DEF AtFlow
      <4>2. x = p /\ p # NoFrame
        BY <2>1, <4>1 DEF Saved
      <4>3. x < x
        BY <3>2, <4>2
      <4> QED BY <3>4, <4>3
    <3>7. pl[x] \in Place \ {"away"} /\ pl[x] # "marshalled" /\ pl[x] # "posted"
      BY <1>2, <1>3, <1>4, <3>4
    <3> QED BY <3>5, <3>6, <3>7 DEF Place
  <2>5. p = NoFrame
    BY <1>1, <2>1, <2>4 DEF Booked, Books
  <2> QED BY <2>1, <2>4, <2>5 DEF Saved
<1>6. \A f \in Frames : pl[f] # "queued" /\ pl[f] # "next"
  <2> SUFFICES ASSUME NEW f \in Frames, pl[f] = "queued" \/ pl[f] = "next" PROVE FALSE
    OBVIOUS
  <2>1. PICK w : w = flow(f) /\ w \in Flows
    BY <1>2
  <2>2. AtFlow(pl, "queued", w) = {} /\ AtFlow(pl, "next", w) = {}
    BY <1>5, <2>1 DEF Placed
  <2> QED BY <2>1, <2>2 DEF AtFlow
<1>7. \A f \in Frames : pl[f] = "written"
  BY <1>2, <1>3, <1>4, <1>6 DEF Place
<1> QED BY <1>7 DEF At

\* The invariant implies the property.
LEMMA OrderSays == FragInv /\ OrderInv => FlowsInOrder
<1> SUFFICES ASSUME FragInv, OrderInv, orderly, lost = {}
             PROVE  /\ \A i, j \in DOMAIN written :
                         i < j /\ flow(written[i]) = flow(written[j]) /\ flow(written[i]) # Unframed
                           => written[i] < written[j]
                    /\ arrived = Frames /\ marshalling_strand = <<>> /\ (\A w \in Flows : flow_strand[w] = <<>>)
                         => Len(written) = Len(stream)
  BY DEF FlowsInOrder
<1>1. PICK pl : Placed(pl)
  BY DEF FragInv
<1>2. stream \in Streams /\ Frames = DOMAIN stream /\ written \in Seq(Frames)
  BY <1>1, PlacedSays
<1>3. \A i, j \in DOMAIN written :
         i < j /\ flow(written[i]) = flow(written[j]) /\ flow(written[i]) # Unframed
           => written[i] < written[j]
  <2>1. DOMAIN written = 1..Len(written)
    BY <1>2
  <2> QED BY <2>1 DEF OrderInv, InOrder, flow
<1>4. ASSUME arrived = Frames, marshalling_strand = <<>>, \A w \in Flows : flow_strand[w] = <<>>
      PROVE  Len(written) = Len(stream)
  <2>1. At(pl, "written") = Frames
    BY <1>1, <1>4, NothingHeld
  <2>2. Lists(written, Frames)
    BY <1>1, <2>1 DEF Placed
  <2>3. Cardinality(Frames) = Len(written)
    BY <2>2, ListsLength
  <2>4. stream \in Seq(FrameType) /\ Len(stream) \in Nat /\ Frames = 1..Len(stream)
    BY <1>2, StreamsAssumption
  <2>5. Cardinality(1..Len(stream)) = Len(stream)
    BY <2>4, FS_Interval
  <2> QED BY <2>3, <2>4, <2>5
<1> QED BY <1>3, <1>4

-----------------------------------------------------------------------------
(* Theorems *)

\* For any streams, numbers of transport sequence numbers and losses: however fragments
\* of a flow arrive, the bookkeeping of the flow is that of its queue, after every way of
\* flushing it (DNP3FragHandler::HandleFrame, Flush).
THEOREM BooksAlwaysKept == Spec => []FlowBookkeeping
  BY FragInvAlways, FragInvBooks, PTL

\* Every frame received is on a strand, queued, saved or written, in one of these and
\* once, whatever is lost, repeated or mixed on the way.
THEOREM FramesNeverLost == Spec => []FramesConserved
  BY FragInvAlways, FragInvConserves, PTL

\* For every stream of well-formed messages, of which none is lost and frames overtake only
\* what the handler can put right, the frames of a flow are written as they were sent, though
\* their numbers wrap around, and in the end all of them are (DNP3FragHandler::HandleFrame,
\* Flush and FragCmp).
THEOREM FlowsWrittenInOrder ==
    ASSUME \A s \in Streams : WellFormed(s)
    PROVE  Spec => []FlowsInOrder
<1>1. Init => FragInv /\ OrderInv
  BY FragInvInit, OrderInit
<1>2. (FragInv /\ OrderInv) /\ [Next]_vars => (FragInv /\ OrderInv)'
  <2> SUFFICES ASSUME FragInv, OrderInv, [Next]_vars PROVE FragInv' /\ OrderInv'
    OBVIOUS
  <2>1. FragInv'
    BY FragInvStep
  <2>2. OrderInv'
    BY OrderStep
  <2> QED BY <2>1, <2>2
<1> QED BY <1>1, <1>2, OrderSays, PTL DEF Spec
=============================================================================
