--------------------------- MODULE DNP3FragHandler ---------------------------
(* DNP3FragHandler (src/ProtoConv/DNP3FragHandler.{h,cpp}): frames of a DNP3 *)
(* stream that carry a fragment of a transport message are held, per flow,   *)
(* until the message is complete, and then written in the order of their     *)
(* transport sequence numbers; a whole message that arrives in between is    *)
(* kept for after them.                                                      *)
(*                                                                           *)
(* `stream` is what the sender put on the wire; a frame is an index of it.   *)
(* What lies in between lets frames be overtaken and loses some.             *)
EXTENDS Integers, SequencesExt

CONSTANTS
    Flows,       \* source and destination address pairs
    SeqCount,      \* number of transport sequence numbers (64 in the code)
    Streams,     \* the streams a sender may produce
    MaxReorder,  \* how far the frames sent after a frame may overtake it
    MaxPosted,   \* bound: handlers waiting on a strand
    MaxLost      \* bound: frames lost in a behaviour

Unframed == 0
ASSUME FlowsAssumption == Unframed \notin Flows
ASSUME SeqCountAssumption == SeqCount \in Nat \ {0}
ASSUME BoundsAssumption == {MaxReorder, MaxPosted, MaxLost} \subseteq Nat
\* A frame has a flow (or is unframed), FIR, FIN, a sequence number and, for the
\* properties, the number of the message it belongs to.
FrameType == [flow : Flows \cup {Unframed}, fir : BOOLEAN, fin : BOOLEAN,
              seq : 0..(SeqCount - 1), msg : Nat]
ASSUME StreamsAssumption == \A s \in Streams : s \in Seq(FrameType)

\* The message of frame f in stream s.
MessageOf(s, f) == {g \in DOMAIN s : s[g].flow = s[f].flow /\ s[g].msg = s[f].msg}

\* What a station sends: the frames of a flow make up messages one after the other, FIR is the
\* first frame of each and FIN the last, and the numbers of a message are consecutive and
\* not more than half of those there are.
WellFormed(s) ==
    \A f \in DOMAIN s : s[f].flow \in Flows =>
        LET m == MessageOf(s, f)
        IN  /\ \A g \in DOMAIN s, h \in m : f < g /\ g < h /\ s[g].flow = s[f].flow => g \in m
            /\ s[f].fir <=> \A g \in m : f <= g
            /\ s[f].fin <=> \A g \in m : g <= f
            /\ 2 * Cardinality(m) <= SeqCount
            /\ \E n \in 0..(SeqCount - 1) : \A g \in m :
                 s[g].seq = (n + Cardinality({h \in m : h < g})) % SeqCount

VARIABLES
    stream,             \* what was sent
    arrived,            \* frames that were received or lost
    lost,               \* frames that were lost
    marshalling_strand, \* frames posted by HandleFrame, oldest first
    flow_strand,        \* frames posted to each flow's own strand
    TransportFlows,     \* the state of each flow
    written,            \* history: frames written, in order
    orderly             \* history: arrivals kept to what the handler can put right

vars == <<stream, arrived, lost, marshalling_strand, flow_strand, TransportFlows,
          written, orderly>>

Frames == DOMAIN stream
fir(f) == stream[f].fir
fin(f) == stream[f].fin
seq(f) == stream[f].seq
flow(f) == stream[f].flow
isFragment(f) == ~(fir(f) /\ fin(f))

NoFrame == 0

\* A new TransportFlow.
TransportFlow ==
    [frag_q |-> {}, pNextFrame |-> NoFrame, hasSeq |-> {},
     hasFir |-> FALSE, hasFin |-> FALSE, firSeq |-> 0, finSeq |-> 0]

Init ==
    /\ stream \in Streams
    /\ arrived = {}
    /\ lost = {}
    /\ marshalling_strand = <<>>
    /\ flow_strand = [w \in Flows |-> <<>>]
    /\ TransportFlows = [w \in Flows |-> TransportFlow]
    /\ written = <<>>
    /\ orderly = TRUE

-----------------------------------------------------------------------------
MutNoWrap(l, r) ==
    IF fir(r) \/ fir(l) THEN fir(r)
    ELSE IF fin(r) \/ fin(l) THEN ~fin(r)
    ELSE seq(l) > seq(r)
\* FragCmp: l comes after r.  FIR comes first and FIN last, the others in the
\* order of their sequence numbers, seen the shorter way around.
FragCmp(l, r) ==
    IF fir(r) \/ fir(l) THEN fir(r)
    ELSE IF fin(r) \/ fin(l) THEN ~fin(r)
    ELSE IF seq(l) > seq(r) THEN seq(l) - seq(r) < seq(r) + SeqCount - seq(l)
    ELSE ~(seq(r) - seq(l) < seq(l) + SeqCount - seq(r))

\* The orders in which frag_q can be popped.
PopOrders(q) ==
    LET sorted == {s \in SetToSeqs(q) : \A i, j \in DOMAIN s : i < j => ~FragCmp(s[i], s[j])}
    IN  IF sorted # {} THEN sorted ELSE SetToSeqs(q)

Opt(f) == IF f = NoFrame THEN <<>> ELSE <<f>>

MutFlushed(fl) == [fl EXCEPT !.frag_q = {}, !.hasFir = FALSE, !.hasFin = FALSE,
                             !.pNextFrame = NoFrame]
MutFlushKeepsNext(fl) == [fl EXCEPT !.frag_q = {}, !.hasFir = FALSE, !.hasFin = FALSE,
                                    !.hasSeq = {}]
\* Flush: what is left of the flow, and what is written.
Flushed(fl) == [fl EXCEPT !.frag_q = {}, !.hasFir = FALSE, !.hasFin = FALSE,
                          !.hasSeq = {}, !.pNextFrame = NoFrame]
FlushOutputs(fl) == {s \o Opt(fl.pNextFrame) : s \in PopOrders(fl.frag_q)}

\* A second FIR, FIN or sequence number starts another message.
Duplicate(fl, f) ==
    (fl.hasFir /\ fir(f)) \/ (fl.hasFin /\ fin(f)) \/ seq(f) \in fl.hasSeq

\* The fragment is recorded and queued.
Recorded(fl, f) ==
    [fl EXCEPT !.hasFin = @ \/ fin(f), !.finSeq = IF fin(f) THEN seq(f) ELSE @,
               !.hasFir = @ \/ fir(f), !.firSeq = IF fir(f) THEN seq(f) ELSE @,
               !.hasSeq = @ \cup {seq(f)}, !.frag_q = @ \cup {f}]

\* FIR and FIN are there and as many fragments as their numbers span.
Complete(fl) ==
    /\ fl.hasFir /\ fl.hasFin
    /\ (fl.firSeq + Cardinality(fl.frag_q) - 1) % SeqCount = fl.finSeq

-----------------------------------------------------------------------------
\* The handler's tolerance: frame f may overtake frames of its own message; a
\* whole message may also overtake the rest of the message before it.
Tolerated(f) ==
    \A g \in Frames :
        g < f /\ flow(g) = flow(f) /\ g \notin arrived =>
            \/ stream[g].msg = stream[f].msg
            \/ /\ ~isFragment(f)
               /\ \E h \in arrived : flow(h) = flow(f) /\ stream[h].msg = stream[g].msg
               /\ \A h \in g..f : flow(h) = flow(f) => stream[h].msg \in {stream[g].msg, stream[f].msg}

\* A frame arrives: HandleFrame passes unframed data through and posts the rest.
HandleFrame(f) ==
    /\ f \in Frames \ arrived
    /\ \A g \in Frames \ arrived : f <= g + MaxReorder
    /\ arrived' = arrived \cup {f}
    /\ IF flow(f) = Unframed
       THEN /\ written' = Append(written, f)
            /\ UNCHANGED <<marshalling_strand, orderly>>
       ELSE /\ Len(marshalling_strand) < MaxPosted
            /\ marshalling_strand' = Append(marshalling_strand, f)
            /\ orderly' = (orderly /\ Tolerated(f))
            /\ UNCHANGED written
    /\ UNCHANGED <<stream, lost, flow_strand, TransportFlows>>

\* A frame is lost on the way, or fails its CRC.
Lose(f) ==
    /\ f \in Frames \ arrived
    /\ Cardinality(lost) < MaxLost
    /\ arrived' = arrived \cup {f}
    /\ lost' = lost \cup {f}
    /\ UNCHANGED <<stream, marshalling_strand, flow_strand, TransportFlows, written, orderly>>

\* The posted handler finds the frame's flow and posts to its strand.
Marshal ==
    /\ marshalling_strand # <<>>
    /\ LET f == Head(marshalling_strand)
       IN  /\ Len(flow_strand[flow(f)]) < MaxPosted
           /\ flow_strand' = [flow_strand EXCEPT ![flow(f)] = Append(@, f)]
    /\ marshalling_strand' = Tail(marshalling_strand)
    /\ UNCHANGED <<stream, arrived, lost, TransportFlows, written, orderly>>

\* The flow's handler, for a fragment.
HandleFragment(w) ==
    /\ flow_strand[w] # <<>>
    /\ isFragment(Head(flow_strand[w]))
    /\ LET f == Head(flow_strand[w])
           duplicate == Duplicate(TransportFlows[w], f)
           start == IF duplicate THEN Flushed(TransportFlows[w]) ELSE TransportFlows[w]
           queued == Recorded(start, f)
       IN  \E before \in IF duplicate THEN FlushOutputs(TransportFlows[w]) ELSE {<<>>} :
           \E after \in IF Complete(queued) THEN FlushOutputs(queued) ELSE {<<>>} :
             /\ written' = written \o before \o after
             /\ TransportFlows' =
                  [TransportFlows EXCEPT ![w] = IF Complete(queued) THEN Flushed(queued) ELSE queued]
    /\ flow_strand' = [flow_strand EXCEPT ![w] = Tail(@)]
    /\ UNCHANGED <<stream, arrived, lost, marshalling_strand, orderly>>

\* The flow's handler, for a whole message: written, or saved behind a message
\* in the making; a second one gives that message up.
HandleWhole(w) ==
    /\ flow_strand[w] # <<>>
    /\ ~isFragment(Head(flow_strand[w]))
    /\ LET f == Head(flow_strand[w])
           fl == TransportFlows[w]
       IN  \/ /\ fl.pNextFrame # NoFrame
              /\ \E out \in FlushOutputs(fl) : written' = written \o out \o <<f>>
              /\ TransportFlows' = [TransportFlows EXCEPT ![w] = Flushed(@)]
           \/ /\ fl.pNextFrame = NoFrame /\ fl.frag_q # {}
              /\ TransportFlows' = [TransportFlows EXCEPT ![w].pNextFrame = f]
              /\ UNCHANGED written
           \/ /\ fl.pNextFrame = NoFrame /\ fl.frag_q = {}
              /\ written' = Append(written, f)
              /\ UNCHANGED TransportFlows
    /\ flow_strand' = [flow_strand EXCEPT ![w] = Tail(@)]
    /\ UNCHANGED <<stream, arrived, lost, marshalling_strand, orderly>>

Next ==
    \/ \E f \in Frames : HandleFrame(f) \/ Lose(f)
    \/ Marshal
    \/ \E w \in Flows : HandleFragment(w) \/ HandleWhole(w)

Spec == Init /\ [][Next]_vars

-----------------------------------------------------------------------------
(* Properties *)

\* Every variable has its type.
TypeOK ==
    /\ stream \in Streams
    /\ lost \subseteq arrived /\ arrived \subseteq Frames
    /\ marshalling_strand \in Seq(Frames)
    /\ flow_strand \in [Flows -> Seq(Frames)]
    /\ TransportFlows \in
         [Flows -> [frag_q : SUBSET Frames, pNextFrame : Frames \cup {NoFrame},
                    hasSeq : SUBSET (0..(SeqCount - 1)), hasFir : BOOLEAN, hasFin : BOOLEAN,
                    firSeq : 0..(SeqCount - 1), finSeq : 0..(SeqCount - 1)]]
    /\ written \in Seq(Frames)
    /\ orderly \in BOOLEAN

\* The bookkeeping of a flow is that of its queue, across every way of flushing
\* it: hasSeq is exactly the numbers queued (so no more than SeqCount frames are
\* ever held), hasFir and hasFin tell of the one FIR and the one FIN, and a whole
\* message is saved only behind fragments, so it is not left without anything
\* that would release it.
FlowBookkeeping ==
    /\ TypeOK
    /\ \A w \in Flows :
        LET fl == TransportFlows[w]
        IN  /\ fl.hasSeq = {seq(f) : f \in fl.frag_q}
            /\ Cardinality(fl.hasSeq) = Cardinality(fl.frag_q)
            /\ fl.hasFir <=> \E f \in fl.frag_q : fir(f)
            /\ fl.hasFin <=> \E f \in fl.frag_q : fin(f)
            /\ \A f, g \in fl.frag_q : f # g => ~(fir(f) /\ fir(g)) /\ ~(fin(f) /\ fin(g))
            /\ \A f \in fl.frag_q : (fir(f) => fl.firSeq = seq(f)) /\ (fin(f) => fl.finSeq = seq(f))
            /\ fl.pNextFrame # NoFrame => fl.frag_q # {}

\* Every frame that was received is in exactly one place (posted, queued, saved)
\* or written exactly once: flushing early neither drops nor repeats one.
FramesConserved ==
    \A f \in arrived \ lost :
        LET Times(s) == Cardinality({i \in DOMAIN s : s[i] = f})
            w == flow(f)
        IN  IF w = Unframed THEN Times(written) = 1
            ELSE Times(marshalling_strand) + Times(flow_strand[w]) + Times(written)
                   + (IF f \in TransportFlows[w].frag_q THEN 1 ELSE 0)
                   + (IF f = TransportFlows[w].pNextFrame THEN 1 ELSE 0) = 1

\* If none is lost and frames overtake only what the handler can put right, the
\* frames of a flow are written in the order in which they were sent, across the
\* wrap of the sequence number, and when all have arrived all are written.
FlowsInOrder ==
    orderly /\ lost = {} =>
        /\ \A i, j \in DOMAIN written :
             i < j /\ flow(written[i]) = flow(written[j]) /\ flow(written[i]) # Unframed
               => written[i] < written[j]
        /\ arrived = Frames /\ marshalling_strand = <<>> /\ (\A w \in Flows : flow_strand[w] = <<>>)
             => Len(written) = Len(stream)
=============================================================================
