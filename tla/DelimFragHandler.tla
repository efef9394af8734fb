-------------------------- MODULE DelimFragHandler --------------------------
(* The delimited framing of ProtoConv: AddDelim (src/ProtoConv/ProtoConv.cpp)*)
(* numbers the frames it sends, and DelimFragHandler::HandleFrame            *)
(* (src/ProtoConv/DelimFragHandler.h) puts the frames it receives back into  *)
(* that order, waiting for a missing one until too many frames are held or   *)
(* the first of them has been held too long.                                 *)
(*                                                                           *)
(* A frame is its position in the stream; it carries the sequence number the *)
(* sender counted, modulo SeqSize (2^32 in the code).  The stream in between  *)
(* (serial ports used in parallel, say) may let a frame be overtaken and may *)
(* lose one.  Either end may be restarted: the sender then counts from 0     *)
(* again, the receiver has lost what it held and expects 0.  HandleFrame     *)
(* runs whole on the handler's strand.                                       *)
EXTENDS Integers, Sequences, FiniteSetsExt

CONSTANTS
    SeqSize,      \* number of sequence numbers
    SeqMaxQ,     \* -q: out-of-sequence frames to hold
    SeqMaxT,     \* -m: ticks to wait for the next sequence number
    FirstFrames, \* how many frames were sent and written before the behaviour starts
    MaxFrames,   \* bound: frames sent after those
    Reorders,    \* how far the frames sent after a frame may overtake it
    Delays,      \* bound: for how many ticks a frame may be at the top of the queue
    MaxInFlight, \* bound: frames on their way at a time
    MaxLost,     \* bound: frames the stream loses in a behaviour
    MaxRestarts  \* bound: restarts of either end

ASSUME SeqModAssumption == SeqSize \in Nat /\ SeqSize > 2
ASSUME BoundsAssumption ==
    {SeqMaxQ, SeqMaxT, MaxFrames, MaxInFlight, MaxLost, MaxRestarts}
      \cup FirstFrames \cup Reorders \cup Delays \subseteq Nat

VARIABLES
    DelimSeq,      \* the sequence number of the next frame to send
    sent,          \* number of frames sent
    number,        \* the sequence number each of them carries
    inFlight,      \* frames sent and not yet received or lost
    frame_q,       \* received frames that are held
    expected_seq,  \* the sequence number to be written next
    last_top_seq,  \* sequence number of the last frame seen at the top
    top_latency,   \* time since the top last changed
    first,         \* frames sent before
    channel,       \* how far and how long frames may be held up in this behaviour
    written,       \* history: frames written, in order
    lost,          \* history: frames lost
    early,         \* history: a wait was given up while its frame was on its way
    restarts,      \* history: restarts of either end
    ambiguous      \* history: a restart left two frames that their numbers put wrong

sender == <<first, DelimSeq, sent, number>>
receiver == <<frame_q, expected_seq, last_top_seq, top_latency>>
vars == <<sender, inFlight, receiver, channel, written, lost, early, restarts, ambiguous>>

Seq32 == 0..(SeqSize - 1)
seq(f) == number[f - first]

MutHalf == SeqSize
\* std::numeric_limits<uint32_t>::max()/2
Half == (SeqSize - 1) \div 2

\* What FrameCmp needs: the frames that are held, and those lost between them, do not
\* span half the sequence numbers (2^31).
WindowFits ==
    \A r \in Reorders : r + SeqMaxQ + MaxLost + MaxRestarts * (SeqMaxQ + MaxInFlight) < Half

\* FrameCmp: l comes after r.
FrameCmp(l, r) ==
    IF seq(l) > seq(r) THEN seq(l) - seq(r) < Half
                       ELSE ~(seq(r) - seq(l) < Half)

\* frame_q.top(): the frame that comes after no other.  (If the held frames span
\* half the sequence space there may be none, and the heap has some frame there.)
Tops(q) ==
    LET least == {t \in q : \A f \in q \ {t} : ~FrameCmp(t, f)}
    IN  IF least # {} THEN least ELSE q

\* Both ends start at 0; some frames later, none lost or overtaken, they are here.
Init ==
    /\ first \in FirstFrames
    /\ DelimSeq = first % SeqSize
    /\ sent = first
    /\ number = <<>>
    /\ inFlight = {}
    /\ frame_q = {}
    /\ expected_seq = first % SeqSize
    /\ last_top_seq = (first - 1) % SeqSize
    /\ top_latency = 0
    /\ channel \in [reorder : Reorders, delay : Delays]
    /\ written = <<>>
    /\ lost = {}
    /\ early = FALSE
    /\ restarts = 0
    /\ ambiguous = FALSE

-----------------------------------------------------------------------------
\* AddDelim and Write: the frame gets the next number.  If the stream's queue is
\* full a frame in it, or this one, is dropped.
AddDelim(gone) ==
    /\ sent < first + MaxFrames
    /\ Cardinality(inFlight) < MaxInFlight
    /\ gone = {} \/ Cardinality(lost) < MaxLost
    /\ sent' = sent + 1
    /\ number' = Append(number, DelimSeq)
    /\ DelimSeq' = (DelimSeq + 1) % SeqSize
    /\ inFlight' = (inFlight \cup {sent'}) \ gone
    /\ lost' = lost \cup gone
    /\ UNCHANGED <<first, receiver, channel, written, early, restarts, ambiguous>>

\* A frame is lost on the way, or fails its CRC.
Lose(f) ==
    /\ Cardinality(lost) < MaxLost
    /\ f \in inFlight
    /\ inFlight' = inFlight \ {f}
    /\ lost' = lost \cup {f}
    /\ UNCHANGED <<sender, receiver, channel, written, early, restarts, ambiguous>>

MutTooManyAt(q) == Cardinality(q) >= SeqMaxQ
\* frame_q.size() > SeqMaxQ
TooMany(q) == Cardinality(q) > SeqMaxQ

\* Both reasons to give up the wait for expected_seq.
GiveUp(q, latency) == TooMany(q) \/ latency > SeqMaxT

\* run is what the loop writes, e being the expected number: as long as the frame
\* at the top has that number it is written, and the next number is expected.
IsRun(q, top, e, run) ==
    LET left(i) == q \ {run[j] : j \in 1..i}
        ready(f, i) == seq(f) = (e + i) % SeqSize
    IN  /\ run = <<>> <=> seq(top) # e
        /\ \A i \in DOMAIN run :
             IF i = 1 THEN run[i] = top ELSE run[i] \in Tops(left(i - 1)) /\ ready(run[i], i - 1)
        /\ run # <<>> /\ left(Len(run)) # {} =>
             \E f \in Tops(left(Len(run))) : ~ready(f, Len(run))

MutClearOnJump(q, run) == {}
\* What the loop leaves in the queue.
Remaining(q, run) == q \ {run[i] : i \in DOMAIN run}

\* HandleFrame's task on the strand.
Handle(f, onTheWay) ==
    LET q == frame_q \cup {f}
    IN  \E top \in Tops(q), run \in UNION {[1..n -> q] : n \in 0..Cardinality(q)} :
          LET latency == IF seq(top) # last_top_seq THEN 0 ELSE top_latency
              e == IF seq(top) # expected_seq /\ GiveUp(q, latency)
                   THEN seq(top) ELSE expected_seq
          IN  /\ IsRun(q, top, e, run)
              /\ last_top_seq' = seq(top)
              /\ top_latency' = latency
              /\ written' = written \o run
              /\ frame_q' = Remaining(q, run)
              /\ expected_seq' = (e + Len(run)) % SeqSize
              /\ early' = (early \/ (e # expected_seq /\ \E g \in onTheWay : g < top))

\* A frame arrives and HandleFrame runs.
HandleFrame(f) ==
    /\ f \in inFlight
    /\ \A g \in inFlight : f <= g + channel.reorder
    /\ inFlight' = inFlight \ {f}
    /\ Handle(f, inFlight')
    /\ UNCHANGED <<sender, channel, lost, restarts, ambiguous>>

\* Time passes.  No timer runs: the latency is looked at when a frame arrives.
\* (Beyond SeqMaxT it makes no difference how long.)
Later ==
    /\ frame_q # {} => top_latency < channel.delay
    /\ top_latency <= SeqMaxT
    /\ top_latency' = top_latency + 1
    /\ UNCHANGED <<frame_q, expected_seq, last_top_seq, written, early>>

Tick == Later /\ UNCHANGED <<sender, inFlight, channel, lost, restarts, ambiguous>>

\* Whether, with the frames numbered from next on still to come, one that is not
\* the first of them may meet the number expected (e) or the last one at the top
\* (l) by chance, and be written at once.
MeetsByChance(next, e, l) ==
    \E k \in 1..(channel.reorder + MaxLost) : (next + k) % SeqSize \in {e, l}

\* The sender is started again: it counts from 0, and what it had not passed on is
\* lost.  The numbers of frames from before mean nothing compared with the new ones.
SenderRestarts(gone) ==
    /\ restarts < MaxRestarts
    /\ restarts' = restarts + 1
    /\ DelimSeq' = 0
    /\ inFlight' = inFlight \ gone
    /\ lost' = lost \cup gone
    /\ ambiguous' = (\/ ambiguous
                     \/ inFlight' \cup frame_q # {}
                     \/ MeetsByChance(0, expected_seq, last_top_seq))
    /\ UNCHANGED <<first, sent, number, receiver, channel, written, early>>

\* The receiver is started again, with everything at its initial value.
ReceiverRestarts ==
    /\ restarts < MaxRestarts
    /\ restarts' = restarts + 1
    /\ frame_q' = {}
    /\ lost' = lost \cup frame_q
    /\ expected_seq' = 0
    /\ last_top_seq' = SeqSize - 1
    /\ top_latency' = 0
    /\ ambiguous' = (\/ ambiguous
                     \/ LET next == IF inFlight = {} THEN DelimSeq ELSE seq(Min(inFlight))
                        IN  MeetsByChance(next, 0, SeqSize - 1))
    /\ UNCHANGED <<sender, inFlight, channel, written, early>>

Next ==
    \/ \E gone \in {{}} \cup {{f} : f \in inFlight \cup {sent + 1}} : AddDelim(gone)
    \/ Tick
    \/ \E f \in inFlight : HandleFrame(f) \/ Lose(f)
    \/ \E gone \in SUBSET inFlight : SenderRestarts(gone)
    \/ ReceiverRestarts

Spec == Init /\ [][Next]_vars

\* The stream delivers or loses what it was given, and time passes.  Nobody is
\* obliged to send more.
FairSpec == Spec /\ WF_vars(Tick) /\ WF_vars(\E f \in inFlight : HandleFrame(f) \/ Lose(f))

-----------------------------------------------------------------------------
(* Properties *)

\* The frames sent in the behaviour.
Sent == (first + 1)..sent

\* Every variable has its type; the frames held never exceed the tolerance, so
\* the handler cannot hoard: after a restart too, SeqMaxQ + 1 frames get it going.
TypeOK ==
    /\ DelimSeq \in Seq32
    /\ first \in FirstFrames /\ sent \in first..(first + MaxFrames)
    /\ number \in [1..(sent - first) -> Seq32]
    /\ inFlight \in SUBSET Sent
    /\ frame_q \in SUBSET Sent /\ Cardinality(frame_q) <= SeqMaxQ
    /\ expected_seq \in Seq32 /\ last_top_seq \in Seq32
    /\ top_latency \in 0..(SeqMaxT + 1)
    /\ written \in Seq(Sent)
    /\ lost \in SUBSET Sent
    /\ channel \in [reorder : Reorders, delay : Delays]
    /\ {early, ambiguous} \subseteq BOOLEAN
    /\ restarts \in 0..MaxRestarts

\* Every frame is in exactly one place: on its way, lost, held, or written once;
\* and no more than SeqMaxQ are held.
FramesConserved ==
    /\ TypeOK
    /\ \A f \in Sent :
         LET times == Cardinality({i \in DOMAIN written : written[i] = f})
         IN  (IF f \in inFlight THEN 1 ELSE 0) + (IF f \in lost THEN 1 ELSE 0)
               + (IF f \in frame_q THEN 1 ELSE 0) + times = 1

\* Frames are written in the order in which they were sent, across losses, the
\* wrap of the sequence number and a restart of either end, unless a wait was given
\* up too early or the numbers from before a restart could be mistaken for those
\* after it; then also the first of the frames held is not the one expected; and if
\* none is lost either, nothing is skipped.
WrittenInOrder ==
    ~early /\ ~ambiguous =>
        /\ \A i, j \in DOMAIN written : i < j => written[i] < written[j]
        /\ \A f \in frame_q : (\A g \in frame_q : f <= g) => seq(f) # expected_seq
        /\ lost = {} => \A i \in DOMAIN written : written[i] = first + i

\* No wait is given up too early as long as a frame is overtaken by at most
\* SeqMaxQ others and by none for longer than SeqMaxT: the handler has the
\* tolerance that its options state, also when it finds its way after a restart.
ToleranceKept ==
    channel.reorder <= SeqMaxQ /\ channel.delay <= SeqMaxT /\ ~ambiguous => ~early

\* A frame is held only for a limited time.
HoldEnds == \A f \in 1..(Max(FirstFrames) + MaxFrames) : f \in frame_q ~> f \notin frame_q
=============================================================================
