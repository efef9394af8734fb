----------------------------- MODULE RcvStream -----------------------------
(* How ProtoConv cuts the byte stream it reads into datagrams:                 *)
(* ProtoConv::RcvStreamHandler (src/ProtoConv/ProtoConv.cpp), the loop that    *)
(* applies the frame checker the program was started with to the read buffer.  *)
(*                                                                             *)
(* The bytes arrive in pieces of any size.  A stream holds frames, damaged     *)
(* ones, truncated ones (a connection that was lost: the read buffer is kept   *)
(* over a reconnect) and other bytes.                                          *)
EXTENDS DNP3FrameChecker, DelimFrameChecker

CONSTANT Streams    \* the byte streams considered, for each frame checker

ASSUME StreamsAssumption ==
    /\ DOMAIN Streams \subseteq {"DNP3", "Delim", "Null"}
    /\ \A p \in DOMAIN Streams : Streams[p] \subseteq Seq(Byte)

VARIABLES
    framer,    \* pFramer: the options choose it once
    stream,    \* the bytes the other end sends
    arrived,   \* how many of them have been received
    readbuf,   \* received and not yet framed
    datagrams  \* what was handed to the fragment handler, in order

vars == <<framer, stream, arrived, readbuf, datagrams>>

Init ==
    /\ framer \in DOMAIN Streams
    /\ stream \in Streams[framer]
    /\ arrived = 0
    /\ readbuf = <<>>
    /\ datagrams = <<>>

\* NullFrameChecker takes whatever there is.
NullCheckFrame(buf) == Frame(Len(buf), FALSE)

CheckFrame(buf) == CASE framer = "DNP3"  -> DNP3CheckFrame(buf)
                     [] framer = "Delim" -> DelimCheckFrame(buf)
                     [] framer = "Null"  -> NullCheckFrame(buf)

-----------------------------------------------------------------------------
MutTaken(buf, f) == [bytes |-> SubSeq(buf, 1, f.len), known |-> f.known, next |-> f.len + 1]
\* The datagram made of a frame, and the number of bytes it takes.
Taken(buf, f) ==
    LET n == Min({f.len, Len(buf)})
    IN  [bytes |-> SubSeq(buf, 1, n), known |-> f.known, next |-> n]

\* The datagrams the loop makes of a buffer and what it leaves there.
Framed(buf) ==
    LET from[i \in 0..Len(buf)] ==
            LET rest == SubSeq(buf, i + 1, Len(buf))
                f == CheckFrame(rest)
                d == Taken(rest, f)
                after == from[Min({i + d.next, Len(buf)})]
            IN  IF f.len = 0 THEN [made |-> <<>>, left |-> rest]
                ELSE [made |-> <<[bytes |-> d.bytes, known |-> d.known]>> \o after.made,
                      left |-> after.left]
    IN  from[0]

\* n more bytes are read and the handler runs.
RcvStreamHandler(n) ==
    /\ arrived + n <= Len(stream)
    /\ LET result == Framed(readbuf \o SubSeq(stream, arrived + 1, arrived + n))
       IN  /\ datagrams' = datagrams \o result.made
           /\ readbuf' = result.left
    /\ arrived' = arrived + n
    /\ UNCHANGED <<framer, stream>>

Next == \E n \in 1..(Len(stream) - arrived) : RcvStreamHandler(n)

Spec == Init /\ [][Next]_vars

-----------------------------------------------------------------------------
(* Properties *)

\* The size at which CheckFrame has to decide.
LongestFrame == CASE framer = "DNP3"  -> FrameSize(ByteMod - 1)
                  [] framer = "Delim" -> MaxFrame
                  [] framer = "Null"  -> 1
Received == SubSeq(stream, 1, arrived)

\* Type correctness; what is left in the read buffer is the beginning of a DNP3
\* frame or of what looks like one, or a message whose trailer is yet to come.
TypeOK ==
    /\ framer \in {"DNP3", "Delim", "Null"}
    /\ stream \in Seq(Byte)
    /\ arrived \in 0..Len(stream)
    /\ datagrams \in Seq([bytes : Seq(Byte) \ {<<>>}, known : BOOLEAN])
    /\ readbuf \in Seq(Byte)
    /\ framer = "DNP3" /\ readbuf # <<>> =>
         readbuf[1] = Start1 /\ (Len(readbuf) > 1 => readbuf[2] = Start2)
    /\ framer # "DNP3" => Len(readbuf) < LongestFrame

\* The wait of CheckFrame for "full frame length" ends: what is kept in the read
\* buffer is always shorter than the longest frame, so that more bytes are
\* certain to get the stream going again.
WaitIsBounded == Len(readbuf) < LongestFrame

\* RcvStreamHandler neither loses nor repeats a byte of the stream, whatever is
\* in it: datagrams and read buffer together are what was received.
BytesConserved ==
    /\ TypeOK
    /\ FlattenSeq([i \in DOMAIN datagrams |-> datagrams[i].bytes]) \o readbuf = Received

\* The frames found do not depend on the pieces in which the stream arrives:
\* they are those found when all of it arrives at once.  (Bytes outside frames
\* may be cut into datagrams differently.)
Known(d) == SelectSeq(d, LAMBDA e : e.known)
ArrivalIndependent == Known(datagrams) = Known(Framed(Received).made)

\* What a DNP3 frame is, said without the algorithm: a header with a good checksum
\* at position i of s, and blocks with good checksums up to the size it claims.
HeaderAt(s, i) ==
    /\ i + HeaderSize - 1 <= Len(s)
    /\ s[i] = Start1 /\ s[i + 1] = Start2
    /\ Checksum(SubSeq(s, i, i + HeaderData - 1)) = s[i + HeaderSize - 1]
Blocks(data) ==
    [k \in 1..((Len(data) + BlockSize - 1) \div BlockSize) |->
        SubSeq(data, (k - 1) * BlockSize + 1, Min({k * BlockSize, Len(data)}))]
GoodBlock(b) == Len(b) > CRCSize /\ Checksum(Front(b)) = Last(b)
FrameAt(s, i) ==
    LET n == FrameSize(s[i + 2])
    IN  /\ HeaderAt(s, i)
        /\ s[i + 2] >= Counted
        /\ i + n - 1 <= Len(s)
        /\ LET blocks == Blocks(SubSeq(s, i + HeaderSize, i + n - 1))
           IN  \A k \in DOMAIN blocks : GoodBlock(blocks[k])

\* Where datagram i begins in the stream, counted from 0.
Offset(i) == FoldLeft(LAMBDA n, d : n + Len(d.bytes), 0, SubSeq(datagrams, 1, i - 1))
End(i) == Offset(i) + Len(datagrams[i].bytes)

\* Resynchronisation of DNP3: whatever surrounds it, a frame that has been received
\* and does not lie within the claimed extent of an earlier header becomes a
\* datagram of its own, beginning and ending where the frame does.
DNP3FramesFound ==
    \A i \in 1..(arrived - HeaderSize + 1) :
        (/\ FrameAt(Received, i)
         /\ \A h \in 1..(i - 1) :
                HeaderAt(Received, h) => h + FrameSize(stream[h + 2]) <= i)
        => \E k \in DOMAIN datagrams :
               /\ Offset(k) = i - 1
               /\ Len(datagrams[k].bytes) = FrameSize(stream[i + 2])

\* And of delimited messages, where j is a place at which the bytes of some trailer
\* end: that is the end of a datagram, unless the place lies inside a later part of
\* an earlier trailer or bytes without a trailer reached the limit in its middle.
\* A known datagram holds no other trailer, so it never spans two messages.
TrailerAt(j) == \E seq \in Byte : SubSeq(Received, j - TrailerSize + 1, j) = Trailer(seq)
DelimFramesFound ==
    /\ \A j \in TrailerSize..arrived :
         TrailerAt(j) =>
            \/ \E k \in DOMAIN datagrams : datagrams[k].known /\ End(k) = j
            \/ \E i \in (j - TrailerSize + 1)..(j - 1) :
                  \/ i >= TrailerSize /\ TrailerAt(i)
                  \/ \E k \in DOMAIN datagrams : ~datagrams[k].known /\ End(k) = i
    /\ \A k \in DOMAIN datagrams :
         IF datagrams[k].known
         THEN {j \in (Offset(k) + TrailerSize)..End(k) : TrailerAt(j)} = {End(k)}
         ELSE Len(datagrams[k].bytes) = MaxFrame

\* Whatever was damaged, cut off or put in between, the frames that are sound are
\* found.
SoundFramesDelivered == CASE framer = "DNP3"  -> DNP3FramesFound
                          [] framer = "Delim" -> DelimFramesFound
                          [] framer = "Null"  -> readbuf = <<>>
=============================================================================
