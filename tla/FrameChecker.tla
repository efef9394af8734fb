---------------------------- MODULE FrameChecker ----------------------------
(* What the frame checkers share (src/ProtoConv/FrameChecker.h): bytes, the    *)
(* result of CheckFrame and a checksum, each cut down to a small size.         *)
EXTENDS Integers, SequencesExt, FiniteSetsExt

CONSTANT ByteMod  \* values of a byte (256)

ASSUME ByteAssumption == ByteMod \in Nat /\ ByteMod > 6

Byte == 0..(ByteMod - 1)

\* A frame is the number of bytes to take from the buffer and whether they are
\* known to be a frame (flow other than 0); no bytes means that there is no frame
\* yet.
Frame(n, known) == [len |-> n, known |-> known]
NoFrame == Frame(0, FALSE)

\* A checksum of one byte that depends on every byte and on their order.
Checksum(bytes) == FoldLeft(LAMBDA c, b : (3 * c + b + 1) % ByteMod, 0, bytes)
=============================================================================
