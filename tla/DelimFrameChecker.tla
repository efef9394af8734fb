-------------------------- MODULE DelimFrameChecker --------------------------
(* The other way ProtoConv marks the end of a message in a stream: AddDelim    *)
(* (src/ProtoConv/ProtoConv.cpp) puts a trailer behind it, and                 *)
(* DelimFrameChecker::CheckFrame (src/ProtoConv/DelimFrameChecker.h) looks for *)
(* trailers at the other end.  A trailer is                                    *)
(*     delimiter sequence-number CRC                                           *)
(* with a sequence number and a checksum of one byte each.                     *)
EXTENDS FrameChecker

CONSTANTS
    Delim,     \* the bytes of the delimiter (4)
    MaxFrame   \* the hard upper limit of a frame (64K)

TrailerSize == Len(Delim) + 2

ASSUME DelimAssumption ==
    /\ Delim \in Seq(Byte) \ {<<>>}
    /\ MaxFrame \in Nat /\ MaxFrame >= TrailerSize

Trailer(seq) == Delim \o <<seq>> \o <<Checksum(Append(Delim, seq))>>

MutDelimOnly(buf, n) == SubSeq(buf, n - TrailerSize + 1, n - 2) = Delim
\* Whether a trailer ends at position n: the delimiter, and a checksum that matches.
TrailerEnds(buf, n) ==
    /\ SubSeq(buf, n - TrailerSize + 1, n - 2) = Delim
    /\ buf[n] = Checksum(SubSeq(buf, n - TrailerSize + 1, n - 1))

\* The shortest frame; at the limit, bytes without one.
DelimCheckFrame(buf) ==
    LET ends == {n \in TrailerSize..Min({Len(buf), MaxFrame}) : TrailerEnds(buf, n)}
    IN  CASE ends # {} -> Frame(Min(ends), TRUE)
          [] ends = {} /\ Len(buf) >= MaxFrame -> Frame(MaxFrame, FALSE)
          [] OTHER -> NoFrame
=============================================================================
