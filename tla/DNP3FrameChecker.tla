-------------------------- MODULE DNP3FrameChecker --------------------------
(* DNP3FrameChecker::CheckFrame (src/ProtoConv/DNP3FrameChecker.cpp): the next *)
(* DNP3 frame of a read buffer, or the bytes to skip before one.  The layout   *)
(* is the code's with the sizes made parameters and a checksum of one byte:    *)
(*     05 64 length <counted bytes> CRC (<block> CRC)*                         *)
EXTENDS FrameChecker

CONSTANTS
    Counted,    \* header bytes that the length field counts (5)
    BlockData,  \* data bytes of a full block (16)
    SizeMod     \* values of a size_t (2^64)

ASSUME SizesAssumption == {Counted, BlockData, SizeMod} \subseteq Nat \ {0}

Start1 == 5
Start2 == 6
HeaderData == 3 + Counted
CRCSize == 1
HeaderSize == HeaderData + CRCSize
BlockSize == BlockData + CRCSize

MutNoTail(buf) ==
    LET starts == {i \in 1..(Len(buf) - 1) : buf[i] = Start1 /\ buf[i + 1] = Start2}
    IN  IF starts = {} THEN Len(buf) ELSE Min(starts) - 1
\* The number of bytes before the first pair of start bytes, or before what may
\* turn out to be one: the first start byte at the very end.
StartBytesOffset(buf) ==
    LET starts == {i \in DOMAIN buf :
                     buf[i] = Start1 /\ (i < Len(buf) => buf[i + 1] = Start2)}
    IN  IF starts = {} THEN Len(buf) ELSE Min(starts) - 1

\* Whether the n bytes from offset start on are followed by their checksum.
CRCCheck(buf, start, n) ==
    /\ Len(buf) >= start + n + CRCSize
    /\ Checksum(SubSeq(buf, start + 1, start + n)) = buf[start + n + 1]

\* The size of the frame whose length field is given, in the arithmetic of size_t.
FrameSize(length) ==
    LET user_data == (length - Counted) % SizeMod
    IN  (length + (HeaderSize - Counted) + CRCSize * (user_data \div BlockData)
                + (IF user_data % BlockData # 0 THEN CRCSize ELSE 0)) % SizeMod

\* The size the header claims, 0 if the header fails its checksum.
CRCCheckedLength(buf) == IF CRCCheck(buf, 0, HeaderData) THEN FrameSize(buf[3]) ELSE 0

\* Whether the flow of a frame, its addresses, is other than 0: flow 0 stands for
\* no frame at all.
src_dst(buf) == SubSeq(buf, 4, 3 + Counted) # [i \in 1..Counted |-> 0]

\* The offsets of the blocks of a frame that fail their checksum.
CorruptBlocks(buf, length) ==
    {off \in {HeaderSize + k * BlockSize : k \in 0..(length \div BlockSize)} :
        /\ off < length
        /\ ~CRCCheck(buf, off, IF length - off >= BlockSize THEN BlockData
                                                            ELSE length - off - CRCSize)}

MutDropHeader(n) == Frame(HeaderSize, FALSE)
\* False start bytes are passed on, and the search goes on behind them.
FalseStart(n) == Frame(n, FALSE)

DNP3CheckFrame(buf) ==
    LET unframed == StartBytesOffset(buf)
        length == CRCCheckedLength(buf)
        corrupt == CorruptBlocks(buf, length)
    IN  CASE unframed > 0 -> Frame(unframed, FALSE)
          [] unframed = 0 /\ Len(buf) < HeaderSize -> NoFrame
          [] unframed = 0 /\ Len(buf) >= HeaderSize /\ length = 0 -> FalseStart(2)
          [] unframed = 0 /\ Len(buf) >= HeaderSize /\ Len(buf) < length -> NoFrame
          [] OTHER -> IF corrupt # {} THEN Frame(Min(corrupt), FALSE)
                                      ELSE Frame(length, src_dst(buf))
=============================================================================
