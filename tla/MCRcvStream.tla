---------------------------- MODULE MCRcvStream ----------------------------
(* Streams for each frame checker: up to MaxParts parts, each a frame or       *)
(* something that is none.                                                     *)
EXTENDS RcvStream

CONSTANT MaxParts  \* bound: parts of a stream

\* A header with a good checksum, and a block with one.
Sealed(bytes) == Append(bytes, Checksum(bytes))
Header(length, addr) == Sealed(<<Start1, Start2, length, addr>>)
Damaged(bytes) == [bytes EXCEPT ![Len(bytes)] = (@ + 1) % ByteMod]

DNP3Parts ==
    { Header(1, 1),                                   \* a frame without data
      Header(1, 0),                                   \* and one of flow 0
      Header(2, 2) \o Sealed(<<5>>),                  \* a partial block
      Header(3, 1) \o Sealed(<<6, 5>>),               \* a full block
      Header(4, 1) \o Sealed(<<5, 6>>) \o Sealed(<<1>>),
      Header(4, 1) \o Sealed(<<5, 6>>) \o Damaged(Sealed(<<1>>)),
      Header(3, 1) \o Damaged(Sealed(<<5, 6>>)),
      Damaged(Header(2, 1)),
      SubSeq(Header(2, 1), 1, 3),                     \* cut off
      Header(0, 1),                                   \* a length that no frame has
      <<5>>, <<6>>, <<0, 5>> }

TheDelim == <<5, 6>>

DelimParts ==
    { Trailer(0),                                     \* an empty message
      <<1>> \o Trailer(1),
      <<5>> \o Trailer(5),                            \* half a delimiter before a trailer
      Delim \o Trailer(2),                            \* a whole one
      <<0, 1, 0>> \o Trailer(3),
      Damaged(Trailer(4)),
      SubSeq(Trailer(1), 1, 3),                       \* cut off
      <<1, 5, 6, 2, 0>>,                              \* no trailer
      <<6>> }

Concatenated(Parts) ==
    {FlattenSeq(parts) : parts \in UNION {[1..n -> Parts] : n \in 1..MaxParts}}

AllStreams == [DNP3 |-> Concatenated(DNP3Parts),
               Delim |-> Concatenated(DelimParts),
               Null |-> {<<1, 5, 6, 0>>}]
DNP3Streams == [DNP3 |-> Concatenated(DNP3Parts)]
=============================================================================
