----------------------------- MODULE MCDNP3Frag -----------------------------
(* Streams of messages of one to four fragments on two flows, with unframed *)
(* data; the sequence numbers wrap within a message.                         *)
EXTENDS DNP3FragHandler

CONSTANT Sizes   \* for each stream, the messages: <<flow, number of fragments>>

\* The fragments of one message; its numbers follow those of the flow.
Message(m, w, size, from) ==
    [i \in 1..size |-> [flow |-> w, fir |-> (i = 1), fin |-> (i = size),
                        seq |-> (from + i - 1) % SeqCount, msg |-> m]]

\* Number of the next fragment of flow w after n messages; a flow starts two
\* before the wrap.
NumberAfter(sizes, n, w) ==
    LET before == {k \in 1..n : sizes[k][1] = w}
    IN  SeqCount - 2 + FoldSet(LAMBDA k, sum : sizes[k][2] + sum, 0, before)

StreamOf(sizes) ==
    FlattenSeq([m \in 1..Len(sizes) |->
        Message(m, sizes[m][1], sizes[m][2], NumberAfter(sizes, m - 1, sizes[m][1]))])

MCStreams == {StreamOf(s) : s \in Sizes}
\* The hypothesis of the theorem on the order.
ASSUME MessagesWellFormed == \A s \in Streams : WellFormed(s)

\* Every stream of two messages of 1, 2 or 4 fragments, the second perhaps on
\* another flow.
AllSizes == {<<a, b>> : a \in {<<1, n>> : n \in {1, 2, 4}},
                        b \in {<<w, n>> : w \in Flows, n \in {1, 2, 4}}}
\* A longer one: fragmented and whole messages behind each other, with
\* unframed data.
LongSizes == {<< <<1, 4>>, <<1, 1>>, <<0, 1>>, <<1, 2>>, <<1, 1>>, <<1, 1>> >>}
MixedSizes == AllSizes \cup LongSizes
=============================================================================
