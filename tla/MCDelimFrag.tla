----------------------------- MODULE MCDelimFrag -----------------------------
(* Sequence numbers that wrap while frames overtake each other and get lost. *)
EXTENDS DelimFragHandler

\* There are enough sequence numbers for what can be held and missing here.
ASSUME NumbersSuffice == WindowFits
=============================================================================
