---------------------------- MODULE MCSerialLink ----------------------------
(* Two lines and a queue of one for four datagrams: ports run dry, the queue   *)
(* overflows, a frame is overtaken on the other line.                          *)
EXTENDS SerialLink

\* There are enough sequence numbers for what can be held and missing here.
ASSUME NumbersSuffice == D!WindowFits
=============================================================================
