--------------------------- MODULE MCTimeoutCache ---------------------------
(* Three endpoints competing for two cache slots.                            *)
EXTENDS TimeoutCache
CONSTANTS e1, e2, e3
MCKeys == {e1, e2, e3}
=============================================================================
