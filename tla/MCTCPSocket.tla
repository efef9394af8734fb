----------------------------- MODULE MCTCPSocket -----------------------------
(* Two sockets at a time and messages of two pieces.  ProtoConv calls Open     *)
(* when it starts and Close when it is destroyed; one use opens again after    *)
(* that, two write more than the queue holds or just as much.                  *)
EXTENDS TCPSocketManager

Use(user_calls, n, limit) == [calls |-> user_calls, writes |-> n, buffer_limit |-> limit]

AllUses == {Use(<<"Open">>, 2, 2), Use(<<"Open">>, 2, 1), Use(<<"Open", "Close", "Open">>, 1, 1)}
=============================================================================
