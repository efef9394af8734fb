----------------------------- MODULE MCRcvPool -----------------------------
(* Two buffers for three datagrams that each go to up to two endpoints: the  *)
(* pool runs out while sends are under way.                                  *)
EXTENDS RcvPool
=============================================================================
