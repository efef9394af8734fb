----------------------------- MODULE BranchCache -----------------------------
(* What a TimeoutCache promises to the code that routes by it: a bounded     *)
(* list of distinct keys in first-heard order, from which a key leaves only  *)
(* by expiring (or when the whole cache is cleared), never by being          *)
(* displaced.  No clock, timer or strand appears here; TimeoutCache.tla      *)
(* implements this specification, and MiniPlex.tla is built on it.           *)
EXTENDS KeySequences

CONSTANTS Keys,       \* what is cached: UDP endpoints
          MaxSize     \* the cap given to SetMaxSize

VARIABLE keys

BranchInit == keys = <<>>

\* A key not yet in the list joins at the back while there is room.
BranchAdd(k) ==
    /\ k \notin KeysOf(keys)
    /\ Len(keys) < MaxSize
    /\ keys' = Append(keys, k)

\* A key leaves and the others keep their order.
BranchExpire(k) ==
    /\ k \in KeysOf(keys)
    /\ keys' = Without(keys, k)

BranchClear == keys' = <<>>

BranchNext ==
    \/ \E k \in Keys : BranchAdd(k) \/ BranchExpire(k)
    \/ BranchClear

BranchSpec == BranchInit /\ [][BranchNext]_keys
=============================================================================
