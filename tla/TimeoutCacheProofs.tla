------------------------- MODULE TimeoutCacheProofs -------------------------
(* Proofs about the timeout cache, for any set of keys, timeout and size.    *)
EXTENDS TimeoutCache, FiniteSetTheorems, TLAPS

-----------------------------------------------------------------------------
(* Lists of keys *)

\* Appending a key that the list does not hold (emplace_back in Add) keeps the
\* keys distinct and adds just that key.
LEMMA AppendKeepsDistinct ==
    ASSUME NEW K, NEW s \in Seq(K), NEW k \in K,
           NoRepeats(s), k \notin KeysOf(s)
    PROVE  /\ Append(s, k) \in Seq(K)
           /\ NoRepeats(Append(s, k))
           /\ KeysOf(Append(s, k)) = KeysOf(s) \cup {k}
           /\ Len(Append(s, k)) = Len(s) + 1
<1> DEFINE t == Append(s, k)
<1>1. /\ t \in Seq(K)
      /\ Len(t) = Len(s) + 1
      /\ \A i \in 1..Len(s) : t[i] = s[i]
      /\ t[Len(s) + 1] = k
  OBVIOUS
<1>2. \A i \in 1..Len(s) : s[i] # k
  BY DEF KeysOf
<1>3. NoRepeats(t)
  BY <1>1, <1>2 DEF NoRepeats
<1>4. KeysOf(t) = KeysOf(s) \cup {k}
  <2>1. KeysOf(t) \subseteq KeysOf(s) \cup {k}
    BY <1>1 DEF KeysOf
  <2>2. KeysOf(s) \cup {k} \subseteq KeysOf(t)
    BY <1>1 DEF KeysOf
  <2> QED BY <2>1, <2>2
<1> QED BY <1>1, <1>3, <1>4

\* Erasing a key of the list at its iterator (TimerHandler) removes just that
\* key, keeps the rest distinct, and leaves the head alone unless it is the
\* head that goes.
LEMMA WithoutRemovesOne ==
    ASSUME NEW K, NEW s \in Seq(K), NEW k \in KeysOf(s), NoRepeats(s)
    PROVE  /\ Without(s, k) \in Seq(K)
           /\ NoRepeats(Without(s, k))
           /\ KeysOf(Without(s, k)) = KeysOf(s) \ {k}
           /\ Len(Without(s, k)) = Len(s) - 1
           /\ Head(s) # k => /\ Without(s, k) # <<>>
                             /\ Head(Without(s, k)) = Head(s)
<1> DEFINE p == IteratorOf(s, k)
           t == Without(s, k)
<1>1. p \in 1..Len(s) /\ s[p] = k
  BY DEF IteratorOf, KeysOf
<1>2. \A i \in 1..Len(s) : s[i] = k => i = p
  BY <1>1 DEF NoRepeats
<1>3. t = SubSeq(s, 1, p - 1) \o SubSeq(s, p + 1, Len(s))
  BY DEF Without, RemoveAt
<1> HIDE DEF p, t
<1>4. /\ t \in Seq(K)
      /\ Len(t) = Len(s) - 1
      /\ \A i \in 1..Len(t) : t[i] = IF i < p THEN s[i] ELSE s[i + 1]
  <2> DEFINE a == SubSeq(s, 1, p - 1)
             b == SubSeq(s, p + 1, Len(s))
  <2>1. /\ a \in Seq(K)
        /\ Len(a) = p - 1
        /\ \A i \in 1..(p - 1) : a[i] = s[i]
    BY <1>1
  <2>2. /\ b \in Seq(K)
        /\ Len(b) = Len(s) - p
        /\ \A i \in 1..(Len(s) - p) : b[i] = s[p + i]
    BY <1>1
  <2>3. t = a \o b
    BY <1>3
  <2> HIDE DEF a, b
  <2>4. t \in Seq(K) /\ Len(t) = Len(s) - 1
    BY <1>1, <2>1, <2>2, <2>3
  <2>5. ASSUME NEW i \in 1..Len(t)
        PROVE  t[i] = IF i < p THEN s[i] ELSE s[i + 1]
    <3>1. t[i] = IF i <= Len(a) THEN a[i] ELSE b[i - Len(a)]
      BY <1>1, <2>1, <2>2, <2>3, <2>4
    <3>2. CASE i < p
      BY <1>1, <2>1, <3>1, <3>2
    <3>3. CASE i >= p
      <4>1. i - Len(a) \in 1..(Len(s) - p) /\ p + (i - Len(a)) = i + 1
        BY <1>1, <2>1, <2>4, <3>3
      <4> QED BY <1>1, <2>1, <2>2, <3>1, <3>3, <4>1
    <3> QED BY <1>1, <3>2, <3>3
  <2> QED BY <2>4, <2>5
<1>5. NoRepeats(t)
  BY <1>1, <1>4 DEF NoRepeats
<1>6. KeysOf(t) = KeysOf(s) \ {k}
  <2>1. KeysOf(t) \subseteq KeysOf(s) \ {k}
    BY <1>1, <1>2, <1>4 DEF KeysOf
  <2>2. ASSUME NEW x \in KeysOf(s) \ {k}
        PROVE  x \in KeysOf(t)
    <3>1. PICK i \in 1..Len(s) : s[i] = x
      BY DEF KeysOf
    <3>2. CASE i < p
      BY <1>1, <1>4, <3>1, <3>2 DEF KeysOf
    <3>3. CASE i > p
      <4>1. i - 1 \in 1..Len(t) /\ t[i - 1] = s[i]
        BY <1>1, <1>4, <3>3
      <4> QED BY <3>1, <4>1 DEF KeysOf
    <3> QED BY <1>1, <3>1, <3>2, <3>3
  <2> QED BY <2>1, <2>2
<1>7. ASSUME Head(s) # k PROVE t # <<>> /\ Head(t) = Head(s)
  <2>1. p # 1
    BY <1>1, <1>7
  <2>2. Len(t) >= 1 /\ t[1] = s[1]
    BY <1>1, <1>4, <2>1
  <2> QED BY <1>4, <2>2
<1> QED BY <1>4, <1>5, <1>6, <1>7 DEF t

-----------------------------------------------------------------------------
(* The invariant *)

\* The age of an entry is the time since its key was last heard.
AgeIsHeard == \A k \in Cache : AccessAge[k] = heard[k]

\* The inductive invariant.  None of the parts is inductive alone: the list
\* matches the map only as long as TimerHandler finds its key in both, which
\* needs the list to be free of repeats; the count of waits needs the types.
IInv ==
    /\ TypeOK
    /\ ListMatchesMap
    /\ WithinMaxSize
    /\ OneWaitPerEntry
    /\ ArmedInTime
    /\ AgeIsHeard

USE TimeoutAssumption, MaxSizeAssumption, MaxBacklogAssumption

\* The empty cache of the constructor satisfies the invariant.
LEMMA InitIInv == Init => IInv
<1> SUFFICES ASSUME Init PROVE IInv
  OBVIOUS
<1>1. TypeOK
  <2>0. KeySequence \in Seq(Keys)
    BY DEF Init
  <2>1. Cache \in SUBSET Keys /\ threw \in BOOLEAN /\ cleared \in BOOLEAN
    BY DEF Init
  <2>2. AccessAge \in [Keys -> 0..Timeout] /\ heard \in [Keys -> 0..Timeout]
    BY DEF Init
  <2>3. Timer \in [Keys -> NoWait..Timeout]
    BY DEF Init, NoWait
  <2>4. fired \in [Keys -> 0..MaxBacklog] /\ posted \in [Keys -> 0..MaxBacklog]
    BY DEF Init
  <2> QED BY <2>0, <2>1, <2>2, <2>3, <2>4 DEF TypeOK
<1>2. ListMatchesMap /\ WithinMaxSize
  BY DEF Init, ListMatchesMap, WithinMaxSize, NoRepeats, KeysOf
<1>3. OneWaitPerEntry /\ ArmedInTime /\ AgeIsHeard
  BY DEF Init, OneWaitPerEntry, ArmedInTime, AgeIsHeard, NoWait
<1> QED BY <1>1, <1>2, <1>3 DEF IInv

\* Every handler keeps the invariant.
LEMMA NextIInv == IInv /\ [Next]_vars => IInv'
<1> SUFFICES ASSUME IInv, [Next]_vars PROVE IInv'
  OBVIOUS
<1> USE DEF IInv, NoWait
<1>1. ASSUME NEW k \in Keys, AddRefreshed(k) PROVE IInv'
  <2>1. TypeOK'
    BY <1>1 DEF AddRefreshed, Bumped, TypeOK
  <2>2. ListMatchesMap' /\ WithinMaxSize'
    BY <1>1 DEF AddRefreshed, ListMatchesMap, WithinMaxSize
  <2>3. OneWaitPerEntry' /\ ArmedInTime'
    BY <1>1 DEF AddRefreshed, Bumped, TypeOK, OneWaitPerEntry, ArmedInTime
  <2>9. AgeIsHeard'
    BY <1>1 DEF AddRefreshed, Bumped, TypeOK, AgeIsHeard
  <2> QED BY <2>1, <2>2, <2>3, <2>9
<1>2. ASSUME NEW k \in Keys, AddDropped(k) PROVE IInv'
  <2>1. TypeOK'
    BY <1>2 DEF AddDropped, TypeOK
  <2>2. ListMatchesMap' /\ WithinMaxSize' /\ OneWaitPerEntry' /\ ArmedInTime'
    BY <1>2 DEF AddDropped, ListMatchesMap, WithinMaxSize, OneWaitPerEntry, ArmedInTime
  <2>9. AgeIsHeard'
    BY <1>2 DEF AddDropped, TypeOK, AgeIsHeard
  <2> QED BY <2>1, <2>2, <2>9
<1>3. ASSUME NEW k \in Keys, AddAdded(k) PROVE IInv'
  <2>1. /\ Append(KeySequence, k) \in Seq(Keys)
        /\ NoRepeats(Append(KeySequence, k))
        /\ KeysOf(Append(KeySequence, k)) = KeysOf(KeySequence) \cup {k}
        /\ Len(Append(KeySequence, k)) = Len(KeySequence) + 1
    BY <1>3, AppendKeepsDistinct DEF AddAdded, TypeOK, ListMatchesMap
  <2>2. TypeOK'
    BY <1>3, <2>1 DEF AddAdded, Bumped, Enlisted, TypeOK
  <2>3. ListMatchesMap' /\ WithinMaxSize'
    BY <1>3, <2>1 DEF AddAdded, Enlisted, Full, TypeOK, ListMatchesMap, WithinMaxSize
  <2>4. OneWaitPerEntry' /\ ArmedInTime'
    BY <1>3 DEF AddAdded, Bumped, TypeOK, OneWaitPerEntry, ArmedInTime
  <2>9. AgeIsHeard'
    BY <1>3 DEF AddAdded, Bumped, TypeOK, AgeIsHeard
  <2> QED BY <2>2, <2>3, <2>4, <2>9
<1>4. ASSUME Tick PROVE IInv'
  <2>1. TypeOK'
    BY <1>4 DEF Tick, Older, TypeOK
  <2>2. ListMatchesMap' /\ WithinMaxSize'
    BY <1>4 DEF Tick, ListMatchesMap, WithinMaxSize
  <2>3. OneWaitPerEntry'
    BY <1>4 DEF Tick, TypeOK, OneWaitPerEntry
  <2>4. ArmedInTime'
    BY <1>4 DEF Tick, Older, TypeOK, ArmedInTime
  <2>9. AgeIsHeard'
    BY <1>4 DEF Tick, Older, TypeOK, AgeIsHeard
  <2> QED BY <2>1, <2>2, <2>3, <2>4, <2>9
<1>5. ASSUME NEW k \in Keys, TimerFires(k) PROVE IInv'
  <2>1. TypeOK'
    <3>1. fired' \in [Keys -> 0..MaxBacklog]
      BY <1>5 DEF TimerFires, TypeOK
    <3>2. Timer' \in [Keys -> NoWait..Timeout]
      BY <1>5 DEF TimerFires, TypeOK
    <3> QED BY <1>5, <3>1, <3>2 DEF TimerFires, TypeOK
  <2>2. ListMatchesMap' /\ WithinMaxSize'
    BY <1>5 DEF TimerFires, ListMatchesMap, WithinMaxSize
  <2>3. OneWaitPerEntry'
    <3>1. SUFFICES ASSUME ~cleared PROVE OneWaitPerEntry'
      BY <1>5 DEF TimerFires, OneWaitPerEntry
    <3>2. fired[k] = 0 /\ fired'[k] = 1 /\ Timer'[k] = NoWait /\ ~threw'
      BY <1>5, <3>1 DEF TimerFires, TypeOK, OneWaitPerEntry
    <3>3. \A j \in Keys \ {k} : fired'[j] = fired[j] /\ Timer'[j] = Timer[j]
      BY <1>5 DEF TimerFires, TypeOK
    <3> QED BY <1>5, <3>1, <3>2, <3>3 DEF TimerFires, OneWaitPerEntry
  <2>4. ArmedInTime'
    BY <1>5 DEF TimerFires, TypeOK, ArmedInTime
  <2>9. AgeIsHeard'
    BY <1>5 DEF TimerFires, TypeOK, AgeIsHeard
  <2> QED BY <2>1, <2>2, <2>3, <2>4, <2>9
<1>6. ASSUME NEW k \in Keys, HandlerThrows(k) PROVE IInv'
  <2>1. TypeOK'
    <3>1. fired' \in [Keys -> 0..MaxBacklog]
      BY <1>6 DEF HandlerThrows, TypeOK
    <3> QED BY <1>6, <3>1 DEF HandlerThrows, TypeOK
  <2>2. ListMatchesMap' /\ WithinMaxSize'
    BY <1>6 DEF HandlerThrows, ListMatchesMap, WithinMaxSize
  <2>3. cleared /\ cleared'
    BY <1>6 DEF HandlerThrows, OneWaitPerEntry, TypeOK
  <2>4. OneWaitPerEntry' /\ ArmedInTime'
    BY <1>6, <2>3 DEF HandlerThrows, TypeOK, OneWaitPerEntry, ArmedInTime
  <2>9. AgeIsHeard'
    BY <1>6 DEF HandlerThrows, TypeOK, AgeIsHeard
  <2> QED BY <2>1, <2>2, <2>4, <2>9
<1>7. ASSUME NEW k \in Keys, HandlerRearms(k) PROVE IInv'
  <2>1. TypeOK'
    BY <1>7 DEF HandlerRearms, Rearmed, TimeToExpiry, TypeOK
  <2>2. ListMatchesMap' /\ WithinMaxSize'
    BY <1>7 DEF HandlerRearms, ListMatchesMap, WithinMaxSize
  <2>3. OneWaitPerEntry'
    BY <1>7 DEF HandlerRearms, Rearmed, TimeToExpiry, TypeOK, OneWaitPerEntry
  <2>4. ArmedInTime'
    BY <1>7 DEF HandlerRearms, Rearmed, TimeToExpiry, TypeOK, ArmedInTime
  <2>9. AgeIsHeard'
    BY <1>7 DEF HandlerRearms, TypeOK, AgeIsHeard
  <2> QED BY <2>1, <2>2, <2>3, <2>4, <2>9
<1>8. ASSUME NEW k \in Keys, HandlerExpires(k) PROVE IInv'
  <2>1. /\ Without(KeySequence, k) \in Seq(Keys)
        /\ NoRepeats(Without(KeySequence, k))
        /\ KeysOf(Without(KeySequence, k)) = KeysOf(KeySequence) \ {k}
        /\ Len(Without(KeySequence, k)) = Len(KeySequence) - 1
    BY <1>8, WithoutRemovesOne DEF HandlerExpires, TypeOK, ListMatchesMap
  <2>2. TypeOK'
    <3>1. fired' \in [Keys -> 0..MaxBacklog]
      BY <1>8 DEF HandlerExpires, TypeOK
    <3>2. posted' \in [Keys -> 0..MaxBacklog]
      BY <1>8 DEF HandlerExpires, TypeOK
    <3>3. AccessAge' \in [Keys -> 0..Timeout] /\ Timer' \in [Keys -> NoWait..Timeout]
      BY <1>8 DEF HandlerExpires, TypeOK
    <3> QED BY <1>8, <2>1, <3>1, <3>2, <3>3 DEF HandlerExpires, Delisted, Unmapped, TypeOK
  <2>3. ListMatchesMap' /\ WithinMaxSize'
    BY <1>8, <2>1 DEF HandlerExpires, Delisted, Unmapped, TypeOK, ListMatchesMap, WithinMaxSize
  <2>4. OneWaitPerEntry' /\ ArmedInTime'
    BY <1>8 DEF HandlerExpires, Unmapped, TypeOK, OneWaitPerEntry, ArmedInTime
  <2>9. AgeIsHeard'
    BY <1>8 DEF HandlerExpires, Unmapped, TypeOK, AgeIsHeard
  <2> QED BY <2>2, <2>3, <2>4, <2>9
<1>9. ASSUME NEW k \in Keys, RunTimeoutHandler(k) PROVE IInv'
  <2>1. TypeOK'
    <3>1. posted' \in [Keys -> 0..MaxBacklog]
      BY <1>9 DEF RunTimeoutHandler, TypeOK
    <3> QED BY <1>9, <3>1 DEF RunTimeoutHandler, TypeOK
  <2>2. ListMatchesMap' /\ WithinMaxSize' /\ OneWaitPerEntry' /\ ArmedInTime'
    BY <1>9 DEF RunTimeoutHandler, ListMatchesMap, WithinMaxSize, OneWaitPerEntry, ArmedInTime
  <2>9. AgeIsHeard'
    BY <1>9 DEF RunTimeoutHandler, TypeOK, AgeIsHeard
  <2> QED BY <2>1, <2>2, <2>9
<1>10. ASSUME Clear PROVE IInv'
  <2>1. TypeOK'
    BY <1>10 DEF Clear, TypeOK
  <2>2. ListMatchesMap' /\ WithinMaxSize'
    BY <1>10 DEF Clear, ListMatchesMap, WithinMaxSize, NoRepeats, KeysOf
  <2>3. OneWaitPerEntry' /\ ArmedInTime'
    BY <1>10 DEF Clear, OneWaitPerEntry, ArmedInTime
  <2>9. AgeIsHeard'
    BY <1>10 DEF Clear, TypeOK, AgeIsHeard
  <2> QED BY <2>1, <2>2, <2>3, <2>9
<1>11. CASE UNCHANGED vars
  BY <1>11 DEF vars, TypeOK, ListMatchesMap, WithinMaxSize, OneWaitPerEntry, ArmedInTime, AgeIsHeard
<1> QED
  BY <1>1, <1>2, <1>3, <1>4, <1>5, <1>6, <1>7, <1>8, <1>9, <1>10, <1>11
  DEF Next, Add, TimerHandler

\* The cache keeps the whole invariant: types, agreement of list and map, the
\* size cap, one live wait per entry (so TimerHandler's Cache.at never throws
\* unless Clear() is called), and timers armed no later than the expiry.
THEOREM CacheInvariant ==
    Spec => [](ExpiryScheduled /\ ListMatchesMap /\ WithinMaxSize)
<1>1. Init => IInv
  BY InitIInv
<1>2. IInv /\ [Next]_vars => IInv'
  BY NextIInv
<1>3. IInv => ExpiryScheduled /\ ListMatchesMap /\ WithinMaxSize
  BY DEF IInv, ExpiryScheduled
<1> QED BY <1>1, <1>2, <1>3, PTL DEF Spec

\* The invariant under which the step properties below are shown.
LEMMA SpecIInv == Spec => []IInv
BY InitIInv, NextIInv, PTL DEF Spec

-----------------------------------------------------------------------------
(* Step properties *)

\* What TimerHandler's erasure does to the list, under the invariant.
LEMMA ExpiryDelists ==
    ASSUME IInv, NEW k \in Keys, HandlerExpires(k)
    PROVE  /\ k \in KeysOf(KeySequence)
           /\ KeySequence' = Without(KeySequence, k)
           /\ KeysOf(KeySequence') = Cache \ {k}
           /\ Head(KeySequence) # k => /\ KeySequence' # <<>>
                                       /\ Head(KeySequence') = Head(KeySequence)
<1>1. k \in KeysOf(KeySequence) /\ KeySequence' = Without(KeySequence, k)
  BY DEF HandlerExpires, Delisted, IInv, ListMatchesMap
<1> QED
  BY <1>1, WithoutRemovesOne DEF IInv, TypeOK, ListMatchesMap

\* The head of the list, by which Prune and Switch choose the branch they
\* accept, is displaced by nothing but the removal of its own entry.
THEOREM HeadIsStable == Spec => HeadStable
<1> DEFINE Stable == KeySequence # <<>> /\ Head(KeySequence) \in Cache'
                        => KeySequence' # <<>> /\ Head(KeySequence') = Head(KeySequence)
<1>1. ASSUME IInv, [Next]_vars PROVE Stable \/ UNCHANGED vars
  <2>1. CASE UNCHANGED KeySequence
    BY <2>1
  <2>2. ASSUME NEW k \in Keys, AddAdded(k) PROVE Stable
    <3>1. KeySequence' = Append(KeySequence, k) /\ KeySequence \in Seq(Keys)
      BY <1>1, <2>2 DEF AddAdded, Enlisted, IInv, TypeOK
    <3> QED BY <3>1
  <2>3. ASSUME NEW k \in Keys, HandlerExpires(k) PROVE Stable
    <3>1. k \notin Cache'
      BY <2>3 DEF HandlerExpires, Unmapped
    <3>2. Head(KeySequence) # k => KeySequence' # <<>> /\ Head(KeySequence') = Head(KeySequence)
      BY <1>1, <2>3, ExpiryDelists
    <3> QED BY <3>1, <3>2
  <2>4. ASSUME Clear PROVE Stable
    BY <2>4 DEF Clear
  <2> QED
    BY <1>1, <2>1, <2>2, <2>3, <2>4
    DEF Next, vars, Add, AddRefreshed, AddDropped, Tick, TimerFires, TimerHandler,
        HandlerThrows, HandlerRearms, RunTimeoutHandler
<1>2. IInv /\ [Next]_vars => [Stable]_vars
  BY <1>1
<1> QED BY <1>2, SpecIInv, PTL DEF Spec, HeadStable

\* An endpoint heard within the timeout is not evicted, whatever the order in
\* which packets, timers and handlers ran.
THEOREM HeardKeysStay == Spec => HeardStays
<1> DEFINE Stays == \A k \in Cache : heard[k] < Timeout /\ ~cleared' => k \in Cache'
<1>1. ASSUME IInv, [Next]_vars PROVE Stays \/ UNCHANGED vars
  <2>1. CASE Cache \subseteq Cache'
    BY <2>1
  <2>2. ASSUME NEW k \in Keys, HandlerExpires(k) PROVE Stays
    <3>1. Cache' = Cache \ {k} /\ k \in Cache /\ AccessAge[k] >= Timeout
      BY <1>1, <2>2 DEF HandlerExpires, Unmapped, TimeToExpiry, IInv, TypeOK
    <3> QED BY <1>1, <3>1 DEF IInv, AgeIsHeard, TypeOK
  <2>3. ASSUME Clear PROVE Stays
    BY <2>3 DEF Clear
  <2> QED
    BY <1>1, <2>1, <2>2, <2>3
    DEF Next, vars, Add, AddRefreshed, AddDropped, AddAdded, Tick, TimerFires,
        TimerHandler, HandlerThrows, HandlerRearms, RunTimeoutHandler
<1>2. IInv /\ [Next]_vars => [Stays]_vars
  BY <1>1
<1> QED BY <1>2, SpecIInv, PTL DEF Spec, HeardStays

\* The timeout cache implements the abstract list of keys that the routing
\* model is built on: every handler appends an absent key while there is room,
\* removes one key, empties the list, or leaves it as it is.
THEOREM CacheImplementsList == Spec => Implements
<1>1. Init => Abstract!BranchInit
  BY DEF Init, Abstract!BranchInit
<1>2. ASSUME IInv, [Next]_vars PROVE [Abstract!BranchNext]_KeySequence
  <2>1. CASE UNCHANGED KeySequence
    BY <2>1
  <2>0. /\ Abstract!KeysOf(KeySequence) = KeysOf(KeySequence)
        /\ \A k : Abstract!Without(KeySequence, k) = Without(KeySequence, k)
    BY DEF Abstract!KeysOf, KeysOf, Abstract!Without, Without, Abstract!IteratorOf,
           IteratorOf, Abstract!RemoveAt, RemoveAt
  <2>2. ASSUME NEW k \in Keys, AddAdded(k) PROVE Abstract!BranchAdd(k)
    BY <1>2, <2>0, <2>2 DEF AddAdded, Enlisted, Full, IInv, TypeOK, ListMatchesMap,
                      Abstract!BranchAdd
  <2>3. ASSUME NEW k \in Keys, HandlerExpires(k) PROVE Abstract!BranchExpire(k)
    BY <1>2, <2>0, <2>3, ExpiryDelists DEF Abstract!BranchExpire
  <2>4. ASSUME Clear PROVE Abstract!BranchClear
    BY <2>4 DEF Clear, Abstract!BranchClear
  <2> QED
    BY <1>2, <2>1, <2>2, <2>3, <2>4
    DEF Next, vars, Add, AddRefreshed, AddDropped, Tick, TimerFires, TimerHandler,
        HandlerThrows, HandlerRearms, RunTimeoutHandler, Abstract!BranchNext
<1>3. IInv /\ [Next]_vars => [Abstract!BranchNext]_KeySequence
  BY <1>2
<1> QED BY <1>1, <1>3, SpecIInv, PTL DEF Spec, Implements, Abstract!BranchSpec
=============================================================================
