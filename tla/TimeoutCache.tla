---------------------------- MODULE TimeoutCache ----------------------------
(* TimeoutCache<T> (src/TimeoutCache.h): an unordered_map of entries, each   *)
(* with an asio::steady_timer and the time it was last accessed, and a list  *)
(* of the keys in insertion order.  Every operation runs on one asio strand, *)
(* so an action is a whole handler; the exception is the timeout handler,    *)
(* which TimerHandler posts to the bare io_context.                          *)
(*                                                                           *)
(* Only differences of steady_clock readings matter, so time is relative: an *)
(* entry has an age since its last access and its timer a time left, both    *)
(* moved by Tick.  Ages saturate at Timeout, past which nothing depends on   *)
(* them.                                                                     *)
EXTENDS Integers, KeySequences

CONSTANTS Keys,        \* what is cached: UDP endpoints
          Timeout,     \* timeout_ms, in ticks
          MaxSize,     \* maxSize; the default (no limit) is any value >= |Keys|
          MaxBacklog   \* bound: completions of one key waiting for a thread

ASSUME TimeoutAssumption == Timeout \in Nat
ASSUME MaxSizeAssumption == MaxSize \in Nat \ {0}
ASSUME MaxBacklogAssumption == MaxBacklog \in Nat \ {0}

VARIABLES KeySequence,  \* the keys, oldest first
          Cache,        \* the keys that have an entry in the map
          AccessAge,    \* now - entry.AccessTime
          Timer,        \* time left until the entry's timer fires, or NoWait
          fired,        \* how many timer completions of a key wait on the strand
          posted,       \* how many calls of timeout_handler(key) wait for a thread
          threw,        \* Cache.at(key) threw std::out_of_range
          heard,        \* history: time since the last Add(key)
          cleared       \* history: Clear() has been called (MiniPlex never does)

vars == <<KeySequence, Cache, AccessAge, Timer, fired, posted, threw, heard, cleared>>

\* No asynchronous wait is outstanding on the entry's timer.
NoWait == -1

Older(age) == IF age < Timeout THEN age + 1 ELSE age

Init ==
    /\ KeySequence = <<>>
    /\ Cache = {}
    /\ AccessAge = [k \in Keys |-> 0]
    /\ Timer = [k \in Keys |-> NoWait]
    /\ fired = [k \in Keys |-> 0]
    /\ posted = [k \in Keys |-> 0]
    /\ threw = FALSE
    /\ heard = [k \in Keys |-> Timeout]
    /\ cleared = FALSE

-----------------------------------------------------------------------------
(* Add(key), by its three results. *)

MutBumpLost(k) == AccessAge
\* entry.AccessTime = now().
Bumped(k) == [AccessAge EXCEPT ![k] = 0]

\* The size test that turns a new key away.
Full == Len(KeySequence) >= MaxSize

MutPushFront(k) == <<k>> \o KeySequence
\* KeySequence.emplace_back(key).
Enlisted(k) == Append(KeySequence, k)

\* REFRESHED: only the access time moves; the timer stays as it is armed.
AddRefreshed(k) ==
    /\ k \in Cache
    /\ AccessAge' = Bumped(k)
    /\ heard' = [heard EXCEPT ![k] = 0]
    /\ UNCHANGED <<KeySequence, Cache, Timer, fired, posted, threw, cleared>>

\* DROPPED: no room for a new key.
AddDropped(k) ==
    /\ k \notin Cache
    /\ Full
    /\ heard' = [heard EXCEPT ![k] = 0]
    /\ UNCHANGED <<KeySequence, Cache, AccessAge, Timer, fired, posted, threw, cleared>>

\* ADDED: a new entry at the back, its timer armed for the whole timeout.
AddAdded(k) ==
    /\ k \notin Cache
    /\ ~Full
    /\ KeySequence' = Enlisted(k)
    /\ Cache' = Cache \cup {k}
    /\ AccessAge' = Bumped(k)
    /\ Timer' = [Timer EXCEPT ![k] = Timeout]
    /\ heard' = [heard EXCEPT ![k] = 0]
    /\ UNCHANGED <<fired, posted, threw, cleared>>

Add(k) == AddRefreshed(k) \/ AddDropped(k) \/ AddAdded(k)

-----------------------------------------------------------------------------
(* The clock and the timers (asio). *)

Tick ==
    /\ AccessAge' = [k \in Keys |-> IF k \in Cache THEN Older(AccessAge[k])
                                                   ELSE AccessAge[k]]
    /\ Timer' = [k \in Keys |-> IF Timer[k] > 0 THEN Timer[k] - 1 ELSE Timer[k]]
    /\ heard' = [k \in Keys |-> Older(heard[k])]
    /\ UNCHANGED <<KeySequence, Cache, fired, posted, threw, cleared>>

\* The timer of an entry completes: its wait is over and TimerHandler(key) is
\* queued on the strand.
TimerFires(k) ==
    /\ k \in Cache
    /\ Timer[k] = 0
    /\ fired[k] < MaxBacklog
    /\ Timer' = [Timer EXCEPT ![k] = NoWait]
    /\ fired' = [fired EXCEPT ![k] = @ + 1]
    /\ UNCHANGED <<KeySequence, Cache, AccessAge, posted, threw, heard, cleared>>

-----------------------------------------------------------------------------
(* TimerHandler(key, err).  With err set (the entry, and its timer with it,  *)
(* was destroyed before the timer fired) it returns at once: no step.        *)

\* Cache.at(key) on a key that has no entry.
HandlerThrows(k) ==
    /\ fired[k] > 0
    /\ k \notin Cache
    /\ fired' = [fired EXCEPT ![k] = @ - 1]
    /\ threw' = TRUE
    /\ UNCHANGED <<KeySequence, Cache, AccessAge, Timer, posted, heard, cleared>>

MutWholeTimeout(k) == Timeout
\* time_to_expiry, for which the timer is armed again.
TimeToExpiry(k) == Timeout - AccessAge[k]

MutNotRearmed(k) == Timer
\* Timer.expires_from_now(time_to_expiry) and a new async_wait.
Rearmed(k) == [Timer EXCEPT ![k] = TimeToExpiry(k)]

\* The entry was refreshed since its timer was armed: wait for what is left.
HandlerRearms(k) ==
    /\ fired[k] > 0
    /\ k \in Cache
    /\ TimeToExpiry(k) > 0
    /\ fired' = [fired EXCEPT ![k] = @ - 1]
    /\ Timer' = Rearmed(k)
    /\ UNCHANGED <<KeySequence, Cache, AccessAge, posted, threw, heard, cleared>>

MutPopFront(k) == Tail(KeySequence)
\* KeySequence.erase(entry.KeySequenceIterator).
Delisted(k) == Without(KeySequence, k)

\* Cache.erase(key): the entry goes, and its timer with it.
Unmapped(k) == Cache \ {k}

\* The entry goes, from the list and from the map (its timer with it), and the
\* owner's timeout handler is posted to the io_context, off the strand.
HandlerExpires(k) ==
    /\ fired[k] > 0
    /\ k \in Cache
    /\ TimeToExpiry(k) <= 0
    /\ posted[k] < MaxBacklog
    /\ fired' = [fired EXCEPT ![k] = @ - 1]
    /\ KeySequence' = Delisted(k)
    /\ Cache' = Unmapped(k)
    /\ AccessAge' = [AccessAge EXCEPT ![k] = 0]
    /\ Timer' = [Timer EXCEPT ![k] = NoWait]
    /\ posted' = [posted EXCEPT ![k] = @ + 1]
    /\ UNCHANGED <<threw, heard, cleared>>

TimerHandler(k) == HandlerThrows(k) \/ HandlerRearms(k) \/ HandlerExpires(k)

\* The posted call of timeout_handler(key) runs; what it does is its owner's.
RunTimeoutHandler(k) ==
    /\ posted[k] > 0
    /\ posted' = [posted EXCEPT ![k] = @ - 1]
    /\ UNCHANGED <<KeySequence, Cache, AccessAge, Timer, fired, threw, heard, cleared>>

\* Clear() destroys every entry.  A wait still pending completes with an error
\* and changes nothing; a completion that is queued already stays queued.
Clear ==
    /\ KeySequence' = <<>>
    /\ Cache' = {}
    /\ AccessAge' = [k \in Keys |-> 0]
    /\ Timer' = [k \in Keys |-> NoWait]
    /\ cleared' = TRUE
    /\ UNCHANGED <<fired, posted, threw, heard>>

\* An exception out of a handler leaves io_context::run() and ends the program.
Next ==
    /\ ~threw
    /\ \/ Tick
       \/ Clear
       \/ \E k \in Keys : \/ Add(k)
                          \/ TimerFires(k)
                          \/ TimerHandler(k)
                          \/ RunTimeoutHandler(k)

Spec == Init /\ [][Next]_vars

\* Time passes, and the io_context runs what is ready.  Nothing is assumed of
\* the packets that cause Add.
Fairness ==
    /\ WF_vars(Tick)
    /\ \A k \in Keys : /\ WF_vars(TimerFires(k))
                       /\ WF_vars(TimerHandler(k))
                       /\ WF_vars(RunTimeoutHandler(k))

FairSpec == Spec /\ Fairness

-----------------------------------------------------------------------------
(* Properties *)

\* Every variable has its type.
TypeOK ==
    /\ KeySequence \in Seq(Keys)
    /\ Cache \in SUBSET Keys
    /\ AccessAge \in [Keys -> 0..Timeout]
    /\ Timer \in [Keys -> NoWait..Timeout]
    /\ fired \in [Keys -> 0..MaxBacklog]
    /\ posted \in [Keys -> 0..MaxBacklog]
    /\ threw \in BOOLEAN
    /\ heard \in [Keys -> 0..Timeout]
    /\ cleared \in BOOLEAN

\* The list and the map agree: the list names every entry exactly once and
\* nothing else (Add tests the map and appends to the list, TimerHandler erases
\* from both, the callers read only the list).
ListMatchesMap ==
    /\ NoRepeats(KeySequence)
    /\ KeysOf(KeySequence) = Cache

\* The cap of SetMaxSize holds through every mix of additions and expiries.
WithinMaxSize == Len(KeySequence) <= MaxSize

\* As long as Clear() is not called, an entry has exactly one way to expire: its
\* timer is armed, or one completion of it is queued; and no completion is
\* queued for a key without an entry, so Cache.at(key) in TimerHandler never
\* throws, even for a key that left the cache and came back.
OneWaitPerEntry ==
    ~cleared =>
        /\ \A k \in Keys : IF k \in Cache THEN (Timer[k] # NoWait) <=> (fired[k] = 0)
                                          ELSE fired[k] = 0
        /\ \A k \in Keys : fired[k] <= 1
        /\ ~threw

\* An armed timer never fires later than AccessTime + timeout, however often the
\* entry was refreshed and its timer re-armed: an idle entry does not outlive
\* its timeout by more than the time its completion waits for a thread.
ArmedInTime ==
    \A k \in Cache : Timer[k] # NoWait => Timer[k] <= Timeout - AccessAge[k]

\* The cache is well typed and every entry has exactly one expiry ahead of it, no
\* later than its timeout, as long as Clear() is not called.
ExpiryScheduled == TypeOK /\ OneWaitPerEntry /\ ArmedInTime

\* A key is not evicted within the timeout of its last Add (unless by Clear).
HeardStays ==
    [][\A k \in Cache : heard[k] < Timeout /\ ~cleared' => k \in Cache']_vars

\* The head of the list, by which Prune and Switch choose the one branch they
\* accept, changes only when the head's own entry is removed.
HeadStable ==
    [][KeySequence # <<>> /\ Head(KeySequence) \in Cache'
          => KeySequence' # <<>> /\ Head(KeySequence') = Head(KeySequence)]_vars

\* A key that falls silent is forgotten: at no point does it stay in the cache
\* for ever unless it is heard again and again (or Clear() is called: a completion
\* it leaves behind can end the program).
SilentForgotten ==
    \A k \in Keys : []<>(k \notin Cache \/ heard[k] = 0 \/ cleared)

\* The cache behaves as the abstract list of BranchCache.
Abstract == INSTANCE BranchCache WITH keys <- KeySequence
Implements == Abstract!BranchSpec
=============================================================================
