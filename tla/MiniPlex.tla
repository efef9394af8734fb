------------------------------ MODULE MiniPlex ------------------------------
(* The routing of MiniPlex (src/MiniPlex.cpp): which endpoints a received    *)
(* datagram is forwarded to in the four modes, and the branch state that     *)
(* decides it.  RcvHandler runs on process_strand, as do the timers of the   *)
(* caches; the timeout handler of ActiveBranches, which puts a permanent     *)
(* branch back among the inactive ones, does not.                            *)
(*                                                                           *)
(* The caches appear as the abstract lists of BranchCache.tla: an entry may  *)
(* expire at any moment between two handlers.  A forward is modelled by how  *)
(* many copies of the datagram each endpoint is sent; how the copies get out *)
(* is the business of RcvPool.tla.                                           *)
EXTENDS KeySequences

CONSTANTS
    Endpoints,        \* the UDP endpoints that exchange datagrams
    NoEndpoint,       \* a default-constructed endpoint: nobody's address
    Modes,            \* the modes the program is started in
    TrunkEp,          \* the endpoint given with -r/-t
    PermaBranches,    \* the endpoints given with -B/-b
    MaxBranchCache,   \* -O; 0 (no limit) is any value >= |Endpoints|
    MaxSwitchCache,   \* -n; likewise
    Addrs,            \* application addresses the byte code can extract
    NoAddrs,          \* no addresses: not inspected, or the byte code failed
    Idle,             \* no datagram is being handled on process_strand
    Pool,             \* -x >= 1: other threads run between a handler's steps
    MaxLate           \* bound: timeout handlers of one endpoint not yet run

ASSUME PermaAssumption == PermaBranches \subseteq Endpoints
ASSUME NoEndpointAssumption == NoEndpoint \notin Endpoints
ASSUME CacheMaxAssumption == MaxBranchCache \in Nat \ {0} /\ MaxSwitchCache \in Nat \ {0}
ASSUME ModesAssumption == Modes \subseteq {"Hub", "Trunk", "Prune", "Switch"}
ASSUME FlagAssumption == Pool \in BOOLEAN
ASSUME MaxLateAssumption == MaxLate \in Nat \ {0}
ASSUME NoAddrsAssumption == NoAddrs \notin [src : Addrs, dst : Addrs]

VARIABLES
    mode,                   \* which ModeHandler was bound
    ActiveBranches,         \* KeySequence of the cache of heard branches
    InactivePermaBranches,  \* permanent branches that are not heard
    AddrBranches,           \* per address, KeySequence of its cache of branches
    posted,                 \* timeout handlers waiting for a thread
    proc,                   \* the datagram between Branches() and ModeHandler()
    fwd,                    \* copies of the datagram this step sent to each endpoint
    late,                   \* history: branches re-listed as inactive while active
    partner,                \* history: the branch that Prune lets talk to the trunk
    owner,                  \* history: per address, the branch Switch accepts it from
    raced                   \* history: two threads were at InactivePermaBranches at once,
                            \* one of them changing it

vars == <<mode, ActiveBranches, InactivePermaBranches, AddrBranches, posted, proc,
          fwd, late, partner, owner, raced>>

\* What GetSrcDst can make of a datagram.  The byte code runs in Switch mode
\* only.
Inspections == {NoAddrs} \cup (IF mode = "Switch" THEN [src : Addrs, dst : Addrs] ELSE {})
Datagrams == [sender : Endpoints, addrs : Inspections]

trunk == IF mode \in {"Trunk", "Prune"} THEN TrunkEp ELSE NoEndpoint

NoCopies == [e \in Endpoints |-> 0]

Init ==
    /\ mode \in Modes
    /\ ActiveBranches = <<>>
    /\ InactivePermaBranches = PermaBranches
    /\ AddrBranches = [a \in Addrs |-> <<>>]
    /\ posted = [e \in Endpoints |-> 0]
    /\ proc = Idle
    /\ fwd = NoCopies
    /\ late = {}
    /\ partner = NoEndpoint
    /\ owner = [a \in Addrs |-> NoEndpoint]
    /\ raced = FALSE

-----------------------------------------------------------------------------
(* TimeoutCache::Add as the caller sees it. *)

Added(list, ep, max) == ep \notin KeysOf(list) /\ Len(list) < max
AfterAdd(list, ep, max) == IF Added(list, ep, max) THEN Append(list, ep) ELSE list

(* RcvHandler: Branches(rcv_sender), then ModeHandler(...). *)

MutNoErase(ep) == InactivePermaBranches
\* InactivePermaBranches.erase(ep), for an endpoint that Add has just ADDED.
Erased(ep) == InactivePermaBranches \ {ep}

\* A datagram from the trunk leaves the branches alone; any other sender is
\* cached or refreshed, and no longer inactive if it is new in the cache.
Branches(d) ==
    /\ proc = Idle
    /\ proc' = d
    /\ IF d.sender # trunk
       THEN /\ ActiveBranches' = AfterAdd(ActiveBranches, d.sender, MaxBranchCache)
            /\ IF Added(ActiveBranches, d.sender, MaxBranchCache)
               THEN /\ InactivePermaBranches' = Erased(d.sender)
                    /\ late' = late \ {d.sender}
               ELSE UNCHANGED <<InactivePermaBranches, late>>
       ELSE UNCHANGED <<ActiveBranches, InactivePermaBranches, late>>
    /\ fwd' = NoCopies
    /\ UNCHANGED <<mode, AddrBranches, posted, partner, owner, raced>>

MutToSender(sender, branches) == [e \in Endpoints |-> IF e \in branches \cap {sender} THEN 1 ELSE 0]
\* Forward to each of a set of branches, except back to the sender.
Forward(sender, branches) ==
    [e \in Endpoints |-> IF e \in branches \ {sender} THEN 1 ELSE 0]

MutActiveOnly(sender) == Forward(sender, KeysOf(ActiveBranches))
\* The two Forward calls of a broadcast.
Broadcast(sender) ==
    LET active == Forward(sender, KeysOf(ActiveBranches))
        inactive == Forward(sender, InactivePermaBranches)
    IN  [e \in Endpoints |-> active[e] + inactive[e]]

\* The end of the handler, having forwarded the given copies.
Done(copies) ==
    /\ proc' = Idle
    /\ fwd' = copies
    /\ UNCHANGED <<mode, ActiveBranches, InactivePermaBranches, posted, late, raced>>

Hub ==
    /\ proc # Idle /\ mode = "Hub"
    /\ Done(Broadcast(proc.sender))
    /\ UNCHANGED <<AddrBranches, partner, owner>>

Trunk ==
    /\ proc # Idle /\ mode = "Trunk"
    /\ Done(IF proc.sender = trunk THEN Broadcast(proc.sender)
                                   ELSE Forward(proc.sender, {trunk}))
    /\ UNCHANGED <<AddrBranches, partner, owner>>

\* *branches.begin(): the branch heard first among those still cached.
FirstHeard(list) == Head(list)

MutPrunesNone == FALSE
\* A branch other than the first heard is pruned.
Pruned ==
    /\ proc.sender # trunk
    /\ ActiveBranches # <<>>
    /\ proc.sender # FirstHeard(ActiveBranches)

Prune ==
    /\ proc # Idle /\ mode = "Prune"
    /\ \/ /\ Pruned
          /\ Done(NoCopies)
          /\ UNCHANGED partner
       \/ /\ ~Pruned /\ proc.sender = trunk /\ ActiveBranches = <<>>
          /\ Done(Forward(proc.sender, PermaBranches))
          /\ UNCHANGED partner
       \/ /\ ~Pruned /\ proc.sender = trunk /\ ActiveBranches # <<>>
          /\ Done(Forward(proc.sender, {FirstHeard(ActiveBranches)}))
          /\ partner' = FirstHeard(ActiveBranches)
       \/ /\ ~Pruned /\ proc.sender # trunk
          /\ Done(Forward(proc.sender, {trunk}))
          /\ partner' = proc.sender
    /\ UNCHANGED <<AddrBranches, owner>>

\* AddressBranches(rcv_sender,src,true) associates the sender with the source
\* address; AddressBranches(rcv_sender,dst) associates nothing.
Associated ==
    [AddrBranches EXCEPT ![proc.addrs.src] = AfterAdd(@, proc.sender, MaxSwitchCache)]

MutAnySource == TRUE
\* The sender is the active branch of the source address.
SourceAccepted == FirstHeard(AddrBranches'[proc.addrs.src]) = proc.sender

\* An inspected datagram associates its sender with the source address; if it is
\* accepted, the address is the sender's.
Associates ==
    /\ AddrBranches' = Associated
    /\ owner' = IF SourceAccepted THEN [owner EXCEPT ![proc.addrs.src] = proc.sender] ELSE owner

Switch ==
    /\ proc # Idle /\ mode = "Switch"
    /\ \/ /\ proc.addrs = NoAddrs
          /\ Done(NoCopies)
          /\ UNCHANGED <<AddrBranches, owner>>
       \/ /\ proc.addrs # NoAddrs
          /\ Associates
          /\ Done(IF ~SourceAccepted THEN NoCopies
                  ELSE IF AddrBranches'[proc.addrs.dst] = <<>> THEN Broadcast(proc.sender)
                  ELSE Forward(proc.sender, {FirstHeard(AddrBranches'[proc.addrs.dst])}))
    /\ UNCHANGED partner

ModeHandler == Hub \/ Trunk \/ Prune \/ Switch

\* The datagram is one to broadcast: in Hub mode, from the trunk, or in Switch mode to
\* an address that no branch is associated with.
BroadcastDue ==
    \/ mode = "Hub"
    \/ mode = "Trunk" /\ proc.sender = trunk
    \/ /\ mode = "Switch" /\ proc.addrs # NoAddrs
       /\ SourceAccepted /\ AddrBranches'[proc.addrs.dst] = <<>>

-----------------------------------------------------------------------------
(* Expiry.  TimerHandler runs on process_strand. *)

ExpireBranch(ep) ==
    /\ proc = Idle
    /\ ep \in KeysOf(ActiveBranches)
    /\ posted[ep] < MaxLate
    /\ ActiveBranches' = Without(ActiveBranches, ep)
    /\ posted' = [posted EXCEPT ![ep] = @ + 1]
    /\ partner' = IF partner = ep THEN NoEndpoint ELSE partner
    /\ fwd' = NoCopies
    /\ UNCHANGED <<mode, InactivePermaBranches, AddrBranches, proc, late, owner, raced>>

\* The timeout handler of an address cache only logs.
ExpireAddr(a, ep) ==
    /\ proc = Idle
    /\ ep \in KeysOf(AddrBranches[a])
    /\ AddrBranches' = [AddrBranches EXCEPT ![a] = Without(@, ep)]
    /\ owner' = IF owner[a] = ep THEN [owner EXCEPT ![a] = NoEndpoint] ELSE owner
    /\ fwd' = NoCopies
    /\ UNCHANGED <<mode, ActiveBranches, InactivePermaBranches, posted, proc,
                   late, partner, raced>>

MutReinstatedNone(ep) == InactivePermaBranches
\* What the timeout handler of ActiveBranches does to the inactive set.
Reinstated(ep) ==
    InactivePermaBranches \cup (IF ep \in PermaBranches THEN {ep} ELSE {})

\* The handler runs on any thread of the pool: with a single thread, between
\* two handlers; with more, also while process_strand is inside one.  It does
\* not look whether the branch was heard again in the meantime.
TimeoutHandler(ep) ==
    /\ posted[ep] > 0
    /\ Pool \/ proc = Idle
    /\ posted' = [posted EXCEPT ![ep] = @ - 1]
    /\ InactivePermaBranches' = Reinstated(ep)
    /\ late' = IF ep \in KeysOf(ActiveBranches) \cap PermaBranches THEN late \cup {ep} ELSE late
    /\ fwd' = NoCopies
    /\ UNCHANGED <<mode, ActiveBranches, AddrBranches, proc, partner, owner, raced>>

-----------------------------------------------------------------------------
(* The set of inactive branches is an unsynchronised std::set.  A timeout    *)
(* handler that inserts into it may run at the same time as another one, as  *)
(* the erase of Branches or as the iteration of a broadcast.  (What several  *)
(* such overlaps do is no more than what they do one after the other.)       *)

\* Two changes at once: each may be lost, and entries of the tree with it.
Torn(inserted) == SUBSET (InactivePermaBranches \cup inserted)

\* Two timeout handlers insert at once, on two threads.
InsertsRace(ep1, ep2) ==
    /\ Pool
    /\ {ep1, ep2} \subseteq PermaBranches
    /\ {ep1, ep2} \ InactivePermaBranches # {}
    /\ LET left == [posted EXCEPT ![ep1] = @ - 1]
       IN  /\ posted[ep1] > 0 /\ left[ep2] > 0
           /\ posted' = [left EXCEPT ![ep2] = @ - 1]
    /\ InactivePermaBranches' \in Torn({ep1, ep2})
    /\ raced' = TRUE
    /\ fwd' = NoCopies
    /\ UNCHANGED <<mode, ActiveBranches, AddrBranches, proc, late, partner, owner>>

\* A timeout handler inserts while Branches erases the sender it has just added.
InsertRacesErase(ep, d) ==
    /\ Pool
    /\ proc = Idle
    /\ posted[ep] > 0
    /\ ep \in PermaBranches
    /\ d.sender # trunk
    /\ Added(ActiveBranches, d.sender, MaxBranchCache)
    /\ d.sender \in InactivePermaBranches
    /\ proc' = d
    /\ ActiveBranches' = AfterAdd(ActiveBranches, d.sender, MaxBranchCache)
    /\ posted' = [posted EXCEPT ![ep] = @ - 1]
    /\ InactivePermaBranches' \in Torn({ep})
    /\ raced' = TRUE
    /\ fwd' = NoCopies
    /\ UNCHANGED <<mode, AddrBranches, late, partner, owner>>

\* A timeout handler inserts while a broadcast iterates over the set: the iteration
\* comes by each element once, misses it, or comes by it again.
InsertRacesBroadcast(ep, seen) ==
    /\ Pool
    /\ proc # Idle
    /\ posted[ep] > 0
    /\ ep \in PermaBranches \ InactivePermaBranches
    /\ \A e \in PermaBranches : seen[e] > 0 => e \in Reinstated(ep)
    /\ IF mode = "Switch" THEN proc.addrs # NoAddrs /\ Associates
                          ELSE UNCHANGED <<AddrBranches, owner>>
    /\ BroadcastDue
    /\ proc' = Idle
    /\ fwd' = [e \in Endpoints |-> Forward(proc.sender, KeysOf(ActiveBranches))[e]
                   + IF e \in PermaBranches \ {proc.sender} THEN seen[e] ELSE 0]
    /\ posted' = [posted EXCEPT ![ep] = @ - 1]
    /\ InactivePermaBranches' = Reinstated(ep)
    /\ raced' = TRUE
    /\ UNCHANGED <<mode, ActiveBranches, late, partner>>

-----------------------------------------------------------------------------
Next ==
    \/ \E d \in Datagrams : Branches(d)
    \/ Hub
    \/ Trunk
    \/ Prune
    \/ Switch
    \/ \E ep \in Endpoints : ExpireBranch(ep)
    \/ \E a \in Addrs, ep \in Endpoints : ExpireAddr(a, ep)
    \/ \E ep \in Endpoints : TimeoutHandler(ep)
    \/ \E ep1, ep2 \in Endpoints : InsertsRace(ep1, ep2)
    \/ \E ep \in Endpoints, d \in Datagrams : InsertRacesErase(ep, d)
    \/ \E ep \in Endpoints, seen \in [PermaBranches -> 0..2] : InsertRacesBroadcast(ep, seen)

Spec == Init /\ [][Next]_vars

\* The io_context runs what is posted to it: the handler under way ends, and a
\* posted timeout handler gets its turn, however busy the strand is.
Fairness ==
    /\ WF_vars(ModeHandler)
    /\ \A ep \in Endpoints : SF_vars(TimeoutHandler(ep))

FairSpec == Spec /\ Fairness

-----------------------------------------------------------------------------
(* Properties *)

\* Every variable has its type.
TypeOK ==
    /\ mode \in Modes
    /\ ActiveBranches \in Seq(Endpoints)
    /\ InactivePermaBranches \in SUBSET PermaBranches
    /\ AddrBranches \in [Addrs -> Seq(Endpoints)]
    /\ posted \in [Endpoints -> 0..MaxLate]
    /\ proc \in Datagrams \cup {Idle}
    /\ fwd \in [Endpoints -> 0..3]
    /\ late \in SUBSET PermaBranches
    /\ partner \in Endpoints \cup {NoEndpoint}
    /\ owner \in [Addrs -> Endpoints \cup {NoEndpoint}]
    /\ raced \in BOOLEAN

\* The state is well typed, and a permanent branch is never lost: it is cached as
\* active, listed as inactive, or its timeout handler, which will list it, is still
\* to run; unless two threads were at the set of inactive branches at once, two
\* timeout handlers or one and process_strand, which can lose it for good.
PermaKept ==
    ~raced => \A p \in PermaBranches : \/ p \in KeysOf(ActiveBranches)
                                       \/ p \in InactivePermaBranches
                                       \/ posted[p] > 0
PermaCovered == TypeOK /\ PermaKept

\* A branch is both active and inactive (and gets every broadcast twice) only
\* if its timeout handler ran after it was heard again, and no longer than until
\* it is next added: nothing else makes the two sets overlap.
OverlapIsLate == ~raced => KeysOf(ActiveBranches) \cap InactivePermaBranches \subseteq late

\* A handler has just forwarded.
Handled == proc # Idle /\ proc' = Idle

\* A broadcast (of Hub, of Trunk from the trunk, of Switch to an address without a
\* branch) reaches every active branch, and every permanent branch except in the
\* window between its expiry and its timeout handler, until two threads meet at the
\* set of inactive branches; no datagram ever goes back to its sender.
BroadcastReaches ==
    [][Handled => /\ fwd'[proc.sender] = 0
                  /\ BroadcastDue /\ ~raced' =>
                       \A e \in Endpoints \ {proc.sender} :
                           \/ e \in KeysOf(ActiveBranches)
                           \/ e \in PermaBranches /\ posted[e] = 0
                           => fwd'[e] > 0]_vars

\* In Prune mode only one branch at a time is in conversation with the trunk: a
\* second one gets its turn only when the first has expired.
PruneOneFlow ==
    [][partner # NoEndpoint /\ partner' # NoEndpoint => partner' = partner]_vars

\* In Switch mode an address belongs to the branch it was first accepted from
\* until that branch's association expires.
SwitchOneOwner ==
    [][\A a \in Addrs : owner[a] # NoEndpoint /\ owner'[a] # NoEndpoint
                        => owner'[a] = owner[a]]_vars

\* While an address has an owner, datagrams to it that are accepted from their source
\* go to the owner (unless it is their sender), and nothing goes to anybody else.
UnicastToOwner ==
    [][Handled /\ mode = "Switch" /\ proc.addrs # NoAddrs /\ owner[proc.addrs.dst] # NoEndpoint
          => \A e \in Endpoints : fwd'[e] > 0 <=> /\ e = owner[proc.addrs.dst]
                                                 /\ e # proc.sender
                                                 /\ owner'[proc.addrs.src] = proc.sender]_vars

\* The window in which a permanent branch is in neither set always closes, again
\* unless two threads were at the set at once and an insert may have been lost.
PermaReturns ==
    \A p \in PermaBranches :
        []<>(p \in KeysOf(ActiveBranches) \cup InactivePermaBranches \/ raced)

\* No broadcast sends a datagram to the same endpoint twice.
NoDuplicateForward ==
    \A e \in Endpoints : fwd[e] <= 1
=============================================================================
