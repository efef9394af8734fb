--------------------------- MODULE MiniPlexProofs ---------------------------
(* Proofs about the routing of MiniPlex, for any endpoints, permanent        *)
(* branches, cache limits, addresses and number of threads.                  *)
EXTENDS MiniPlex, FiniteSetTheorems, TLAPS

-----------------------------------------------------------------------------
(* Lists of keys *)

\* Appending a key that the list does not hold (emplace_back in Add) keeps the
\* keys distinct and adds just that key.
LEMMA AppendKeepsDistinct ==
    ASSUME NEW K, NEW s \in Seq(K), NEW k \in K,
           NoRepeats(s), k \notin KeysOf(s)
    PROVE  /\ Append(s, k) \in Seq(K)
           /\ NoRepeats(Append(s, k))
           /\ KeysOf(Append(s, k)) = KeysOf(s) \cup {k}
           /\ Len(Append(s, k)) = Len(s) + 1
<1> DEFINE t == Append(s, k)
<1>1. /\ t \in Seq(K)
      /\ Len(t) = Len(s) + 1
      /\ \A i \in 1..Len(s) : t[i] = s[i]
      /\ t[Len(s) + 1] = k
  OBVIOUS
<1>2. \A i \in 1..Len(s) : s[i] # k
  BY DEF KeysOf
<1>3. NoRepeats(t)
  BY <1>1, <1>2 DEF NoRepeats
<1>4. KeysOf(t) = KeysOf(s) \cup {k}
  <2>1. KeysOf(t) \subseteq KeysOf(s) \cup {k}
    BY <1>1 DEF KeysOf
  <2>2. KeysOf(s) \cup {k} \subseteq KeysOf(t)
    BY <1>1 DEF KeysOf
  <2> QED BY <2>1, <2>2
<1> QED BY <1>1, <1>3, <1>4

\* Erasing a key of the list at its iterator (TimerHandler) removes just that
\* key, keeps the rest distinct, and leaves the head alone unless it is the
\* head that goes.
LEMMA WithoutRemovesOne ==
    ASSUME NEW K, NEW s \in Seq(K), NEW k \in KeysOf(s), NoRepeats(s)
    PROVE  /\ Without(s, k) \in Seq(K)
           /\ NoRepeats(Without(s, k))
           /\ KeysOf(Without(s, k)) = KeysOf(s) \ {k}
           /\ Len(Without(s, k)) = Len(s) - 1
           /\ Head(s) # k => /\ Without(s, k) # <<>>
                             /\ Head(Without(s, k)) = Head(s)
<1> DEFINE p == IteratorOf(s, k)
           t == Without(s, k)
<1>1. p \in 1..Len(s) /\ s[p] = k
  BY DEF IteratorOf, KeysOf
<1>2. \A i \in 1..Len(s) : s[i] = k => i = p
  BY <1>1 DEF NoRepeats
<1>3. t = SubSeq(s, 1, p - 1) \o SubSeq(s, p + 1, Len(s))
  BY DEF Without, RemoveAt
<1> HIDE DEF p, t
<1>4. /\ t \in Seq(K)
      /\ Len(t) = Len(s) - 1
      /\ \A i \in 1..Len(t) : t[i] = IF i < p THEN s[i] ELSE s[i + 1]
  <2> DEFINE a == SubSeq(s, 1, p - 1)
             b == SubSeq(s, p + 1, Len(s))
  <2>1. /\ a \in Seq(K)
        /\ Len(a) = p - 1
        /\ \A i \in 1..(p - 1) : a[i] = s[i]
    BY <1>1
  <2>2. /\ b \in Seq(K)
        /\ Len(b) = Len(s) - p
        /\ \A i \in 1..(Len(s) - p) : b[i] = s[p + i]
    BY <1>1
  <2>3. t = a \o b
    BY <1>3
  <2> HIDE DEF a, b
  <2>4. t \in Seq(K) /\ Len(t) = Len(s) - 1
    BY <1>1, <2>1, <2>2, <2>3
  <2>5. ASSUME NEW i \in 1..Len(t)
        PROVE  t[i] = IF i < p THEN s[i] ELSE s[i + 1]
    <3>1. t[i] = IF i <= Len(a) THEN a[i] ELSE b[i - Len(a)]
      BY <1>1, <2>1, <2>2, <2>3, <2>4
    <3>2. CASE i < p
      BY <1>1, <2>1, <3>1, <3>2
    <3>3. CASE i >= p
      <4>1. i - Len(a) \in 1..(Len(s) - p) /\ p + (i - Len(a)) = i + 1
        BY <1>1, <2>1, <2>4, <3>3
      <4> QED BY <1>1, <2>1, <2>2, <3>1, <3>3, <4>1
    <3> QED BY <1>1, <3>2, <3>3
  <2> QED BY <2>4, <2>5
<1>5. NoRepeats(t)
  BY <1>1, <1>4 DEF NoRepeats
<1>6. KeysOf(t) = KeysOf(s) \ {k}
  <2>1. KeysOf(t) \subseteq KeysOf(s) \ {k}
    BY <1>1, <1>2, <1>4 DEF KeysOf
  <2>2. ASSUME NEW x \in KeysOf(s) \ {k}
        PROVE  x \in KeysOf(t)
    <3>1. PICK i \in 1..Len(s) : s[i] = x
      BY DEF KeysOf
    <3>2. CASE i < p
      BY <1>1, <1>4, <3>1, <3>2 DEF KeysOf
    <3>3. CASE i > p
      <4>1. i - 1 \in 1..Len(t) /\ t[i - 1] = s[i]
        BY <1>1, <1>4, <3>3
      <4> QED BY <3>1, <4>1 DEF KeysOf
    <3> QED BY <1>1, <3>1, <3>2, <3>3
  <2> QED BY <2>1, <2>2
<1>7. ASSUME Head(s) # k PROVE t # <<>> /\ Head(t) = Head(s)
  <2>1. p # 1
    BY <1>1, <1>7
  <2>2. Len(t) >= 1 /\ t[1] = s[1]
    BY <1>1, <1>4, <2>1
  <2> QED BY <1>4, <2>2
<1> QED BY <1>4, <1>5, <1>6, <1>7 DEF t

-----------------------------------------------------------------------------
(* The invariant *)

USE PermaAssumption, NoEndpointAssumption, CacheMaxAssumption, FlagAssumption, MaxLateAssumption

-----------------------------------------------------------------------------
(* The lists the caches keep *)

\* What Add does to the list of a cache: the keys stay distinct, the head stays,
\* and the list is not empty afterwards.
LEMMA AfterAddList ==
    ASSUME NEW s \in Seq(Endpoints), NoRepeats(s), NEW ep \in Endpoints, NEW max \in Nat \ {0}
    PROVE  /\ AfterAdd(s, ep, max) \in Seq(Endpoints)
           /\ NoRepeats(AfterAdd(s, ep, max))
           /\ Added(s, ep, max) => KeysOf(AfterAdd(s, ep, max)) = KeysOf(s) \cup {ep}
           /\ ~Added(s, ep, max) => AfterAdd(s, ep, max) = s
           /\ AfterAdd(s, ep, max) # <<>>
           /\ s # <<>> => Head(AfterAdd(s, ep, max)) = Head(s)
<1>1. CASE Added(s, ep, max)
  <2>1. AfterAdd(s, ep, max) = Append(s, ep)
    BY <1>1 DEF AfterAdd
  <2>2. /\ Append(s, ep) \in Seq(Endpoints)
        /\ NoRepeats(Append(s, ep))
        /\ KeysOf(Append(s, ep)) = KeysOf(s) \cup {ep}
    BY <1>1, AppendKeepsDistinct DEF Added
  <2>3. Append(s, ep) # <<>> /\ (s # <<>> => Head(Append(s, ep)) = Head(s))
    OBVIOUS
  <2> QED BY <1>1, <2>1, <2>2, <2>3
<1>2. CASE ~Added(s, ep, max)
  <2>1. AfterAdd(s, ep, max) = s
    BY <1>2 DEF AfterAdd
  <2>2. s # <<>>
    BY <1>2 DEF Added, KeysOf
  <2> QED BY <1>2, <2>1, <2>2
<1> QED BY <1>1, <1>2

-----------------------------------------------------------------------------
(* The inductive invariant *)

\* The lists of the caches are typed and free of repeats.
ListsOK ==
    /\ ActiveBranches \in Seq(Endpoints)
    /\ NoRepeats(ActiveBranches)
    /\ AddrBranches \in [Addrs -> Seq(Endpoints)]
    /\ \A a \in Addrs : NoRepeats(AddrBranches[a])

\* The part of the state that the invariants below speak about is typed.
StateOK ==
    /\ InactivePermaBranches \in SUBSET PermaBranches
    /\ posted \in [Endpoints -> 0..MaxLate]
    /\ proc # Idle => /\ proc.sender \in Endpoints
                      /\ proc.addrs # NoAddrs => proc.addrs \in [src : Addrs, dst : Addrs]
    /\ partner \in Endpoints \cup {NoEndpoint}
    /\ owner \in [Addrs -> Endpoints \cup {NoEndpoint}]

\* While a branch's datagram is handled, some branch is cached.
SenderListed == proc # Idle /\ proc.sender # trunk => ActiveBranches # <<>>

\* The branch in conversation with the trunk heads the list of branches.
PartnerIsHead ==
    partner # NoEndpoint => ActiveBranches # <<>> /\ partner = Head(ActiveBranches)

\* The owner of an address heads the list of that address.
OwnerIsHead ==
    \A a \in Addrs : owner[a] # NoEndpoint
        => AddrBranches[a] # <<>> /\ owner[a] = Head(AddrBranches[a])

RInv ==
    /\ ListsOK
    /\ StateOK
    /\ SenderListed
    /\ PartnerIsHead
    /\ OwnerIsHead
    /\ PermaKept
    /\ OverlapIsLate

\* The constructor establishes the invariant: every permanent branch starts
\* inactive.
LEMMA InitRInv == Init => RInv
<1> SUFFICES ASSUME Init PROVE RInv
  OBVIOUS
<1>1. ListsOK
  BY DEF Init, ListsOK, NoRepeats
<1>2. StateOK
  BY DEF Init, StateOK
<1>3. SenderListed /\ PartnerIsHead /\ OwnerIsHead
  BY DEF Init, SenderListed, PartnerIsHead, OwnerIsHead
<1>4. PermaKept /\ OverlapIsLate
  BY DEF Init, PermaKept, OverlapIsLate, KeysOf
<1> QED BY <1>1, <1>2, <1>3, <1>4 DEF RInv

\* Branches(), run for a datagram, keeps the invariant.
LEMMA BranchesRInv ==
    ASSUME RInv, NEW d \in Datagrams, Branches(d)
    PROVE  RInv'
<1> USE DEF RInv
<1>0. /\ d.sender \in Endpoints
      /\ d.addrs # NoAddrs => d.addrs \in [src : Addrs, dst : Addrs]
  BY DEF Datagrams, Inspections
<1>1. CASE d.sender = trunk
  <2>1. UNCHANGED <<ActiveBranches, InactivePermaBranches, late, mode, AddrBranches, posted,
                    partner, owner, raced>> /\ proc' = d /\ trunk' = trunk
    BY <1>1 DEF Branches, trunk
  <2>2. ListsOK'
    BY <2>1 DEF ListsOK
  <2>3. StateOK'
    BY <1>0, <2>1 DEF StateOK
  <2>4. SenderListed'
    BY <1>1, <2>1 DEF SenderListed
  <2>5. PartnerIsHead' /\ OwnerIsHead'
    BY <2>1 DEF PartnerIsHead, OwnerIsHead
  <2>6. PermaKept' /\ OverlapIsLate'
    BY <2>1 DEF PermaKept, OverlapIsLate
  <2> QED BY <2>2, <2>3, <2>4, <2>5, <2>6
<1>2. CASE d.sender # trunk
  <2> DEFINE new == AfterAdd(ActiveBranches, d.sender, MaxBranchCache)
             ok == Added(ActiveBranches, d.sender, MaxBranchCache)
  <2>1. /\ ActiveBranches' = new
        /\ proc' = d
        /\ UNCHANGED <<mode, AddrBranches, posted, partner, owner, raced>>
    BY <1>2 DEF Branches
  <2>2. /\ new \in Seq(Endpoints)
        /\ NoRepeats(new)
        /\ ok => KeysOf(new) = KeysOf(ActiveBranches) \cup {d.sender}
        /\ ~ok => new = ActiveBranches
        /\ new # <<>>
        /\ ActiveBranches # <<>> => Head(new) = Head(ActiveBranches)
    BY <1>0, AfterAddList DEF ListsOK
  <2>3. /\ ok => /\ InactivePermaBranches' = InactivePermaBranches \ {d.sender}
                 /\ late' = late \ {d.sender}
        /\ ~ok => UNCHANGED <<InactivePermaBranches, late>>
    BY <1>2 DEF Branches, Erased
  <2> HIDE DEF new, ok
  <2>4. ListsOK'
    BY <2>1, <2>2 DEF ListsOK
  <2>5. StateOK'
    BY <1>0, <2>1, <2>3 DEF StateOK
  <2>6. SenderListed' /\ PartnerIsHead'
    BY <2>1, <2>2 DEF SenderListed, PartnerIsHead
  <2>7. OwnerIsHead'
    BY <2>1 DEF OwnerIsHead
  <2>8. PermaKept'
    BY <2>1, <2>2, <2>3 DEF PermaKept
  <2>9. OverlapIsLate'
    BY <2>1, <2>2, <2>3 DEF OverlapIsLate
  <2> QED BY <2>4, <2>5, <2>6, <2>7, <2>8, <2>9
<1> QED BY <1>1, <1>2

\* A mode handler that leaves the address caches and the histories alone keeps
\* the invariant.
LEMMA DoneRInv ==
    ASSUME RInv, NEW copies, Done(copies), UNCHANGED <<AddrBranches, partner, owner>>
    PROVE  RInv'
<1> USE DEF RInv, Done
<1>1. ListsOK' /\ StateOK' /\ SenderListed' /\ PartnerIsHead' /\ OwnerIsHead'
  BY DEF ListsOK, StateOK, SenderListed, PartnerIsHead, OwnerIsHead
<1>2. PermaKept' /\ OverlapIsLate'
  BY DEF PermaKept, OverlapIsLate
<1> QED BY <1>1, <1>2

\* Prune keeps the invariant: whom it lets talk to the trunk heads the list.
LEMMA PruneRInv == RInv /\ Prune => RInv'
<1> SUFFICES ASSUME RInv, Prune PROVE RInv'
  OBVIOUS
<1> USE DEF RInv
<1>1. CASE UNCHANGED partner
  BY <1>1, DoneRInv DEF Prune
<1>2. CASE partner' # partner
  <2>1. /\ partner' = Head(ActiveBranches)
        /\ ActiveBranches # <<>>
    BY <1>2 DEF Prune, Pruned, FirstHeard, SenderListed
  <2>2. UNCHANGED <<mode, ActiveBranches, InactivePermaBranches, posted, late, AddrBranches,
                    owner, raced>> /\ proc' = Idle
    BY <1>2 DEF Prune, Done
  <2>3. Head(ActiveBranches) \in Endpoints
    BY <2>1 DEF ListsOK
  <2>4. ListsOK' /\ StateOK' /\ SenderListed' /\ PartnerIsHead' /\ OwnerIsHead'
    BY <2>1, <2>2, <2>3 DEF ListsOK, StateOK, SenderListed, PartnerIsHead, OwnerIsHead
  <2>5. PermaKept' /\ OverlapIsLate'
    BY <2>2 DEF PermaKept, OverlapIsLate
  <2> QED BY <2>4, <2>5
<1> QED BY <1>1, <1>2

\* What an inspected datagram does to the caches of the addresses in Switch
\* mode, and what accepting it means.
LEMMA SwitchAssociates ==
    ASSUME RInv, proc # Idle, proc.addrs # NoAddrs, Associates
    PROVE  /\ proc.sender \in Endpoints
           /\ proc.addrs.src \in Addrs /\ proc.addrs.dst \in Addrs
           /\ AddrBranches' \in [Addrs -> Seq(Endpoints)]
           /\ \A a \in Addrs : /\ NoRepeats(AddrBranches'[a])
                               /\ AddrBranches[a] # <<>> =>
                                    /\ AddrBranches'[a] # <<>>
                                    /\ Head(AddrBranches'[a]) = Head(AddrBranches[a])
           /\ AddrBranches'[proc.addrs.src] # <<>>
           /\ \/ /\ SourceAccepted
                 /\ Head(AddrBranches'[proc.addrs.src]) = proc.sender
                 /\ owner' = [owner EXCEPT ![proc.addrs.src] = proc.sender]
              \/ ~SourceAccepted /\ UNCHANGED owner
<1> DEFINE src == proc.addrs.src
           new == AfterAdd(AddrBranches[src], proc.sender, MaxSwitchCache)
<1>1. proc.sender \in Endpoints /\ src \in Addrs /\ proc.addrs.dst \in Addrs
  BY DEF RInv, StateOK
<1>2. /\ AddrBranches \in [Addrs -> Seq(Endpoints)]
      /\ \A a \in Addrs : NoRepeats(AddrBranches[a])
  BY DEF RInv, ListsOK
<1>3. /\ new \in Seq(Endpoints)
      /\ NoRepeats(new)
      /\ new # <<>>
      /\ AddrBranches[src] # <<>> => Head(new) = Head(AddrBranches[src])
  BY <1>1, <1>2, AfterAddList
<1>4. AddrBranches' = [AddrBranches EXCEPT ![src] = new]
  BY DEF Associates, Associated
<1> HIDE DEF new
<1>5. \/ /\ SourceAccepted
         /\ Head(AddrBranches'[src]) = proc.sender
         /\ owner' = [owner EXCEPT ![src] = proc.sender]
      \/ ~SourceAccepted /\ UNCHANGED owner
  BY DEF Associates, SourceAccepted, FirstHeard
<1>6. AddrBranches'[src] = new /\ \A a \in Addrs \ {src} : AddrBranches'[a] = AddrBranches[a]
  BY <1>1, <1>2, <1>4
<1>7. AddrBranches' \in [Addrs -> Seq(Endpoints)]
  BY <1>1, <1>2, <1>3, <1>4
<1> QED BY <1>1, <1>2, <1>3, <1>5, <1>6, <1>7

\* Associating keeps the lists of the addresses and their owners in order: whom an
\* address is accepted from heads its list.
LEMMA AssociatesKeepsOwners ==
    ASSUME RInv, proc # Idle, proc.addrs # NoAddrs, Associates, UNCHANGED ActiveBranches
    PROVE  /\ ListsOK'
           /\ owner' \in [Addrs -> Endpoints \cup {NoEndpoint}]
           /\ OwnerIsHead'
<1> USE DEF RInv
<1>1. ListsOK'
  BY SwitchAssociates DEF ListsOK
<1>2. owner' \in [Addrs -> Endpoints \cup {NoEndpoint}]
  BY SwitchAssociates DEF StateOK
<1>3. OwnerIsHead'
  BY SwitchAssociates DEF OwnerIsHead, StateOK
<1> QED BY <1>1, <1>2, <1>3

\* Switch keeps the invariant.
LEMMA SwitchRInv == RInv /\ Switch => RInv'
<1> SUFFICES ASSUME RInv, Switch PROVE RInv'
  OBVIOUS
<1>1. CASE proc.addrs = NoAddrs
  BY <1>1, DoneRInv DEF Switch
<1>2. CASE proc.addrs # NoAddrs
  <2> USE DEF RInv
  <2>1. /\ UNCHANGED <<mode, ActiveBranches, InactivePermaBranches, posted, late, partner, raced>>
        /\ proc # Idle /\ proc' = Idle /\ Associates
    BY <1>2 DEF Switch, Done
  <2>2. ListsOK' /\ owner' \in [Addrs -> Endpoints \cup {NoEndpoint}] /\ OwnerIsHead'
    BY <1>2, <2>1, AssociatesKeepsOwners
  <2>4. StateOK' /\ SenderListed' /\ PartnerIsHead'
    BY <2>1, <2>2 DEF StateOK, SenderListed, PartnerIsHead
  <2>6. PermaKept' /\ OverlapIsLate'
    BY <2>1 DEF PermaKept, OverlapIsLate
  <2> QED BY <2>2, <2>4, <2>6
<1> QED BY <1>1, <1>2

\* The expiry of a branch keeps the invariant: a permanent branch that leaves
\* the cache has its timeout handler posted in the same step.
LEMMA ExpireBranchRInv ==
    ASSUME RInv, NEW ep \in Endpoints, ExpireBranch(ep)
    PROVE  RInv'
<1> USE DEF RInv
<1> DEFINE new == Without(ActiveBranches, ep)
<1>1. /\ new \in Seq(Endpoints)
      /\ NoRepeats(new)
      /\ KeysOf(new) = KeysOf(ActiveBranches) \ {ep}
      /\ Head(ActiveBranches) # ep => new # <<>> /\ Head(new) = Head(ActiveBranches)
  BY WithoutRemovesOne DEF ExpireBranch, ListsOK
<1>2. /\ ActiveBranches' = new
      /\ UNCHANGED <<mode, InactivePermaBranches, AddrBranches, proc, late, owner, raced>>
      /\ proc = Idle
      /\ partner' = IF partner = ep THEN NoEndpoint ELSE partner
  BY DEF ExpireBranch
<1>3. posted' \in [Endpoints -> 0..MaxLate] /\ posted'[ep] > 0
      /\ \A e \in Endpoints \ {ep} : posted'[e] = posted[e]
  BY DEF ExpireBranch, StateOK
<1> HIDE DEF new
<1>4. ListsOK' /\ OwnerIsHead'
  BY <1>1, <1>2 DEF ListsOK, OwnerIsHead
<1>5. StateOK' /\ SenderListed'
  BY <1>2, <1>3 DEF StateOK, SenderListed
<1>6. PartnerIsHead'
  BY <1>1, <1>2 DEF PartnerIsHead
<1>7. PermaKept'
  BY <1>1, <1>2, <1>3 DEF PermaKept
<1>8. OverlapIsLate'
  BY <1>1, <1>2 DEF OverlapIsLate
<1> QED BY <1>4, <1>5, <1>6, <1>7, <1>8

\* The expiry of a branch from the cache of an address keeps the invariant.
LEMMA ExpireAddrRInv ==
    ASSUME RInv, NEW a \in Addrs, NEW ep \in Endpoints, ExpireAddr(a, ep)
    PROVE  RInv'
<1> USE DEF RInv
<1> DEFINE new == Without(AddrBranches[a], ep)
<1>1. AddrBranches[a] \in Seq(Endpoints) /\ NoRepeats(AddrBranches[a])
  BY DEF ListsOK
<1>2. /\ new \in Seq(Endpoints)
      /\ NoRepeats(new)
      /\ Head(AddrBranches[a]) # ep => new # <<>> /\ Head(new) = Head(AddrBranches[a])
  BY <1>1, WithoutRemovesOne DEF ExpireAddr
<1>3. /\ AddrBranches' = [AddrBranches EXCEPT ![a] = new]
      /\ UNCHANGED <<mode, ActiveBranches, InactivePermaBranches, posted, proc, late, partner,
                     raced>>
      /\ owner' = IF owner[a] = ep THEN [owner EXCEPT ![a] = NoEndpoint] ELSE owner
  BY DEF ExpireAddr
<1> HIDE DEF new
<1>4. ListsOK'
  BY <1>2, <1>3 DEF ListsOK
<1>5. owner' \in [Addrs -> Endpoints \cup {NoEndpoint}]
  BY <1>3 DEF StateOK
<1>6. StateOK' /\ SenderListed' /\ PartnerIsHead'
  BY <1>3, <1>5 DEF StateOK, SenderListed, PartnerIsHead, trunk
<1>7. OwnerIsHead'
  BY <1>2, <1>3 DEF OwnerIsHead, StateOK, ListsOK
<1>8. PermaKept' /\ OverlapIsLate'
  BY <1>3 DEF PermaKept, OverlapIsLate
<1> QED BY <1>4, <1>6, <1>7, <1>8

\* The timeout handler keeps the invariant: the branch it stops covering is
\* listed as inactive in the same step.
LEMMA TimeoutHandlerRInv ==
    ASSUME RInv, NEW ep \in Endpoints, TimeoutHandler(ep)
    PROVE  RInv'
<1> USE DEF RInv
<1>1. /\ UNCHANGED <<mode, ActiveBranches, AddrBranches, proc, partner, owner, raced>>
      /\ trunk' = trunk
  BY DEF TimeoutHandler, trunk
<1>2. posted' \in [Endpoints -> 0..MaxLate] /\ \A e \in Endpoints \ {ep} : posted'[e] = posted[e]
  BY DEF TimeoutHandler, StateOK
<1>3. /\ InactivePermaBranches' \in SUBSET PermaBranches
      /\ ep \in PermaBranches => InactivePermaBranches' = InactivePermaBranches \cup {ep}
      /\ ep \notin PermaBranches => InactivePermaBranches' = InactivePermaBranches
  BY DEF TimeoutHandler, Reinstated, StateOK
<1>4. late' = IF ep \in KeysOf(ActiveBranches) \cap PermaBranches THEN late \cup {ep} ELSE late
  BY DEF TimeoutHandler
<1>5. ListsOK' /\ SenderListed' /\ PartnerIsHead' /\ OwnerIsHead'
  BY <1>1 DEF ListsOK, SenderListed, PartnerIsHead, OwnerIsHead
<1>6. StateOK'
  BY <1>1, <1>2, <1>3 DEF StateOK
<1>7. PermaKept'
  BY <1>1, <1>2, <1>3 DEF PermaKept
<1>8. OverlapIsLate'
  BY <1>1, <1>3, <1>4 DEF OverlapIsLate
<1> QED BY <1>5, <1>6, <1>7, <1>8

\* Two inserts at once, whatever they leave of the set, keep the rest of the
\* invariant.
LEMMA InsertsRaceRInv ==
    ASSUME RInv, NEW ep1 \in Endpoints, NEW ep2 \in Endpoints, InsertsRace(ep1, ep2)
    PROVE  RInv'
<1> USE DEF RInv
<1>1. raced' /\ UNCHANGED <<mode, ActiveBranches, AddrBranches, proc, late, partner, owner>>
  BY DEF InsertsRace
<1>2. posted' \in [Endpoints -> 0..MaxLate]
  <2> DEFINE left == [posted EXCEPT ![ep1] = @ - 1]
  <2>1. posted[ep1] > 0 /\ left[ep2] > 0 /\ posted' = [left EXCEPT ![ep2] = @ - 1]
    BY DEF InsertsRace
  <2>2. left \in [Endpoints -> 0..MaxLate]
    BY <2>1 DEF StateOK
  <2> QED BY <2>1, <2>2
<1>3. InactivePermaBranches' \in SUBSET PermaBranches
  BY DEF InsertsRace, Torn, StateOK
<1>4. StateOK'
  BY <1>1, <1>2, <1>3 DEF StateOK
<1>5. ListsOK' /\ SenderListed' /\ PartnerIsHead' /\ OwnerIsHead'
  BY <1>1 DEF ListsOK, SenderListed, PartnerIsHead, OwnerIsHead, trunk
<1>6. PermaKept' /\ OverlapIsLate'
  BY <1>1 DEF PermaKept, OverlapIsLate
<1> QED BY <1>4, <1>5, <1>6

\* An insert during the iteration of a broadcast keeps the rest of the invariant.
LEMMA RaceBroadcastRInv ==
    ASSUME RInv, NEW ep \in Endpoints, NEW seen \in [PermaBranches -> 0..2],
           InsertRacesBroadcast(ep, seen)
    PROVE  RInv'
<1> USE DEF RInv
<1>1. /\ raced' /\ proc # Idle /\ proc' = Idle
      /\ UNCHANGED <<mode, ActiveBranches, late, partner>>
  BY DEF InsertRacesBroadcast
<1>2. ListsOK' /\ owner' \in [Addrs -> Endpoints \cup {NoEndpoint}] /\ OwnerIsHead'
  <2>1. CASE mode = "Switch"
    BY <1>1, <2>1, AssociatesKeepsOwners DEF InsertRacesBroadcast
  <2>2. CASE mode # "Switch"
    <3>1. UNCHANGED <<AddrBranches, owner>>
      BY <2>2 DEF InsertRacesBroadcast
    <3> QED BY <1>1, <3>1 DEF ListsOK, StateOK, OwnerIsHead
  <2> QED BY <2>1, <2>2
<1>3. posted' \in [Endpoints -> 0..MaxLate]
  BY DEF InsertRacesBroadcast, StateOK
<1>4. InactivePermaBranches' \in SUBSET PermaBranches
  BY DEF InsertRacesBroadcast, Reinstated, StateOK
<1>5. StateOK' /\ SenderListed' /\ PartnerIsHead'
  BY <1>1, <1>2, <1>3, <1>4 DEF StateOK, SenderListed, PartnerIsHead
<1>6. PermaKept' /\ OverlapIsLate'
  BY <1>1 DEF PermaKept, OverlapIsLate
<1> QED BY <1>2, <1>5, <1>6

\* So does an insert at the same time as an erase.
LEMMA RaceRInv ==
    ASSUME RInv, NEW ep \in Endpoints, NEW d \in Datagrams, InsertRacesErase(ep, d)
    PROVE  RInv'
<1> USE DEF RInv
<1> DEFINE new == AfterAdd(ActiveBranches, d.sender, MaxBranchCache)
<1>1. /\ raced'
      /\ ActiveBranches' = new
      /\ proc' = d
      /\ UNCHANGED <<mode, AddrBranches, late, partner, owner>>
  BY DEF InsertRacesErase
<1>2. /\ d.sender \in Endpoints
      /\ d.addrs # NoAddrs => d.addrs \in [src : Addrs, dst : Addrs]
  BY DEF Datagrams, Inspections
<1>3. /\ new \in Seq(Endpoints)
      /\ NoRepeats(new)
      /\ new # <<>>
      /\ ActiveBranches # <<>> => Head(new) = Head(ActiveBranches)
  BY <1>2, AfterAddList DEF ListsOK
<1> HIDE DEF new
<1>4. ListsOK'
  BY <1>1, <1>3 DEF ListsOK
<1>5. posted' \in [Endpoints -> 0..MaxLate]
  BY DEF InsertRacesErase, StateOK
<1>6. InactivePermaBranches' \in SUBSET PermaBranches
  BY DEF InsertRacesErase, Torn, StateOK
<1>7. StateOK'
  BY <1>1, <1>2, <1>5, <1>6 DEF StateOK
<1>8. SenderListed' /\ PartnerIsHead' /\ OwnerIsHead'
  BY <1>1, <1>3 DEF SenderListed, PartnerIsHead, OwnerIsHead
<1>9. PermaKept' /\ OverlapIsLate'
  BY <1>1 DEF PermaKept, OverlapIsLate
<1> QED BY <1>4, <1>7, <1>8, <1>9

\* Every handler keeps the invariant.
LEMMA NextRInv == RInv /\ [Next]_vars => RInv'
<1> SUFFICES ASSUME RInv, [Next]_vars PROVE RInv'
  OBVIOUS
<1>1. CASE \E d \in Datagrams : Branches(d)
  BY <1>1, BranchesRInv
<1>2. CASE Hub \/ Trunk
  BY <1>2, DoneRInv DEF Hub, Trunk
<1>3. CASE Prune
  BY <1>3, PruneRInv
<1>4. CASE Switch
  BY <1>4, SwitchRInv
<1>5. CASE \E ep \in Endpoints : ExpireBranch(ep)
  BY <1>5, ExpireBranchRInv
<1>6. CASE \E a \in Addrs, ep \in Endpoints : ExpireAddr(a, ep)
  BY <1>6, ExpireAddrRInv
<1>7. CASE \E ep \in Endpoints : TimeoutHandler(ep)
  BY <1>7, TimeoutHandlerRInv
<1>8. CASE \E ep \in Endpoints, d \in Datagrams : InsertRacesErase(ep, d)
  BY <1>8, RaceRInv
<1>10. CASE \E ep1, ep2 \in Endpoints : InsertsRace(ep1, ep2)
  BY <1>10, InsertsRaceRInv
<1>11. CASE \E ep \in Endpoints, seen \in [PermaBranches -> 0..2] : InsertRacesBroadcast(ep, seen)
  BY <1>11, RaceBroadcastRInv
<1>9. CASE UNCHANGED vars
  <2> USE DEF RInv, vars
  <2>1. ListsOK' /\ StateOK' /\ OwnerIsHead' /\ PartnerIsHead'
    BY <1>9 DEF ListsOK, StateOK, OwnerIsHead, PartnerIsHead
  <2>2. SenderListed'
    BY <1>9 DEF SenderListed, trunk
  <2>3. PermaKept' /\ OverlapIsLate'
    BY <1>9 DEF PermaKept, OverlapIsLate
  <2> QED BY <2>1, <2>2, <2>3
<1> QED BY <1>1, <1>2, <1>3, <1>4, <1>5, <1>6, <1>7, <1>8, <1>9, <1>10, <1>11 DEF Next

\* The invariant of the routing always holds.
LEMMA SpecRInv == Spec => []RInv
BY InitRInv, NextRInv, PTL DEF Spec

-----------------------------------------------------------------------------
(* The rest of the type invariant, which is inductive by itself *)

CopiesOK ==
    /\ mode \in Modes
    /\ proc \in Datagrams \cup {Idle}
    /\ fwd \in [Endpoints -> 0..3]
    /\ late \in SUBSET PermaBranches
    /\ raced \in BOOLEAN

\* Forward sends at most one copy to an endpoint, a broadcast at most two.
LEMMA CopiesBounded ==
    ASSUME NEW sender, NEW branches
    PROVE  /\ Forward(sender, branches) \in [Endpoints -> 0..1]
           /\ Forward(sender, branches) \in [Endpoints -> 0..3]
           /\ Broadcast(sender) \in [Endpoints -> 0..3]
           /\ NoCopies \in [Endpoints -> 0..3]
<1>1. \A b : Forward(sender, b) \in [Endpoints -> 0..1]
  BY DEF Forward
<1>2. Broadcast(sender) \in [Endpoints -> 0..3]
  BY <1>1 DEF Broadcast
<1>3. NoCopies \in [Endpoints -> 0..3] /\ Forward(sender, branches) \in [Endpoints -> 0..3]
  BY DEF NoCopies, Forward
<1> QED BY <1>1, <1>2, <1>3

\* The end of a handler keeps these types.
LEMMA DoneCopiesOK ==
    ASSUME CopiesOK, NEW copies \in [Endpoints -> 0..3], Done(copies)
    PROVE  CopiesOK'
BY DEF CopiesOK, Done, Datagrams, Inspections

\* So does a broadcast whose iteration an insert disturbs: one copy to an active
\* branch, two at most of the iteration.
LEMMA RaceCopiesOK ==
    ASSUME CopiesOK, NEW ep \in Endpoints, NEW seen \in [PermaBranches -> 0..2],
           InsertRacesBroadcast(ep, seen)
    PROVE  CopiesOK'
<1> DEFINE active == Forward(proc.sender, KeysOf(ActiveBranches))
           again(e) == IF e \in PermaBranches \ {proc.sender} THEN seen[e] ELSE 0
<1>1. fwd' = [e \in Endpoints |-> active[e] + again(e)]
  BY DEF InsertRacesBroadcast
<1>2. active \in [Endpoints -> 0..1]
  BY CopiesBounded
<1>3. \A e \in Endpoints : again(e) \in 0..2
  OBVIOUS
<1> HIDE DEF active, again
<1>4. \A e \in Endpoints : active[e] + again(e) \in 0..3
  BY <1>2, <1>3
<1>5. fwd' \in [Endpoints -> 0..3]
  BY <1>1, <1>4
<1> QED BY <1>5 DEF CopiesOK, InsertRacesBroadcast

\* Every step keeps them.
LEMMA SpecCopiesOK == Spec => []CopiesOK
<1>1. Init => CopiesOK
  BY CopiesBounded DEF Init, CopiesOK
<1>2. CopiesOK /\ [Next]_vars => CopiesOK'
  <2> SUFFICES ASSUME CopiesOK, [Next]_vars PROVE CopiesOK'
    OBVIOUS
  <2>1. CASE \E d \in Datagrams : Branches(d)
    BY <2>1, CopiesBounded DEF CopiesOK, Branches, Datagrams, Inspections
  <2>2. CASE Hub \/ Trunk
    BY <2>2, CopiesBounded, DoneCopiesOK DEF Hub, Trunk
  <2>3. CASE Prune
    BY <2>3, CopiesBounded, DoneCopiesOK DEF Prune
  <2>4. CASE Switch
    BY <2>4, CopiesBounded, DoneCopiesOK DEF Switch
  <2>5. CASE \E ep \in Endpoints : ExpireBranch(ep)
    BY <2>5, CopiesBounded DEF CopiesOK, ExpireBranch, Datagrams, Inspections
  <2>6. CASE \E a \in Addrs, ep \in Endpoints : ExpireAddr(a, ep)
    BY <2>6, CopiesBounded DEF CopiesOK, ExpireAddr, Datagrams, Inspections
  <2>7. CASE \E ep \in Endpoints : TimeoutHandler(ep)
    BY <2>7, CopiesBounded DEF CopiesOK, TimeoutHandler, Datagrams, Inspections
  <2>8. CASE \E ep \in Endpoints, d \in Datagrams : InsertRacesErase(ep, d)
    BY <2>8, CopiesBounded DEF CopiesOK, InsertRacesErase, Datagrams, Inspections
  <2>9. CASE UNCHANGED vars
    BY <2>9 DEF CopiesOK, vars, Datagrams, Inspections
  <2>10. CASE \E ep1, ep2 \in Endpoints : InsertsRace(ep1, ep2)
    BY <2>10, CopiesBounded DEF CopiesOK, InsertsRace, Datagrams, Inspections
  <2>11. CASE \E ep \in Endpoints, seen \in [PermaBranches -> 0..2] : InsertRacesBroadcast(ep, seen)
    BY <2>11, RaceCopiesOK
  <2> QED BY <2>1, <2>2, <2>3, <2>4, <2>5, <2>6, <2>7, <2>8, <2>9, <2>10, <2>11 DEF Next
<1> QED BY <1>1, <1>2, PTL DEF Spec

-----------------------------------------------------------------------------
(* Results *)

\* A permanent branch is at every moment active, inactive, or about to be made
\* inactive again: no interleaving of datagrams, expiries and late handlers on one
\* thread after another forgets it.  Only an access to the unsynchronised set by two
\* threads at once can: two timeout handlers, or one and the erase of Branches, either
\* of which may lose what the other inserted, or anything else; from then on nothing
\* is claimed.  Types hold in any case.
THEOREM PermanentBranchesCovered == Spec => []PermaCovered
<1>1. RInv /\ CopiesOK => PermaCovered
  BY DEF RInv, ListsOK, StateOK, CopiesOK, PermaCovered, TypeOK
<1> QED BY <1>1, SpecRInv, SpecCopiesOK, PTL

\* Active and inactive branches overlap, and broadcasts are duplicated, only
\* after a timeout handler that came late.
THEOREM OverlapOnlyFromLateHandlers == Spec => []OverlapIsLate
BY SpecRInv, PTL DEF RInv

\* Prune mode never lets a second branch into the conversation with the trunk
\* before the first has expired.
THEOREM PruneKeepsOneFlow == Spec => PruneOneFlow
<1> DEFINE One == partner # NoEndpoint /\ partner' # NoEndpoint => partner' = partner
<1>1. ASSUME RInv, Next PROVE One
  <2>1. ASSUME Prune PROVE One
    BY <1>1, <2>1 DEF Prune, Pruned, FirstHeard, RInv, PartnerIsHead, SenderListed
  <2>2. ASSUME NEW ep \in Endpoints, ExpireBranch(ep) PROVE One
    BY <2>2 DEF ExpireBranch
  <2>3. CASE UNCHANGED partner
    BY <2>3
  <2> QED
    BY <1>1, <2>1, <2>2, <2>3
    DEF Next, Branches, Hub, Trunk, Switch, ExpireAddr, TimeoutHandler, InsertsRace,
        InsertRacesErase, InsertRacesBroadcast
<1>2. RInv /\ [Next]_vars => [One]_vars
  BY <1>1
<1> QED BY <1>2, SpecRInv, PTL DEF Spec, PruneOneFlow

\* Switch mode never accepts an address from a second branch before the
\* association with the first has expired.
THEOREM SwitchKeepsOneOwner == Spec => SwitchOneOwner
<1> DEFINE One == \A a \in Addrs : owner[a] # NoEndpoint /\ owner'[a] # NoEndpoint
                                  => owner'[a] = owner[a]
<1>1. ASSUME RInv, Next PROVE One
  <2>1. ASSUME proc # Idle, proc.addrs # NoAddrs, Associates PROVE One
    BY <1>1, <2>1, SwitchAssociates DEF RInv, OwnerIsHead, StateOK
  <2>2. ASSUME NEW b \in Addrs, NEW ep \in Endpoints, ExpireAddr(b, ep) PROVE One
    BY <1>1, <2>2 DEF ExpireAddr, RInv, StateOK
  <2>3. CASE UNCHANGED owner
    BY <2>3
  <2> QED
    BY <1>1, <2>1, <2>2, <2>3
    DEF Next, Branches, Hub, Trunk, Prune, Switch, ExpireBranch, TimeoutHandler, InsertsRace,
        InsertRacesErase, InsertRacesBroadcast
<1>2. RInv /\ [Next]_vars => [One]_vars
  BY <1>1
<1> QED BY <1>2, SpecRInv, PTL DEF Spec, SwitchOneOwner

\* Only the mode handlers end the handling of a datagram, alone or at the same time as
\* a timeout handler.
LEMMA HandledByMode ==
    ASSUME [Next]_vars, Handled
    PROVE  \/ Hub \/ Trunk \/ Prune \/ Switch
           \/ \E ep \in Endpoints, seen \in [PermaBranches -> 0..2] :
                 InsertRacesBroadcast(ep, seen)
<1>1. ASSUME NEW d \in Datagrams, Branches(d) PROVE FALSE
  BY <1>1 DEF Branches, Handled
<1>2. ASSUME NEW ep \in Endpoints, ExpireBranch(ep) PROVE FALSE
  BY <1>2 DEF ExpireBranch, Handled
<1>3. ASSUME NEW a \in Addrs, NEW ep \in Endpoints, ExpireAddr(a, ep) PROVE FALSE
  BY <1>3 DEF ExpireAddr, Handled
<1>4. ASSUME NEW ep \in Endpoints, TimeoutHandler(ep) PROVE FALSE
  BY <1>4 DEF TimeoutHandler, Handled
<1>5. ASSUME NEW ep \in Endpoints, NEW d \in Datagrams, InsertRacesErase(ep, d) PROVE FALSE
  BY <1>5 DEF InsertRacesErase, Handled
<1>6. ASSUME NEW ep1 \in Endpoints, NEW ep2 \in Endpoints, InsertsRace(ep1, ep2) PROVE FALSE
  BY <1>6 DEF InsertsRace, Handled
<1>7. ~UNCHANGED vars
  BY DEF Handled, vars
<1> QED BY <1>1, <1>2, <1>3, <1>4, <1>5, <1>6, <1>7 DEF Next

\* What Forward and Broadcast send: nothing to the sender, and a copy to each of
\* the others they are given.
LEMMA CopiesSent ==
    ASSUME NEW sender \in Endpoints
    PROVE  /\ \A S : Forward(sender, S)[sender] = 0
           /\ \A S : \A e \in Endpoints : Forward(sender, S)[e] > 0 => e \in S
           /\ Broadcast(sender)[sender] = 0
           /\ \A e \in Endpoints \ {sender} :
                e \in KeysOf(ActiveBranches) \cup InactivePermaBranches => Broadcast(sender)[e] > 0
<1>1. \A S : \A e \in Endpoints : Forward(sender, S)[e] = IF e \in S \ {sender} THEN 1 ELSE 0
  BY DEF Forward
<1>2. \A e \in Endpoints :
        Broadcast(sender)[e] = Forward(sender, KeysOf(ActiveBranches))[e]
                                 + Forward(sender, InactivePermaBranches)[e]
  BY DEF Broadcast
<1>3. \A S : Forward(sender, S)[sender] = 0
  BY <1>1
<1>4. \A S : \A e \in Endpoints : Forward(sender, S)[e] > 0 => e \in S
  BY <1>1
<1>5. \A S : \A e \in Endpoints : Forward(sender, S)[e] \in {0, 1}
  BY <1>1
<1>6. Broadcast(sender)[sender] = 0
  BY <1>2, <1>3
<1>7. ASSUME NEW e \in Endpoints \ {sender}, e \in KeysOf(ActiveBranches) \cup InactivePermaBranches
      PROVE  Broadcast(sender)[e] > 0
  <2>1. CASE e \in KeysOf(ActiveBranches)
    BY <1>1, <1>2, <1>5, <2>1
  <2>2. CASE e \in InactivePermaBranches
    BY <1>1, <1>2, <1>5, <2>2
  <2> QED BY <1>7, <2>1, <2>2
<1> QED BY <1>3, <1>4, <1>6, <1>7

\* A datagram that is broadcast, by Hub, by Trunk from the trunk or by Switch for
\* want of a branch with the address, reaches every active branch, and every permanent
\* branch whose timeout handler is not pending, as long as no two threads have met at
\* the set of inactive branches; and no mode ever sends a datagram back to its sender.
THEOREM BroadcastsReachAll == Spec => BroadcastReaches
<1> DEFINE Reaches ==
             Handled => /\ fwd'[proc.sender] = 0
                        /\ BroadcastDue /\ ~raced' =>
                             \A e \in Endpoints \ {proc.sender} :
                                 \/ e \in KeysOf(ActiveBranches)
                                 \/ e \in PermaBranches /\ posted[e] = 0
                                 => fwd'[e] > 0
<1>1. RInv /\ [Next]_vars => [Reaches]_vars
  <2> SUFFICES ASSUME RInv, [Next]_vars, Handled PROVE Reaches
    OBVIOUS
  <2>1. proc.sender \in Endpoints
    BY DEF Handled, RInv, StateOK
  <2>2. CASE Hub \/ Trunk \/ Prune \/ Switch
    <3>1. \/ fwd' = Broadcast(proc.sender)
          \/ ~BroadcastDue /\ (fwd' = NoCopies \/ \E S : fwd' = Forward(proc.sender, S))
      <4>1. CASE Hub
        BY <4>1 DEF Hub, Done
      <4>2. CASE Trunk
        BY <4>2 DEF Trunk, Done, BroadcastDue
      <4>3. CASE Prune
        BY <4>3 DEF Prune, Done, BroadcastDue
      <4>4. CASE Switch
        BY <4>4 DEF Switch, Done, BroadcastDue
      <4> QED BY <2>2, <4>1, <4>2, <4>3, <4>4
    <3>2. fwd'[proc.sender] = 0
      BY <2>1, <3>1, CopiesSent DEF NoCopies
    <3>3. raced' = raced
      BY <2>2 DEF Hub, Trunk, Prune, Switch, Done
    <3>4. ASSUME BroadcastDue, ~raced, NEW e \in Endpoints \ {proc.sender},
                 e \in KeysOf(ActiveBranches) \/ (e \in PermaBranches /\ posted[e] = 0)
          PROVE  fwd'[e] > 0
      <4>1. e \in KeysOf(ActiveBranches) \cup InactivePermaBranches
        BY <3>4 DEF RInv, PermaKept
      <4> QED BY <2>1, <3>1, <3>4, <4>1, CopiesSent
    <3> QED BY <3>2, <3>3, <3>4
  <2>3. ASSUME NEW ep \in Endpoints, NEW seen \in [PermaBranches -> 0..2],
               InsertRacesBroadcast(ep, seen)
        PROVE  Reaches
    <3>1. Forward(proc.sender, KeysOf(ActiveBranches))[proc.sender] = 0
      BY <2>1, CopiesSent
    <3>2. fwd'[proc.sender] = 0 /\ raced'
      BY <2>1, <2>3, <3>1 DEF InsertRacesBroadcast
    <3> QED BY <3>2
  <2> QED BY <2>2, <2>3, HandledByMode
<1> QED BY <1>1, SpecRInv, PTL DEF BroadcastReaches, Spec

\* In Switch mode a datagram to an address that has an owner goes to the owner if it
\* is accepted from its source, and to nobody else, whatever other branches have used
\* the address.
THEOREM OwnersGetTheirs == Spec => UnicastToOwner
<1> DEFINE Owned ==
             Handled /\ mode = "Switch" /\ proc.addrs # NoAddrs /\ owner[proc.addrs.dst] # NoEndpoint
               => \A e \in Endpoints : fwd'[e] > 0 <=> /\ e = owner[proc.addrs.dst]
                                                      /\ e # proc.sender
                                                      /\ owner'[proc.addrs.src] = proc.sender
<1>1. RInv /\ [Next]_vars => [Owned]_vars
  <2> SUFFICES ASSUME RInv, [Next]_vars, Handled, mode = "Switch", proc.addrs # NoAddrs,
                      owner[proc.addrs.dst] # NoEndpoint,
                      NEW e \in Endpoints
               PROVE  fwd'[e] > 0 <=> /\ e = owner[proc.addrs.dst]
                                      /\ e # proc.sender
                                      /\ owner'[proc.addrs.src] = proc.sender
    OBVIOUS
  <2> DEFINE own == owner[proc.addrs.dst]
             src == proc.addrs.src
  <2>0. proc # Idle
    BY DEF Handled
  <2>1. Associates
    BY HandledByMode DEF Hub, Trunk, Prune, Switch, InsertRacesBroadcast
  <2>2. proc.sender \in Endpoints /\ src \in Addrs /\ proc.addrs.dst \in Addrs
    BY <2>0, <2>1, SwitchAssociates
  <2>3. AddrBranches[proc.addrs.dst] # <<>> /\ own = Head(AddrBranches[proc.addrs.dst])
    BY <2>2 DEF RInv, OwnerIsHead
  <2>4. AddrBranches'[proc.addrs.dst] # <<>> /\ Head(AddrBranches'[proc.addrs.dst]) = own
    BY <2>0, <2>1, <2>2, <2>3, SwitchAssociates
  <2>5. Switch
    BY <2>4, HandledByMode DEF Hub, Trunk, Prune, InsertRacesBroadcast, BroadcastDue
  <2>6. SourceAccepted <=> owner'[src] = proc.sender
    <3>1. CASE SourceAccepted
      <4>1. owner' = [owner EXCEPT ![src] = proc.sender]
        BY <2>1, <3>1 DEF Associates
      <4> QED BY <2>2, <3>1, <4>1 DEF RInv, StateOK
    <3>2. CASE ~SourceAccepted
      <4>1. UNCHANGED owner
        BY <2>1, <3>2 DEF Associates
      <4>2. owner[src] # NoEndpoint => Head(AddrBranches'[src]) = owner[src]
        BY <2>0, <2>1, <2>2, SwitchAssociates DEF RInv, OwnerIsHead
      <4>3. proc.sender # NoEndpoint
        BY <2>2
      <4> QED BY <3>2, <4>1, <4>2, <4>3 DEF SourceAccepted, FirstHeard
    <3> QED BY <3>1, <3>2
  <2>7. CASE SourceAccepted
    <3>1. fwd' = Forward(proc.sender, {own})
      BY <2>4, <2>5, <2>7 DEF Switch, Done, FirstHeard
    <3>2. fwd'[e] > 0 <=> e = own /\ e # proc.sender
      BY <3>1 DEF Forward
    <3> QED BY <2>6, <2>7, <3>2
  <2>8. CASE ~SourceAccepted
    <3>1. fwd' = NoCopies
      BY <2>5, <2>8 DEF Switch, Done
    <3> QED BY <2>6, <2>8, <3>1 DEF NoCopies
  <2> QED BY <2>7, <2>8
<1> QED BY <1>1, SpecRInv, PTL DEF UnicastToOwner, Spec
=============================================================================
