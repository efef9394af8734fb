# MiniPlex and ProtoConv in TLA+

A verification project for the two programs of this repository: **MiniPlex**, a UDP
multiplexer that forwards datagrams between end points, and **ProtoConv**, which converts
between a byte stream (TCP or serial ports) and datagrams. The modules model the code at the
level of its strands and handlers, TLC checks them on small instances, and TLAPS proves most of
the safety properties, and both refinements, for all instances. `PROJECT.json` maps every definition to the
source lines it models and lists runs, mutants, findings, hazards and theorems.

Paths below are relative to the repository.

## 1. The system

Both programs are built on asio: a pool of threads runs handlers, and a *strand* runs its
handlers one at a time in the order they were posted. Handlers are not interrupted by others
of the same strand, so one handler is one action. What runs outside a strand, or on two
strands, interleaves freely, and that is where the difficult behaviour is.

| Component | State | Operations | Interacts with | What is hard |
|---|---|---|---|---|
| `TimeoutCache` (`src/TimeoutCache.h`) | `Cache` (map), `KeySequence` (list), a timer per entry | `Add`, `Clear`, `TimerHandler` | MiniPlex: list of active branches, and of the branches of each address | a refresh races with the timer; the time-out callback is posted *off* the strand |
| MiniPlex modes (`src/MiniPlex.cpp`) | `ActiveBranches`, `PermaBranches`, `InactivePermaBranches`, `AddrBranches` | `RcvHandler` → `Hub`, `Trunk`, `Prune`, `Switch`; the time-out callback | TimeoutCache, the inspection program, sends | the callback changes `InactivePermaBranches` without synchronisation and late |
| Receive buffers (`src/MiniPlex.cpp`) | `rcv_buf_q`, `rcv_buf_count`, shared buffers | `Rcv`, `MakeSharedBuf`, `Forward` | socket strand, process strand, the kernel | a buffer is recycled by the last holder, on any thread; the limit of buffers |
| `TinyRISCV64` (`src/TinyRISCV64.h`) | memory map, registers, program, stack | `map_data_mem`/`reset`, `execute_program`, loads, stores, jumps, `stack_push`/`stack_pop` | `GetSrcDst`, once per datagram in Switch mode | any program at all must stay in its memory and end; memory kept from datagram to datagram; arithmetic at its limits |
| `DelimFragHandler` | `frame_q`, `expected_seq`, `last_top_seq`, `latest_top_change` | `HandleFrame` | `AddDelim` of the other ProtoConv | reordering, loss, wrap of the sequence number, a time limit, a restart of either end |
| `DNP3FragHandler` | per flow `frag_q`, `hasSeq`, FIR/FIN, `pNextFrame` | `HandleFrame`, `Flush` | marshalling strand, a strand per flow | fragments lost, repeated, of two messages mixed |
| `DNP3FrameChecker`, `DelimFrameChecker`, `NullFrameChecker`, `RcvStreamHandler` | the read buffer | `CheckFrame`, the framing loop | stream handlers, fragment handlers | pieces of any size, damage, arithmetic of lengths |
| `SerialPortsManager` | `write_q`, `idle_port_idx_q` | `Start`, `Write`, write and read handlers, `Stop` | one strand per port | ports finish in any order; the queue limit |
| `TCPSocketManager` | `pSock`, candidates, two write buffers, flags, timer | `Open`, `Close`, `AutoOpen`, `AutoClose`, `Write`, handlers | resolver, sockets, timer | reconnects, half-open connections, partial writes, back-off |
| rest of ProtoConv (`src/ProtoConv/ProtoConv.cpp`) | receive buffers, `DelimSeq` | `RcvUDP`, `RcvUDPHandler`, `AddDelim`, `WriteUDPHandler` | all of the above, two strands | a buffer is used again while datagrams are queued |
| options, logging, `main`, benchmark, platform wrappers | none that matters | | | |

What makes each correct:

* **TimeoutCache**: list and map agree; every entry has exactly one wait, which ends in time; a
  key that is heard stays, a silent one is forgotten; the head does not change while it lives.
* **MiniPlex**: a fixed (`-B`/`-b`) branch is always reachable and gets each datagram once; Prune
  lets one branch at a time through; in Switch mode an address belongs to one branch.
* **Buffers**: no buffer is overwritten while a send needs it; none is lost or freed twice; order
  is kept; reading resumes after the pool was exhausted.
* **Frame and fragment handlers**: nothing is lost or repeated by the handler, order is restored
  within the tolerance, no wait is endless.
* **Virtual machine**: no access outside the mapped memory, no run without end, no result from an
  earlier datagram, exact multiplication and division.
* **Serial and TCP**: every message is written, held, failed or dropped once; data does not wait
  without cause; a lost connection comes back.

## 2. Modules

| Module | Models | Notes |
|---|---|---|
| `KeySequences` | operators on lists without repetitions | |
| `BranchCache` | what a cache promises: a bounded list of branches, new ones at the end, any one may leave | abstract specification |
| `TimeoutCache` | the cache with timers, access times and posted callbacks | refines `BranchCache` (`Implements`); `TimeoutCacheProofs` |
| `MiniPlex` | the four modes over the caches, with late and unsynchronised callbacks | a cache is the list of `BranchCache`, which the refinement justifies; `MiniPlexProofs` |
| `RcvPool` | `Rcv`, `MakeSharedBuf`, `Forward` over two strands | `RcvPoolProofs` |
| `DelimFragHandler` | numbering (`AddDelim`), the channel, `HandleFrame`, restarts of either end | `DelimFragHandlerProofs` |
| `DNP3FragHandler` | `HandleFrame`, strands, `Flush` | `DNP3FragHandlerProofs` |
| `FrameChecker`, `DNP3FrameChecker`, `DelimFrameChecker` | the two ways to find a frame in a buffer, and the trailer that `AddDelim` writes | pure operators |
| `RcvStream` | `RcvStreamHandler` with any of the three framers | against a reference definition of a frame; extends the modules above |
| `SerialPorts` | `SerialPortsManager`, writing at one end of the lines and reading at the other | proved about in `SerialLinkProofs` |
| `SerialLink` | two ProtoConvs joined by serial lines: `RcvUDP`, `AddDelim`, `SerialPorts`, `HandleFrame` | extends `SerialPorts`; implements `DelimFragHandler` (`LinkImplements`); `SerialLinkProofs` |
| `TCPSocketManager` | the class as ProtoConv uses it | `TCPSocketManagerProofs` |
| `RV64Arith` | multiplication and division of the virtual machine, and what they are to compute | pure operators |
| `TinyRISCV64` | the virtual machine and `GetSrcDst` | `TinyRISCV64Proofs` |
| `MC*` | instances for TLC | |

How state and actions correspond to the code:

* **TimeoutCache.** `Cache`, `KeySequence` are the members of those names. `AccessAge[k]` is now
  minus `AccessTime` and `Timer[k]` the time until the wait ends (`NoWait` when its completion is
  queued or there is none), so that time needs no upper bound. `Add` is split by its three
  results; `TimerHandler` by its exits (an exception of `Cache.at`, re-arm, expiry). `heard` is a
  history variable: the age as a user of the cache sees it; `cleared` remembers a `Clear`, after
  which a queued completion finds its entry gone, `Cache.at` throws and the program ends.
* **MiniPlex.** A datagram is handled in one `ModeHandler` step after `Branches` has added the
  sender. `posted[ep]` counts the callbacks that were posted and have not run; `TimeoutHandler`
  runs one. The callbacks run on any thread of the pool, so two of them may insert into
  `InactivePermaBranches` at once (`InsertsRace`), or one may insert while `Branches` erases
  (`InsertRacesErase`) or while a broadcast of Hub, Trunk or Switch iterates (`InsertRacesBroadcast`). Of two
  changes at once either may be lost, and entries of the tree with it (`Torn`); an iteration may miss an
  entry or come by it twice. The history variable `raced` remembers that it happened, and what the
  properties say of fixed branches they say until then. (A `std::set` torn in this way could also crash the
  program; that is not modelled.) `GetSrcDst` gives any result in `Inspections`. `fwd` is what the last step
  sent. The history variables `partner` and `owner` remember who got through in Prune and Switch.
* **RcvPool.** Two strands as queues of tasks; a buffer is shared by the set of its holders, and
  whoever leaves last posts the recycling. `dispatch` of a strand may run in place
  (`RunSendInline`).
* **DelimFragHandler.** A frame is its position in the stream; `number` has its sequence number,
  which counts modulo `SeqSize`. `channel`, chosen at the start of a behaviour, says by how many later frames and for how
  long a frame may be held up; up to `MaxLost` frames are lost. A behaviour starts after a number of
  frames in `FirstFrames` went through in order, which brings the wrap within reach. The heap is a set
  with the order of `FrameCmp`. `SenderRestarts` and `ReceiverRestarts` put one end back to its
  initial values. Nothing in a frame tells the numbers from before a restart from those after it, so
  `ambiguous` remembers a restart after which they can be confused: old frames are still on their way
  or held, or one of the next frames happens to have the number that is expected.
* **DNP3FragHandler.** Two strands deep: `HandleFrame` posts to the marshalling strand, that posts
  to the flow. `std::priority_queue` with an order that is no order (numbers wrap) may pop in
  several ways: `PopOrders` is the set of them. `WellFormed` is what a station sends; only the theorem on
  the order supposes it.
* **RcvStream and the framers.** Bytes are small numbers, a CRC is one byte, a block two; the
  arithmetic of lengths is that of `size_t`, with `SizeMod` for 2^64. The stream and the framer are chosen at the
  start; each step receives any number of further bytes and runs the framing loop.
* **SerialPorts.** `posted` is a write queued on a port's strand, `writing` one in progress, `line`
  what is between the two ends; `Noise` spoils a message there.
* **SerialLink.** A failed receive is a datagram like any other, as `RcvUDPHandler` makes it one (empty).
  The buffers go from `RcvUDP` to `process_strand` and back by way of `socket_strand`. Reading a message
  and handling its frame are one step: the read handler runs the framer, and the strand of
  `DelimFragHandler` keeps the order in which frames are posted to it; that frames of different ports
  come in any order is in the order of the reads.
* **TinyRISCV64.** The program is arbitrary, so registers and program memory are not followed: an
  instruction is any jump, load, store or computation, with any address. The memory map is scaled down,
  the wrap of addresses is kept (`AddrMod` for 2^64). Each byte of the stack has the run that wrote it
  last, which is what tells a stale result from a new one. `access` is where the last access went after `mem_ptr`
  had let it through. A program of a single multiplication or division is followed exactly, in words of
  `HalfMod`^2 values; the products are computed in halves, as on platforms without 128-bit numbers.
* **TCPSocketManager.** One strand; each completion handler is one action. `use`, chosen at the start, is
  what the user does: the calls of `Open` and `Close`, how many messages it writes, and `-Q`. A
  message is `Pieces` pieces, so that a write can fail halfway: a buffer is a message and the first of its
  pieces that is not yet written (`Rest`), a failed `WriteBuffer` has written `done` buffers and `part` of the
  next, and the history variable `sent` counts how often each piece was written. `ramp_time_ms` is kept in
  `RampMod` values (2^16 in the code). A timer is the kind of its handler (`timers`): two waits of one kind, one of them
  already expired, are one there, and their handler runs once: the other would only try once more, or reset what is
  reset. Not modelled: throttling (ProtoConv never
  turns it on), several end points for one name, the destructor's wait.

## 3. Runs

Each run finishes within two and a half minutes on two cores. Every passing property has a mutant in
`PROJECT.json`: an operator named `Mut...` next to the definition it spoils, with which TLC finds
the property violated. Where a module's `TypeOK` is not checked by itself it is a conjunct of the
invariant that needs it.

| Run | Question | Bounds |
|---|---|---|
| `cache` | entries, waits, expiry, Clear; the refinement | 3 keys, size 2, time-out 2, one callback of a key late |
| `miniplex` | the four modes: which branches a datagram reaches, one flow in Prune, one owner per address in Switch; a silent fixed branch is listed again | 3 end points, 2 of them fixed, cache of 2, 2 addresses of one branch each, one callback per end point late, with the data races (any two callbacks, or one and the strand) |
| `pool` | buffers, order; reading resumes | 2 end points, 2 buffers, 4 datagrams |
| `link` | ports, queue and buffers; every datagram settles; the refinement | 2 ports, queue of 1, 4 datagrams with 22 numbers, 2 buffers, 1 message lost by an open port or line, one end stopped |
| `delim` | within the tolerance and beyond it, across the wrap and a restart | 30 numbers, tolerance 2 frames and 1 tick; 7 frames from number 3 or 27 on, overtaken by up to 3, held up for up to 2 ticks, 2 lost, 1 restart |
| `dnp3` | reassembly of two flows | 8 numbers, one lost, overtaken by 3 |
| `frames` | framing, in every division into pieces | for DNP3 up to 3 parts of 13 kinds; messages with good and damaged trailers, and streams without any up to the limit; anything for the null framer |
| `tcp` | connecting, writing and closing; reconnecting | 2 sockets, messages of 2 pieces; opened once with 2 messages and `-Q 2` or `-Q 1`, or opened, closed and opened again with 1 message and `-Q 1`; waits of 3 to 5 in a back-off of 3 bits, so that doubling overflows |
| `vm` | memory, results, arithmetic, termination | programs of 1, 4 and 5 bytes with instructions of 2, datagrams of 0 and 4 bytes, 28 addresses, 2 datagrams, 2 instructions each; all operands of 4 bits |

The bounds are the smallest in which the cases the properties are about occur: a cache that is
full and has a third key refused, a callback that comes after its end point was heard again, a pool
that runs out, a queue that overflows while both ports write, sequence numbers that wrap, fragments
of two messages mixed, a program that jumps into the last half of its memory, a write outstanding to a connection that has been replaced. The mutants
confirm that the cases are reached. In `miniplex` an address has room for one branch, so that a
second one is refused; that a longer list of an address behaves in the same way is what the proof of
`SwitchKeepsOneOwner` covers. In `delim` and `link` the half of the sequence space must be larger than what can be held
or lost at once, as it is by far in the code: `NumbersSuffice` in `MCDelimFrag` is the condition of `FramesWrittenInOrder`, so the run checks
the very case that is proved; in `MCSerialLink` the numbers do not wrap, which is left to `delim` and to `LinkWritesInOrder`. In `dnp3` that is
`MessagesWellFormed`: the streams of the run are among those of `FlowsWrittenInOrder`. In `vm` two instructions are enough for what a run
can leave behind (a store and a halt, or a store and an exception) and the second datagram for finding it; the
checks look at one access at a time.

Runs of `MCDelimFrag`, `MCDNP3Frag`, `MCRcvStream`, `MCRcvPool`, `MCSerialLink` and `MCTinyRISCV64` handle a bounded
number of messages, and `tcp` makes a bounded number of calls, so behaviours end:
`CHECK_DEADLOCK FALSE`. In `cache` the exception after a `Clear` ends the program. In all others
deadlock is checked.

### Runs that show a disagreement

| Run | Code | Says | Shown |
|---|---|---|---|
| `duplicate` | `TimeoutCache.h:96` | `RELEASE_NOTES:16` "Fixed duplicate forwarding in Trunk/Hub with fixed branches" | a late callback lists an active branch as inactive: it gets every datagram twice |
| `delim_hold` | `DelimFragHandler.h:87` | `ProtoConv/CmdArgs.h:38` "max time (ms) to wait" | with no further frame the wait never ends |
| `frames_short` | `DNP3FrameChecker.cpp:124` | "know the full frame length" | a length field below 5 blocks the stream for ever |

### Where a property says "unless"

These are behaviours of the code that the models contain and the properties make an exception for;
each is a hazard in `PROJECT.json`.

* Between expiry and callback (`TimeoutCache.h:96`) a broadcast does not reach a fixed branch:
  `BroadcastReaches` excepts it, `PermaReturns` says that it ends.
* Callbacks on two threads, or one and `process_strand`, are at `InactivePermaBranches` at once
  (`MiniPlex.cpp:35`), and a fixed branch is lost until it sends: `raced`.
* A frame that arrives after the wait for it was given up makes `DelimFragHandler` go back, although
  the log says "jumping ahead" (`DelimFragHandler.h:84`): `early`.
* After a restart of either end old and new frames may be confused (`DelimFragHandler.h:109`): `ambiguous`.
* The CRC of a trailer does not cover the message (`DelimFrameChecker.h:60`): bytes cut off by a failed
  write become the beginning of the next message. `SoundFramesDelivered` speaks of where messages end.
* REMW of the smallest number by -1 (`TinyRISCV64.h:470`) is undefined and may end the program, where the
  other divisions are guarded: `ArithmeticExact` excepts these operands.
* `stack_pop` reads from where the program left its stack pointer (`MiniPlex.cpp:238`), which may be a
  result of an earlier datagram: `NoStaleResult` speaks of programs that restore it.
* A stray fragment can complete the count of a message with a hole in it
  (`DNP3FragHandler.cpp:70`): `FlowsInOrder` speaks of streams without loss.
* The 16-bit back-off time wraps around with a maximum above 32767 ms (`TCPSocketManager.cpp:560`), which `-k`
  accepts, and the wait gets shorter, where `TCPSocketManager.h:105` has it "doubled on each retry until max is
  reached": `BackoffGrows` names the wrap (`2 * ramp_time_ms - RampMod`) among the ways in which it may fall, and the run reaches it.
* What is left of a failed write is queued behind newer messages, and a newer one may be dropped for
  it (`TCPSocketManager.cpp:172`): `PiecesConserved` does not say which message is dropped.
* `pending_write` may be that of the previous connection (`TCPSocketManager.cpp:579`, `:420`); then
  nobody shuts down this one, and what is buffered waits for the next write: `halfOpen` in `SendIsShut`
  and `HeldOnlyBehindWrite`.
* `OneReader` holds for a user who opens again only when what `Close` started is finished
  (`PatientUser`). Without that, the `AutoClose` that `Close` posts can hit the connection made by
  the next `Open`, and a second read into the same buffer can start. ProtoConv opens once and closes
  at its end.

## 4. Fairness

* `cache`: time passes, a timer that is due fires, and a queued handler is run by some thread of
  the pool (weak fairness of each). asio promises no more than that a posted handler runs.
* `miniplex`: handlers run; a posted callback runs (strong: while datagrams keep `process_strand` busy
  the action is enabled again and again, but not always).
* `pool`, `link`: posted tasks run, and an asynchronous operation ends one way or another; the far end
  is started.
* `vm`: a thread that runs a program goes on with it.
* `tcp`: the manager is opened, handlers run and timers fire; a resolution, an attempt to listen and a connect that
  is tried again and again succeeds at last (strong): without it no program could reconnect.
* `delim_hold` refutes its property under weak fairness of time and of delivery.

## 5. Proofs

TLAPS proves the following for all values of the constants that satisfy the named assumptions.

**`TimeoutCacheProofs`**. `IInv` is `TypeOK`, `ListMatchesMap`, `WithinMaxSize`,
`OneWaitPerEntry`, `ArmedInTime` and `AgeIsHeard`. The parts need each other: that `Cache.at`
never throws rests on a wait belonging to an entry, that a wait ends in time rests on its being
armed with what is left of the time-out, which rests on the age of the entry; and that a
removal takes the key out of the list once rests on the list having no repetitions and matching
the map.
`AgeIsHeard` (what the cache records is what its user did) turns these into `HeardKeysStay`.
Theorems: `CacheInvariant`, `HeadIsStable`, `HeardKeysStay`, and `CacheImplementsList`: every step of
the cache is one of `BranchCache` or leaves the list alone.

**`MiniPlexProofs`**. `RInv` is `ListsOK` (the lists have no repetitions), `StateOK`, `SenderListed` (while
a branch's datagram is handled the list of branches is not empty),
`PartnerIsHead` and `OwnerIsHead` (the history variables are the heads of the lists, which is why
Prune and Switch keep to one branch), `PermaKept` and `OverlapIsLate`. `CopiesOK`, inductive by itself, is
the rest of the type invariant (at most two copies to an end point, three from a broadcast that meets an insert). Theorems:
`PermanentBranchesCovered`, `OverlapOnlyFromLateHandlers`, `PruneKeepsOneFlow`,
`SwitchKeepsOneOwner`; and, of what a datagram is sent to, `BroadcastsReachAll` (from `PermaKept`; of all three kinds of broadcast) and
`OwnersGetTheirs` (from `OwnerIsHead`: a datagram to an address with an owner goes to the owner just if it is
accepted from its source, and never to anybody else). What the first and the fifth say of fixed branches ends with the first
race at the set of inactive branches.

**`RcvPoolProofs`**, for any end points, any limit of buffers and any number of datagrams. `PInv` is
`Typed`, `OnePlace` (an allocated buffer is in the pool, on its way back, being received into, or in
use, and in one of these only), `Single` (in the pool and on the way back it is listed once),
`OneLoop` (while a task that goes on with the receive loop is queued, there is no other) and
`Intact` (a buffer has the datagram that is to be handled or sent from it). Each needs the others: a
buffer is overwritten only by a receive, which takes it from the pool, so it is not in use; it is
returned only when its last holder leaves, so it is not in the pool twice; and only one loop takes
from the pool at a time. Theorems: `ZeroCopySafe`, `BuffersConserved`. For the order of datagrams
`OInv` adds that each queue is ordered (`QueuesOrdered`) and that whatever is in a later stage is
older than what is in an earlier one (`StagesOrdered`): `DeliveredInOrder`. The only assumption
beyond the sizes is `IdleAssumption`: the value that says that no handler runs is not a handler.

**`TinyRISCV64Proofs`**, for any program, any datagrams and any sizes. `VInv` is `MapOK` (the memory
map is the one computed for this program and this datagram), `MachineOK`, `AccessOK`, `SlotsFresh` (in the two places of
the results there is nothing of an earlier run, as the pushes of `GetSrcDst` have overwritten it),
`NoResultYet` and `NoStaleResult`. Theorems: `MemorySafety`, `ResultsAreOwn`. `RoomAssumption` says
that all regions and the gaps between them end at least two double words below the top of the address space: then the
addresses in the memory map are sums that did not wrap, so the regions do not overlap, and no address of the
stack is one that `mem_ptr` refuses as too close to the top. With 2^64 addresses every real program satisfies it.
`ArithmeticAlwaysExact` is for every even number of values of a half word, so for the 2^32 of the code, which no
model checker reaches. The invariant (`AInv`) says that the operands are words; the work is in `ResultsCorrect`, which
rests on lemmas without a state: `DivMod` and `DivModOf` (quotient and remainder exist and are the only ones),
`MulExact` (the four products of halves and their carries add up to the product, and no sum of them leaves its word), `HighWord`
(the high word of a negated product), `HighProducts` and `LowProduct`, `TowardsZero` and `QuotientFits` (a
signed quotient is a word, but for the smallest number by -1), `ExtendedIs` (a short word extended by its sign).

**`TCPSocketManagerProofs`**, for any sockets, any calls, messages and limits. `IInv` is the four
properties proved and what they rest on: `StateOK`, `OpenIsNext` (`Open` is posted only to an idle strand), `OneTry` (one
connection is tried at a time, and only when there is none), `ClosedIsClosing` (after `Close` a
connection is about to be closed, also one made too late), `LossNoticed` (a connection that is no longer read has an
`AutoClose` and after it an `AutoOpen` on the strand) and `WriteTracked` (`pending_write` tells of the
write, which goes to the current connection unless `halfOpen`). Theorems: `AlwaysTrying`,
`OneReaderAlways`, `NothingHeldBack`, `GivenUpIsShut`, all under `PatientUser`, see section 3: without it
`OneReader`, on which the others rest in the invariant, is false. `BackoffNeverShrinks` needs no condition on the limits: its invariant (`RampOK`) is that the back-off is
within the smaller or the larger of them and fits its bits.
`EachPieceOnce` needs neither: for any user it follows from `PInv`, by which every message has one place (to be
written later, on the strand, in one of the two queues, in the direct write, dropped or sent; the ghost function `w`
of `AllPlaced` says which), the buffers of a place are of different messages, just those that are placed there, and hold
just the pieces that have not been written. The steps are the two write handlers, which may have written any part
of what they were given, and `Queued`, which may drop the head.

**`DelimFragHandlerProofs`**, for any size of the sequence number above 2, any tolerance and any channel,
with losses and restarts. `FInv` is `TypeOK` and `Placed` (every frame sent is on its way, lost, held or
written, in one of these and once). The step is `HandleFrame`: whatever run of frames its loop writes and
whichever of the equal tops it takes, what is left is the queue without them (`RunIs`), and a full
queue loses at least one frame to the jump. Theorem: `FramesAlwaysConserved`, which includes the limit of the queue.
`FramesWrittenInOrder` and `ToleranceAlwaysKept` assume `WindowFits`: what can be held, lost or overtaken at once is less than half the sequence
numbers, which in the code are 2^31. Their invariant is `OrderInv`: `FInv`, `Few` (how much can be held or lost), `OInv` and `TInv`. As long as the
restarts leave no ambiguity and no wait was given up too early there are two numbers, not kept by the program: `E`, the
frame whose turn it is, and `off`, the frame at which the sender last began to count. All frames from `off` on are numbered
from there (`Numbered`), everything held or on its way is at or after `E` (`Ahead`), everything written before it (`Behind`), and the
expected number is that of `E` (`Synced`), or the receiver has just been restarted or met a restarted sender and is looking for its place
(`Searching`). Then the held frames lie within half the numbers, so the order of `FrameCmp` is that of the stream: the top
of the heap is the earliest frame held (`LeastNat`), and the run that the loop writes is consecutive, as equal numbers in a
window are equal frames. What may be lost in a whole behaviour is bounded by `WindowFits`, so for the stream without end there is
`StreamWrittenInOrder`: without restarts, and while the frames on their way or held stay within half the numbers of the last one
written (`Close`, a condition on each state), any number of frames may be sent and lost and the numbers may wrap any number of times.
There `E` is the frame after the last one written (`Due`) and `off` is 1 for ever (`InTurn`). `TInv` adds that a frame that is waited for has been overtaken by those held, which is what bounds the wait.

**`DNP3FragHandlerProofs`**, for any flows, any number of transport sequence numbers, any streams (well formed or
not) and any loss. `FragInv` is `Typed`, `Booked` (`Books` of every flow: what is on record is what is queued, and no number is queued twice, which
is stronger than the equal sizes of the property) and the existence of places (`Placed`): a function gives every frame one place
(away, on one of the two strands, queued, saved, written), and the strands, queues and what is written list just the frames placed
there, each once. `FlowStep` is the heart: whatever a handler of a flow does, it divides what the flow held and the frame it
took into what is written and what is held. A flush writes everything (`FlushWritesHeld`) in whatever order
the heap gives, also where the comparison is no order. Theorems: `BooksAlwaysKept`, `FramesNeverLost`.

`FlowsWrittenInOrder` is about streams of well-formed messages (its hypothesis `WellFormed`): the messages of a flow follow
each other, FIR is the first frame of each and FIN the last, and the numbers of a message are consecutive and at most half
of those there are, 32 of the code's 64. On one message `FragCmp` then is the order of the stream (`CmpIsOrder`), so a complete
message is popped in just one way (`PoppedInOrder`); none of its frames is taken for a duplicate (`NewInMessage`); and the count
between FIR and FIN is right when the message is all there and not before (`CompleteIs`). `OrderInv` says what the handler finds when
frames came in time: every frame on a strand is tolerable, given those that arrived before it (`MarshalledTolerable`,
`PostedTolerable`: the strands keep the order of arrival, though the frame is handled later); and every flow has written its first
messages whole, has queued a part of the next one and saved at most the whole message right behind that (`Progress`).
`FragmentContinues` and `WholeProgress` are the heart: a fragment that does not belong to the message in the making, or a second
whole message behind it, would be one that came too early. `PlacedSays` ties this to the places of `FragInv`: without loss, what
is neither on its way nor on a strand is held or written, so in the end nothing can be held.

**`SerialLinkProofs`**, for any number of ports, any queue and any number of datagrams and buffers. `QInv` is
`PortsTypeOK`, `PortStates`, `IdleList` and `Apart` (the places of messages on their way share
nothing). Each step of the link does to the ports what a step of `SerialPorts` does, so the proof for the ports alone
(`PortsNeverForgotten`) carries over (`LinkPortsAccountedFor`). `UInv` is `Buffers` and `Contents`: the
free, receiving and queued receive buffers are distinct, and the i-th datagram that waits has the i-th number
from `count` on. `LinkIsStream` is the refinement: every step of the two programs and the lines is a step of
`DelimFragHandler` or changes nothing it knows of; `Apart` is what makes a message that is read one that is on its way.
Through this refinement `FInv`, proved in `DelimFragHandlerProofs`, holds of the link (that module is
instantiated with the same mapping), and together the three invariants give `DatagramsAlwaysConserved`. In the same way `InTurn`
gives `LinkWritesInOrder`: for any number of datagrams and wraps of the sequence number, unless a wait was given up too early,
datagrams are delivered in the order received, and without loss none is skipped, as long as no message on the lines or held is half
the sequence numbers ahead of the last one delivered (`WindowKept`, a condition on each state). `LinkAssumption` states what `DelimFragHandler` assumes of its constants.

Each of these modules begins with the lemmas on lists and queues that it needs: what is in a list, and how often,
after something was put in at the end or taken out at the front.

Only model-checked:

* every liveness property (`SilentForgotten`, `PermaReturns`, `DelayEnds`, `DatagramsSettle`, `Reconnects`,
  `RunEnds`): liveness under fairness and ENABLED are out of the prover's reach;
* what a recursive definition computes: `BytesConserved`, `ArrivalIndependent` and `SoundFramesDelivered` of
  `RcvStream`, whose framing loop is recursive: that needs induction over data.

## 6. Not modelled

* What the instructions of `TinyRISCV64` other than multiplications and divisions compute, and how
  immediates are put together: word arithmetic without a state of its own. `halt_program`, which
  nothing calls.
* Throttling, several end points for one name, and the destructor of `TCPSocketManager`; the setters of
  `SerialPortsManager` and the wait of its destructor.
* A TCP stream in place of the serial lines in `SerialLink`: it keeps the order, so
  `DelimFragHandler` has less to do.
* Unframed data, which passes by `DelimFragHandler`.
* Options, logging, `main`, signals, `Benchmark`, platform wrappers: no state that matters here.
* Shutdown (`stopping` in `MiniPlex`): the io_context is stopped and nothing runs afterwards.

## 7. Plan

Done: TimeoutCache and its refinement, MiniPlex's modes, the buffer pool, the virtual machine, all
framers and fragment handlers, restarts, ProtoConv from end to end over serial lines, the TCP
manager; proofs for the cache, the modes, the pool, the memory and the arithmetic of the virtual machine, the TCP manager, both
fragment handlers, the serial ports and the link.

Left to TLC: what section 5 lists as only model-checked.
