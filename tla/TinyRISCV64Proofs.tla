------------------------- MODULE TinyRISCV64Proofs -------------------------
(* Proofs about the virtual machine, for any program and any datagrams, any    *)
(* sizes that leave room at the top of the address space, and any number of    *)
(* addresses; and about its multiplications and divisions, for words of any    *)
(* even size.                                                                  *)
EXTENDS TinyRISCV64, TLAPS

USE SizesAssumption, RoomAssumption

-----------------------------------------------------------------------------
(* Arithmetic *)

\* A number below the modulus is its own remainder.
LEMMA ModSmall ==
    ASSUME NEW m \in Nat \ {0}, NEW a \in 0..(m - 1)
    PROVE  a % m = a
  OBVIOUS
\* A remainder is below the modulus.
LEMMA ModRange ==
    ASSUME NEW m \in Nat \ {0}, NEW a \in Int
    PROVE  a % m \in 0..(m - 1)
  OBVIOUS

-----------------------------------------------------------------------------
(* The inductive invariant *)

\* The memory map is the one of the program and the datagram.
MapOK ==
    /\ program.size \in ProgSizes \cup {InstSize}
    /\ data.size \in DataSizes \cup {0}
    /\ data.of = run
    /\ map = Regions(program.size, data.size)

MachineOK ==
    /\ phase \in {"idle", "running", "returning", "crashed"}
    /\ run \in Nat
    /\ pc \in Addr /\ sp \in Addr /\ count \in 0..max_instructions
    /\ stack \in [0..(StackSize - 1) -> 0..run]

\* The last access was to bytes that are there.
InBounds(a) == a.off >= 0 /\ a.off + a.size <= RegionSize[a.region]
AccessOK ==
    /\ access # NoAccess => InBounds(access)
    /\ phase = "running" => access # NoAccess

\* In the two places of the results nothing is left of an earlier run.
ResultBytes == (StackSize - 2 * DoubleSize)..(StackSize - 1)
SlotsFresh ==
    phase \in {"running", "returning"} => \A i \in ResultBytes : stack[i] \in {0, run}

\* While a run lasts there is no result.
NoResultYet == phase # "idle" => result = Nothing

VInv == MapOK /\ MachineOK /\ AccessOK /\ SlotsFresh /\ NoResultYet /\ NoStaleResult
-----------------------------------------------------------------------------
(* Memory *)

\* The regions follow each other with room at the end of the address space.
LEMMA MapFacts ==
    ASSUME MapOK
    PROVE  /\ program.size \in Nat /\ data.size \in Nat
           /\ map.p_end = program.size
           /\ map.d_beg = program.size + Gap
           /\ map.d_end = program.size + Gap + data.size
           /\ map.s_beg = program.size + data.size + 2 * Gap
           /\ map.s_end = program.size + data.size + 2 * Gap + StackSize
           /\ map.s_end <= AddrMod - 2 * DoubleSize
           /\ program.size + data.size + 2 * Gap + StackSize <= AddrMod - 2 * DoubleSize
<1>1. program.size \in Nat /\ data.size \in Nat
  BY DEF MapOK
<1>2. program.size + data.size + StackSize + 2 * Gap <= AddrMod - 2 * DoubleSize
  BY DEF MapOK
<1>3. /\ map.p_end = program.size
      /\ map.d_beg = program.size + Gap
      /\ map.d_end = program.size + Gap + data.size
      /\ map.s_beg = program.size + data.size + 2 * Gap
      /\ map.s_end = program.size + data.size + 2 * Gap + StackSize
  BY DEF MapOK, Regions
<1> QED BY <1>1, <1>2, <1>3

\* What mem_ptr finds for an access: the one region that holds all of it, if any.
LEMMA FoundInRegion ==
    ASSUME MapOK, NEW addr \in Addr, NEW size \in Nat \ {0}, ~Wraps(addr),
           addr + size - 1 < AddrMod
    PROVE  mem_ptr(addr, size) =
             IF addr + size <= program.size
             THEN [region |-> "program", off |-> addr, size |-> size]
             ELSE IF addr >= map.d_beg /\ addr + size <= map.d_end
             THEN [region |-> "data", off |-> addr - map.d_beg, size |-> size]
             ELSE IF addr >= map.s_beg /\ addr + size <= map.s_end
             THEN [region |-> "stack", off |-> addr - map.s_beg, size |-> size]
             ELSE NoAccess
<1>1. addr \in Nat /\ AddrMod \in Nat \ {0} /\ Gap \in Nat /\ StackSize \in Nat /\ DoubleSize \in Nat
  BY DEF Addr
<1>2. (addr + size - 1) % AddrMod = addr + size - 1
  BY <1>1, ModSmall
<1>3. \A beg, end \in Nat : Inside(addr, size, beg, end) <=> addr >= beg /\ addr + size <= end
  BY <1>1, <1>2 DEF Inside
<1> DEFINE P == addr + size <= program.size
           D == addr >= map.d_beg /\ addr + size <= map.d_end
           S == addr >= map.s_beg /\ addr + size <= map.s_end
<1>4. /\ Inside(addr, size, 0, map.p_end) <=> P
      /\ Inside(addr, size, map.d_beg, map.d_end) <=> D
      /\ Inside(addr, size, map.s_beg, map.s_end) <=> S
  BY <1>1, <1>3, MapFacts
<1>5. ~(P /\ D) /\ ~(P /\ S) /\ ~(D /\ S)
  BY <1>1, MapFacts
<1>6. addr - 0 = addr
  BY <1>1
<1>7. CASE P
  BY <1>4, <1>5, <1>6, <1>7 DEF mem_ptr
<1>8. CASE D
  BY <1>4, <1>5, <1>8 DEF mem_ptr
<1>9. CASE S
  BY <1>4, <1>5, <1>9 DEF mem_ptr
<1>10. CASE ~P /\ ~D /\ ~S
  BY <1>4, <1>10 DEF mem_ptr
<1> QED BY <1>7, <1>8, <1>9, <1>10
\* An access that mem_ptr lets through is within its region.
LEMMA FoundInBounds ==
    ASSUME MapOK, NEW addr \in Addr, NEW size \in 1..DoubleSize, mem_ptr(addr, size) # NoAccess
    PROVE  InBounds(mem_ptr(addr, size))
<1>1. /\ addr \in Nat /\ size \in Nat \ {0} /\ AddrMod \in Nat \ {0}
      /\ DoubleSize \in Nat /\ Gap \in Nat /\ StackSize \in Nat
  BY DEF Addr
<1>2. ~Wraps(addr)
  BY DEF mem_ptr
<1>3. addr + size - 1 < AddrMod
  BY <1>1, <1>2 DEF Wraps
<1>4. /\ RegionSize["program"] = program.size
      /\ RegionSize["data"] = data.size
      /\ RegionSize["stack"] = StackSize
  BY DEF RegionSize
<1> QED BY <1>1, <1>2, <1>3, <1>4, MapFacts, FoundInRegion DEF InBounds

\* The two places that GetSrcDst pushes are the last of the stack, one above the
\* other.
SlotsAreFound ==
    /\ DstSlot \in Addr /\ SrcSlot \in Addr
    /\ SrcSlot = (DstSlot + DoubleSize) % AddrMod
    /\ mem_ptr(DstSlot, DoubleSize) =
         [region |-> "stack", off |-> StackSize - 2 * DoubleSize, size |-> DoubleSize]
    /\ mem_ptr(SrcSlot, DoubleSize) =
         [region |-> "stack", off |-> StackSize - DoubleSize, size |-> DoubleSize]

\* The map of the address space has them.
LEMMA SlotsFound == MapOK => SlotsAreFound
<1> SUFFICES ASSUME MapOK PROVE SlotsAreFound
  OBVIOUS
<1>1. /\ AddrMod \in Nat \ {0} /\ DoubleSize \in Nat \ {0} /\ Gap \in Nat /\ StackSize \in Nat
      /\ StackSize >= 2 * DoubleSize
  OBVIOUS
<1>2. /\ map.s_end \in Nat /\ map.s_beg \in Nat /\ map.s_end = map.s_beg + StackSize
      /\ map.s_end <= AddrMod - 2 * DoubleSize
      /\ map.s_beg >= map.d_end /\ map.s_beg >= program.size
      /\ map.d_end \in Nat /\ program.size \in Nat
  BY <1>1, MapFacts
<1>3. DstSlot = map.s_end - 2 * DoubleSize /\ SrcSlot = map.s_end - DoubleSize
  <2>1. map.s_end - 2 * DoubleSize \in 0..(AddrMod - 1)
    BY <1>1, <1>2
  <2>2. map.s_end - DoubleSize \in 0..(AddrMod - 1)
    BY <1>1, <1>2
  <2>3. DstSlot = map.s_end - 2 * DoubleSize
    BY <1>1, <2>1, ModSmall DEF DstSlot
  <2>4. SrcSlot = map.s_end - DoubleSize
    BY <1>1, <2>2, ModSmall DEF SrcSlot
  <2> QED BY <2>3, <2>4
<1>4. DstSlot \in Addr /\ SrcSlot \in Addr
  BY <1>1, <1>2, <1>3 DEF Addr
<1>5. SrcSlot = (DstSlot + DoubleSize) % AddrMod
  <2>1. DstSlot + DoubleSize = SrcSlot
    BY <1>1, <1>2, <1>3
  <2> QED BY <1>1, <1>4, <2>1, ModSmall DEF Addr
<1>6. /\ ~Wraps(DstSlot) /\ DstSlot + DoubleSize - 1 < AddrMod
      /\ ~Wraps(SrcSlot) /\ SrcSlot + DoubleSize - 1 < AddrMod
  BY <1>1, <1>2, <1>3 DEF Wraps
<1>7. mem_ptr(DstSlot, DoubleSize) =
        [region |-> "stack", off |-> StackSize - 2 * DoubleSize, size |-> DoubleSize]
  <2>1. /\ ~(DstSlot + DoubleSize <= program.size) /\ ~(DstSlot + DoubleSize <= map.d_end)
        /\ DstSlot >= map.s_beg /\ DstSlot + DoubleSize <= map.s_end
        /\ DstSlot - map.s_beg = StackSize - 2 * DoubleSize
    BY <1>1, <1>2, <1>3
  <2> QED BY <1>1, <1>4, <1>6, <2>1, FoundInRegion
<1>8. mem_ptr(SrcSlot, DoubleSize) =
        [region |-> "stack", off |-> StackSize - DoubleSize, size |-> DoubleSize]
  <2>1. /\ ~(SrcSlot + DoubleSize <= program.size) /\ ~(SrcSlot + DoubleSize <= map.d_end)
        /\ SrcSlot >= map.s_beg /\ SrcSlot + DoubleSize <= map.s_end
        /\ SrcSlot - map.s_beg = StackSize - DoubleSize
    BY <1>1, <1>2, <1>3
  <2> QED BY <1>1, <1>4, <1>6, <2>1, FoundInRegion
<1> QED BY <1>4, <1>5, <1>7, <1>8 DEF SlotsAreFound

\* The fetch of an instruction, checked on its own, is within the program; so are
\* the instructions around an EBREAK.
LEMMA FetchedInBounds ==
    ASSUME MapOK, MachineOK, MayExecute, NEW a \in {Fetched} \cup Marks
    PROVE  a # NoAccess /\ InBounds(a) /\ NextPc \in Addr
<1>1. /\ AddrMod \in Nat \ {0} /\ DoubleSize \in Nat \ {0} /\ InstSize \in Nat \ {0}
      /\ Gap \in Nat /\ StackSize \in Nat /\ pc \in Nat /\ program.size \in Nat
  BY MapFacts DEF MachineOK, Addr
<1>2. pc + InstSize <= program.size /\ program.size <= AddrMod - 2 * DoubleSize
  BY <1>1, MapFacts DEF MayExecute, Outside
<1>3. NextPc = pc + InstSize
  <2>1. pc + InstSize \in 0..(AddrMod - 1)
    BY <1>1, <1>2
  <2> QED BY <1>1, <2>1, ModSmall DEF NextPc
<1>4. RegionSize["program"] = program.size
  BY DEF RegionSize
<1>5. \A b : b \in Nat /\ b + InstSize <= program.size =>
        mem_ptr(b, InstSize) = [region |-> "program", off |-> b, size |-> InstSize]
  <2> TAKE b
  <2> HAVE b \in Nat /\ b + InstSize <= program.size
  <2>1. b \in Addr /\ ~Wraps(b) /\ b + InstSize - 1 < AddrMod
    BY <1>1, <1>2 DEF Addr, Wraps
  <2> QED BY <1>1, <2>1, FoundInRegion
<1>6. \E b \in Nat : b + InstSize <= program.size /\
                     a = [region |-> "program", off |-> b, size |-> InstSize]
  <2>1. CASE a = Fetched
    BY <1>1, <1>2, <2>1 DEF Fetched
  <2>2. CASE NextPc >= 2 * InstSize /\ a = mem_ptr(NextPc - 2 * InstSize, InstSize)
    <3>1. NextPc - 2 * InstSize \in Nat /\ NextPc - 2 * InstSize + InstSize <= program.size
      BY <1>1, <1>2, <1>3, <2>2
    <3> QED BY <1>5, <2>2, <3>1
  <2>3. CASE NextPc + InstSize - 1 < map.p_end /\ a = mem_ptr(NextPc, InstSize)
    <3>1. NextPc \in Nat /\ NextPc + InstSize <= program.size
      BY <1>1, <1>2, <1>3, <2>3, MapFacts
    <3> QED BY <1>5, <2>3, <3>1
  <2> QED BY <2>1, <2>2, <2>3 DEF Marks
<1>7. NextPc \in Addr
  BY <1>1, <1>2, <1>3 DEF Addr
<1> QED BY <1>1, <1>4, <1>6, <1>7 DEF InBounds, NoAccess

\* A store changes only the bytes of the stack that it is to.
LEMMA StoredType ==
    ASSUME NEW r \in Nat, NEW s \in [0..(StackSize - 1) -> 0..r], NEW a, NEW w \in 0..r
    PROVE  /\ Stored(s, a, w) \in [0..(StackSize - 1) -> 0..r]
           /\ \A i \in 0..(StackSize - 1) : Stored(s, a, w)[i] \in {w, s[i]}
  BY DEF Stored

-----------------------------------------------------------------------------
(* The invariant is inductive *)

\* Before the first datagram the stack is empty and nothing has been returned.
LEMMA VInvInit == Init => VInv
<1> SUFFICES ASSUME Init PROVE VInv
  OBVIOUS
<1>1. MapOK
  BY DEF Init, MapOK
<1>2. MachineOK
  <2>1. sp \in Addr /\ 0 \in Addr
    <3>1. sp = map.s_end /\ map.s_end \in Nat /\ map.s_end <= AddrMod - 2 * DoubleSize
      <4>1. sp = map.s_end
        BY DEF Init
      <4>2. Gap \in Nat /\ StackSize \in Nat
        OBVIOUS
      <4> HIDE SizesAssumption, RoomAssumption
      <4> QED BY <1>1, <4>1, <4>2, MapFacts
    <3>2. AddrMod \in Nat \ {0} /\ DoubleSize \in Nat \ {0}
      OBVIOUS
    <3> QED BY <3>1, <3>2 DEF Addr
  <2> QED BY <2>1 DEF Init, MachineOK
<1>3. AccessOK /\ SlotsFresh /\ NoResultYet /\ NoStaleResult
  BY DEF Init, AccessOK, SlotsFresh, NoResultYet, NoStaleResult
<1> QED BY <1>1, <1>2, <1>3 DEF VInv

\* What an instruction leaves alone: the memory map and the bounds it gives.
LEMMA MapKept ==
    ASSUME MapOK, UNCHANGED <<program, data, map, run>>
    PROVE  MapOK' /\ (\A a : InBounds(a) => InBounds(a)')
<1>1. MapOK'
  BY DEF MapOK
<1>2. \A a : InBounds(a) => InBounds(a)'
  BY DEF InBounds, RegionSize
<1> QED BY <1>1, <1>2

\* An instruction that stores nothing: pc moves to some address, and what it reads
\* is there.
LEMMA InstructionKeeps ==
    ASSUME VInv, MayExecute,
           UNCHANGED <<program, data, map, run, stack, sp>>,
           count' = Counted, pc' \in Addr,
           access' # NoAccess, InBounds(access'),
           \/ UNCHANGED <<phase, result>>
           \/ Fails
    PROVE  VInv'
<1>1. MapOK' /\ (\A a : InBounds(a) => InBounds(a)')
  BY MapKept DEF VInv
<1>2. MachineOK'
  BY DEF VInv, MachineOK, MayExecute, Counted, Fails
<1>3. AccessOK'
  <2>1. InBounds(access)'
    BY <1>1 DEF InBounds, RegionSize
  <2> QED BY <2>1 DEF AccessOK
<1>4. SlotsFresh'
  BY DEF VInv, SlotsFresh, MayExecute, Fails, ResultBytes
<1>5. result' = Nothing
  BY DEF VInv, NoResultYet, MayExecute, Fails
<1> QED BY <1>1, <1>2, <1>3, <1>4, <1>5 DEF VInv, NoResultYet, NoStaleResult

\* GetSrcDst maps the datagram, and clears the two places of the results.
LEMMA GetSrcDstKeeps ==
    ASSUME VInv, NEW n \in DataSizes, GetSrcDst(n)
    PROVE  VInv'
<1>1. MapOK'
  <2>1. program' = program /\ data' = [size |-> n, of |-> run'] /\ map' = Regions(program.size, n)
    BY DEF GetSrcDst
  <2>2. data'.size = n /\ data'.of = run'
    BY <2>1
  <2> QED BY <2>1, <2>2 DEF VInv, MapOK
<1>2. SlotsAreFound'
  <2>1. (MapOK => SlotsAreFound)'
    BY SlotsFound, PTL
  <2> QED BY <1>1, <2>1
<1> DEFINE dst == [region |-> "stack", off |-> StackSize - 2 * DoubleSize, size |-> DoubleSize]
           src == [region |-> "stack", off |-> StackSize - DoubleSize, size |-> DoubleSize]
<1>3. access' = dst /\ stack' = Stored(Stored(stack, src, 0), dst, 0) /\ sp' \in Addr
  BY <1>2 DEF GetSrcDst, SlotsAreFound, Slots
<1>4. run' \in Nat /\ run' = run + 1 /\ run \in Nat
  BY DEF GetSrcDst, VInv, MachineOK
<1>5. stack \in [0..(StackSize - 1) -> 0..run']
  <2>1. stack \in [0..(StackSize - 1) -> 0..run]
    BY DEF VInv, MachineOK
  <2>2. 0..run \subseteq 0..run'
    BY <1>4
  <2> QED BY <2>1, <2>2
<1>6. stack' \in [0..(StackSize - 1) -> 0..run']
  <2>1. 0 \in 0..run'
    BY <1>4
  <2>2. Stored(stack, src, 0) \in [0..(StackSize - 1) -> 0..run']
    BY <1>4, <1>5, <2>1, StoredType
  <2> QED BY <1>3, <1>4, <2>1, <2>2, StoredType
<1>7. \A i \in ResultBytes : stack'[i] = 0
  <2> TAKE i \in ResultBytes
  <2> HIDE DEF dst, src
  <2>1. StackSize \in Nat /\ DoubleSize \in Nat \ {0} /\ StackSize >= 2 * DoubleSize
    OBVIOUS
  <2>2. i \in 0..(StackSize - 1)
    BY <2>1 DEF ResultBytes
  <2>3. i \in Bytes(dst) \/ i \in Bytes(src)
    BY <2>1 DEF ResultBytes, Bytes, dst, src
  <2>4. dst.region = "stack" /\ src.region = "stack"
    BY DEF dst, src
  <2>5. DOMAIN stack = 0..(StackSize - 1)
    BY <1>5
  <2>6. stack' = [j \in 0..(StackSize - 1) |-> IF j \in Bytes(dst) THEN 0
                                              ELSE IF j \in Bytes(src) THEN 0 ELSE stack[j]]
    BY <1>3, <2>4, <2>5 DEF Stored
  <2> QED BY <2>2, <2>3, <2>6
<1>8. phase' \in {"idle", "running"} /\ result' = Nothing /\ pc' = 0 /\ count' = 0
  BY DEF GetSrcDst, Fails
<1>9. MachineOK'
  BY <1>3, <1>4, <1>6, <1>8 DEF MachineOK, Addr
<1>10. AccessOK'
  <2>1. InBounds(access)'
    <3>1. RegionSize'["stack"] = StackSize
      BY DEF RegionSize
    <3>2. access'.off = StackSize - 2 * DoubleSize /\ access'.size = DoubleSize
          /\ access'.region = "stack"
      BY <1>3
    <3> QED BY <3>1, <3>2 DEF InBounds
  <2> QED BY <1>3, <2>1 DEF AccessOK, NoAccess
<1>11. SlotsFresh'
  BY <1>7 DEF SlotsFresh, ResultBytes
<1> QED BY <1>1, <1>8, <1>9, <1>10, <1>11 DEF VInv, NoResultYet, NoStaleResult

\* A store stays in its region and marks its bytes as written by this run.
LEMMA StoreKeeps ==
    ASSUME VInv, NEW addr \in Addr, NEW size \in AccessSizes, exec_store(addr, size)
    PROVE  VInv'
<1>1. MapOK' /\ (\A a : InBounds(a) => InBounds(a)')
  BY MapKept DEF VInv, exec_store, Fetch
<1>2. NextPc \in Addr
  BY FetchedInBounds DEF VInv, exec_store, Fetch
<1>3. /\ UNCHANGED <<program, phase, data, map, run, result, sp>>
      /\ access' = mem_ptr(addr, size) /\ access' # NoAccess
      /\ stack' = Stored(stack, mem_ptr(addr, size), run)
      /\ count' = Counted /\ pc' = NextPc /\ MayExecute
  BY DEF exec_store, Fetch
<1>4. run \in Nat /\ run \in 0..run /\ stack \in [0..(StackSize - 1) -> 0..run]
  BY DEF VInv, MachineOK
<1>5. /\ stack' \in [0..(StackSize - 1) -> 0..run]
      /\ \A i \in 0..(StackSize - 1) : stack'[i] \in {run, stack[i]}
  BY <1>3, <1>4, StoredType
<1>6. MachineOK'
  BY <1>2, <1>3, <1>5 DEF VInv, MachineOK, MayExecute, Counted
<1>7. AccessOK'
  <2>1. InBounds(mem_ptr(addr, size))
    BY <1>3, FoundInBounds DEF VInv
  <2>2. InBounds(access)'
    BY <1>3, <2>1 DEF InBounds, RegionSize
  <2> QED BY <1>3, <2>2 DEF AccessOK
<1>8. SlotsFresh'
  <2>1. ResultBytes \subseteq 0..(StackSize - 1)
    BY DEF ResultBytes
  <2> QED BY <1>3, <1>5, <2>1 DEF VInv, SlotsFresh, ResultBytes
<1>9. result' = Nothing
  BY <1>3 DEF VInv, NoResultYet, MayExecute
<1> QED BY <1>1, <1>6, <1>7, <1>8, <1>9 DEF VInv, NoResultYet, NoStaleResult

\* When the stack pointer is where GetSrcDst put it, both results come from the
\* places that were cleared for them.
LEMMA ReturnsKeeps ==
    ASSUME VInv, NEW res \in BOOLEAN, Returns(res)
    PROVE  VInv'
<1> DEFINE dst == mem_ptr(Popped[1], DoubleSize)
           src == mem_ptr(Popped[2], DoubleSize)
<1> HIDE DEF dst, src
<1>1. /\ UNCHANGED <<program, data, map, run, sp, pc, count, stack>>
      /\ phase = "returning" /\ phase' = "idle"
      /\ \/ /\ src # NoAccess /\ access' = src
            /\ result' = [ok |-> res, src |-> Loaded(src), dst |-> Loaded(dst)]
         \/ access' = access /\ result' = Nothing
  BY DEF Returns, Fails, dst, src, machine
<1>2. MapOK' /\ (\A a : InBounds(a) => InBounds(a)')
  BY <1>1, MapKept DEF VInv
<1>3. MachineOK'
  BY <1>1 DEF VInv, MachineOK
<1>4. Popped[1] = sp /\ Popped[2] = (sp + DoubleSize) % AddrMod
  BY DEF Popped
<1>5. Popped[2] \in Addr
  <2>1. sp + DoubleSize \in Int /\ AddrMod \in Nat \ {0}
    BY DEF VInv, MachineOK, Addr
  <2>2. (sp + DoubleSize) % AddrMod \in 0..(AddrMod - 1)
    BY <2>1, ModRange
  <2> QED BY <1>4, <2>2 DEF Addr
<1>6. AccessOK'
  <2>1. src # NoAccess => InBounds(src)
    BY <1>5, FoundInBounds DEF VInv, src
  <2>2. access' # NoAccess => InBounds(access')
    BY <1>1, <2>1 DEF VInv, AccessOK
  <2>3. access' # NoAccess => InBounds(access)'
    BY <1>1, <2>2 DEF InBounds, RegionSize
  <2> QED BY <1>1, <2>3 DEF AccessOK
<1>7. SlotsFresh' /\ NoResultYet'
  BY <1>1 DEF SlotsFresh, NoResultYet
<1>8. NoStaleResult'
  <2> SUFFICES ASSUME result' # Nothing, sp' = DstSlot'
               PROVE  /\ result'.src \cup result'.dst \subseteq {0, run}
                      /\ access' = mem_ptr(SrcSlot, DoubleSize)'
    BY <1>1 DEF NoStaleResult
  <2>1. sp = DstSlot
    BY <1>1 DEF DstSlot
  <2>2. SlotsAreFound
    BY SlotsFound DEF VInv
  <2>3. /\ dst = [region |-> "stack", off |-> StackSize - 2 * DoubleSize, size |-> DoubleSize]
        /\ src = [region |-> "stack", off |-> StackSize - DoubleSize, size |-> DoubleSize]
        /\ src = mem_ptr(SrcSlot, DoubleSize)
    BY <1>4, <2>1, <2>2 DEF SlotsAreFound, src, dst
  <2>4. mem_ptr(SrcSlot, DoubleSize)' = mem_ptr(SrcSlot, DoubleSize)
    BY <1>1 DEF mem_ptr, SrcSlot, Wraps, Inside
  <2>5. Bytes(src) \subseteq ResultBytes /\ Bytes(dst) \subseteq ResultBytes
    <3>1. StackSize \in Nat /\ DoubleSize \in Nat \ {0}
      OBVIOUS
    <3>2. src.off = StackSize - DoubleSize /\ src.size = DoubleSize
      BY <2>3
    <3>3. dst.off = StackSize - 2 * DoubleSize /\ dst.size = DoubleSize
      BY <2>3
    <3> QED BY <3>1, <3>2, <3>3 DEF Bytes, ResultBytes
  <2>6. \A i \in ResultBytes : stack[i] \in {0, run}
    BY <1>1 DEF VInv, SlotsFresh
  <2>7. Loaded(src) \subseteq {0, run} /\ Loaded(dst) \subseteq {0, run}
    BY <2>5, <2>6 DEF Loaded
  <2> QED BY <1>1, <2>3, <2>4, <2>7
<1> QED BY <1>2, <1>3, <1>6, <1>7, <1>8 DEF VInv

\* Every step keeps the invariant.
LEMMA VInvStep == VInv /\ [Next]_vars => VInv'
<1> SUFFICES ASSUME VInv, [Next]_vars PROVE VInv'
  OBVIOUS
<1> USE DEF machine
<1>1. CASE \E n \in DataSizes : GetSrcDst(n)
  BY <1>1, GetSrcDstKeeps
<1>2. CASE LoopThrows
  <2>1. /\ UNCHANGED <<program, data, map, sp, pc, count, stack, run, access>>
        /\ phase' = "idle" /\ result' = Nothing
    BY <1>2 DEF LoopThrows, Fails
  <2>2. MapOK' /\ (\A a : InBounds(a) => InBounds(a)')
    BY <2>1, MapKept DEF VInv
  <2>3. MachineOK'
    BY <2>1 DEF VInv, MachineOK
  <2>4. AccessOK'
    BY <2>1 DEF VInv, AccessOK, InBounds, RegionSize
  <2> QED BY <2>1, <2>2, <2>3, <2>4 DEF VInv, SlotsFresh, NoResultYet, NoStaleResult
<1>3. CASE InstructionThrows
  <2>1. MayExecute
    BY <1>3 DEF InstructionThrows
  <2>2. Fetched # NoAccess /\ InBounds(Fetched) /\ NextPc \in Addr
    BY <2>1, FetchedInBounds DEF VInv
  <2> QED BY <1>3, <2>1, <2>2, InstructionKeeps DEF InstructionThrows
<1>4. CASE Computes
  <2>1. MayExecute
    BY <1>4 DEF Computes, Fetch
  <2>2. Fetched # NoAccess /\ InBounds(Fetched) /\ NextPc \in Addr
    BY <2>1, FetchedInBounds DEF VInv
  <2> QED BY <1>4, <2>1, <2>2, InstructionKeeps DEF Computes, Fetch
<1>5. CASE Calculates
  <2>1. MayExecute
    BY <1>5 DEF Calculates
  <2>2. Fetched # NoAccess /\ InBounds(Fetched) /\ NextPc \in Addr
    BY <2>1, FetchedInBounds DEF VInv
  <2>3. CASE Fetch(NextPc) /\ access' = Fetched /\ UNCHANGED <<sp, stack>>
    BY <2>1, <2>2, <2>3, InstructionKeeps DEF Fetch
  <2>4. CASE phase' = "crashed" /\ UNCHANGED <<program, data, map, machine, run, access, result, sp, stack>>
    <3>1. MapOK' /\ (\A a : InBounds(a) => InBounds(a)')
      BY <2>4, MapKept DEF VInv
    <3>2. MachineOK'
      BY <2>4 DEF VInv, MachineOK
    <3>3. AccessOK'
      BY <2>4 DEF VInv, AccessOK, InBounds, RegionSize
    <3>4. result' = Nothing
      BY <2>1, <2>4 DEF VInv, NoResultYet, MayExecute
    <3> QED BY <2>4, <3>1, <3>2, <3>3, <3>4 DEF VInv, SlotsFresh, NoResultYet, NoStaleResult
  <2> QED BY <1>5, <2>3, <2>4 DEF Calculates
<1>6. CASE exec_ebreak
  <2>1. MayExecute /\ access' \in {Fetched} \cup Marks
    BY <1>6 DEF exec_ebreak
  <2>2. access' # NoAccess /\ InBounds(access') /\ NextPc \in Addr
    BY <2>1, FetchedInBounds DEF VInv
  <2> QED BY <1>6, <2>1, <2>2, InstructionKeeps DEF exec_ebreak
<1>7. ASSUME NEW target \in Addr, Jumps(target) PROVE VInv'
  <2>1. MayExecute
    BY <1>7 DEF Jumps, Fetch
  <2>2. Fetched # NoAccess /\ InBounds(Fetched)
    BY <2>1, FetchedInBounds DEF VInv
  <2> QED BY <1>7, <2>1, <2>2, InstructionKeeps DEF Jumps, Fetch
<1>8. ASSUME NEW addr \in Addr, NEW size \in AccessSizes, exec_load(addr, size) PROVE VInv'
  <2>1. MayExecute /\ access' = mem_ptr(addr, size) /\ access' # NoAccess
    BY <1>8 DEF exec_load, Fetch
  <2>2. NextPc \in Addr
    BY <2>1, FetchedInBounds DEF VInv
  <2>3. InBounds(access')
    BY <2>1, FoundInBounds DEF VInv
  <2> QED BY <1>8, <2>1, <2>2, <2>3, InstructionKeeps DEF exec_load, Fetch
<1>9. ASSUME NEW addr \in Addr, NEW size \in AccessSizes, exec_store(addr, size) PROVE VInv'
  BY <1>9, StoreKeeps
<1>10. ASSUME NEW left \in Addr, Halts(left) PROVE VInv'
  <2>1. /\ UNCHANGED <<program, data, map, pc, count, stack, run, result>>
        /\ phase = "running" /\ phase' = "returning" /\ sp' \in Addr /\ access' = NoAccess
    BY <1>10 DEF Halts
  <2>2. MapOK' /\ (\A a : InBounds(a) => InBounds(a)')
    BY <2>1, MapKept DEF VInv
  <2>3. MachineOK'
    BY <2>1 DEF VInv, MachineOK
  <2>4. AccessOK' /\ SlotsFresh'
    BY <2>1 DEF VInv, AccessOK, SlotsFresh, ResultBytes
  <2>5. result' = Nothing
    BY <2>1 DEF VInv, NoResultYet
  <2> QED BY <2>2, <2>3, <2>4, <2>5 DEF VInv, NoResultYet, NoStaleResult
<1>11. ASSUME NEW res \in BOOLEAN, Returns(res) PROVE VInv'
  BY <1>11, ReturnsKeeps
<1>12. CASE UNCHANGED vars
  <2>1. /\ MapOK' /\ MachineOK'
        /\ SlotsFresh' /\ NoResultYet'
    BY <1>12 DEF vars, VInv, MapOK, MachineOK, SlotsFresh, NoResultYet, ResultBytes
  <2>2. AccessOK'
    BY <1>12 DEF vars, VInv, AccessOK, InBounds, RegionSize
  <2>3. NoStaleResult'
    BY <1>12 DEF vars, VInv, NoStaleResult, mem_ptr, SrcSlot, DstSlot, Wraps, Inside
  <2> QED BY <2>1, <2>2, <2>3 DEF VInv
<1> QED BY <1>1, <1>2, <1>3, <1>4, <1>5, <1>6, <1>7, <1>8, <1>9, <1>10, <1>11, <1>12 DEF Next, Step

\* The invariant holds in every behaviour.
LEMMA AlwaysVInv == Spec => []VInv
  BY VInvInit, VInvStep, PTL DEF Spec

\* Whatever the program does, the machine reads and writes only bytes of the
\* program, the datagram and the stack that are there, and data only while it is
\* the datagram of this run (mem_ptr, the check of pc in execute_program).
THEOREM MemorySafety == Spec => []AccessesInBounds
<1>1. VInv => AccessesInBounds
  BY DEF VInv, MapOK, MachineOK, AccessOK, InBounds, AccessesInBounds
<1> QED BY <1>1, AlwaysVInv, PTL

\* GetSrcDst never returns what an earlier run left on the stack, where the program
\* leaves the stack pointer as it found it.
THEOREM ResultsAreOwn == Spec => []NoStaleResult
<1>1. VInv => NoStaleResult
  BY DEF VInv
<1> QED BY <1>1, AlwaysVInv, PTL

HIDE RoomAssumption
HIDE SizesAssumption

-----------------------------------------------------------------------------
(* Quotients and remainders *)

\* What \div and % are, also of a negative number.
LEMMA DivMod ==
    ASSUME NEW m \in Nat \ {0}, NEW a \in Int
    PROVE  /\ a \div m \in Int /\ a % m \in 0..(m - 1)
           /\ a = m * (a \div m) + (a % m)
  OBVIOUS

\* They are the only such numbers.
LEMMA DivModOf ==
    ASSUME NEW m \in Nat \ {0}, NEW a \in Int, NEW q \in Int, NEW r \in 0..(m - 1), a = m * q + r
    PROVE  a \div m = q /\ a % m = r
  OBVIOUS

\* Numbers that differ by a multiple of m have one remainder.
LEMMA SameRemainder ==
    ASSUME NEW m \in Nat \ {0}, NEW a \in Int, NEW b \in Int, NEW k \in Int, a = b + m * k
    PROVE  a % m = b % m
<1>1. PICK q, r : q = b \div m /\ r = b % m
  OBVIOUS
<1>2. q \in Int /\ r \in 0..(m - 1) /\ b = m * q + r
  BY <1>1, DivMod
<1>3. q + k \in Int /\ a = m * (q + k) + r
  BY <1>2
<1>4. a % m = r
  BY <1>2, <1>3, DivModOf
<1> QED BY <1>1, <1>4

\* The sizes of words and half words.
LEMMA Sizes ==
    /\ HalfMod \in Nat \ {0} /\ HalfMod > 1 /\ WordMod \in Nat \ {0} /\ WordMod = HalfMod * HalfMod
    /\ \E h \in Nat : h > 0 /\ HalfMod = 2 * h /\ HalfMod \div 2 = h
    /\ \E w \in Nat : w > 0 /\ WordMod = 2 * w /\ WordMod \div 2 = w
    /\ HalfMod \div 2 <= WordMod \div 2 /\ HalfMod < WordMod
<1> USE HalfAssumption DEF WordMod
<1>1. PICK h : h = HalfMod \div 2
  OBVIOUS
<1>2. h \in Int /\ HalfMod = 2 * h
  BY <1>1, DivMod
<1>3. h > 0
  BY <1>2
<1>4. WordMod \in Int /\ WordMod = 2 * (h * HalfMod) /\ h * HalfMod \in Int
  BY <1>2
<1>5. h * HalfMod > 0 /\ h <= h * HalfMod
  BY <1>2, <1>3
<1>6. WordMod \div 2 = h * HalfMod
  BY <1>4
<1> QED BY <1>1, <1>2, <1>3, <1>4, <1>5, <1>6

\* A number of m values read as a signed one: what it stands for, and how it is
\* read again after a cast back.
Even(m) == m \in Nat /\ \E h \in Nat : h > 0 /\ m = 2 * h /\ m \div 2 = h
InRange(n, m) == n \in Int /\ -(m \div 2) <= n /\ n < m \div 2

LEMMA SignedIs ==
    ASSUME NEW m, Even(m), NEW a \in 0..(m - 1)
    PROVE  /\ InRange(Signed(a, m), m)
           /\ Signed(a, m) = a \/ Signed(a, m) = a - m
           /\ Signed(a, m) = 0 <=> a = 0
           /\ Signed(a, m) % m = a
<1>1. PICK h \in Nat : h > 0 /\ m = 2 * h /\ m \div 2 = h
  BY DEF Even
<1>2. CASE a < h
  BY <1>1, <1>2, DivModOf DEF Signed, InRange
<1>3. CASE ~(a < h)
  <2>1. Signed(a, m) = a - m
    BY <1>1, <1>3 DEF Signed
  <2>2. (a - m) % m = a
    <3>1. a - m = m * (-1) + a /\ a - m \in Int /\ m \in Nat \ {0}
      BY <1>1
    <3> QED BY <3>1, DivModOf
  <2> QED BY <1>1, <1>3, <2>1, <2>2 DEF InRange
<1> QED BY <1>2, <1>3

LEMMA SignedBack ==
    ASSUME NEW m, Even(m), NEW n, InRange(n, m)
    PROVE  n % m \in 0..(m - 1) /\ Signed(n % m, m) = n
<1>1. PICK h \in Nat : h > 0 /\ m = 2 * h /\ m \div 2 = h
  BY DEF Even
<1>2. n \in Int /\ -h <= n /\ n < h
  BY <1>1 DEF InRange
<1>3. n % m = IF n < 0 THEN n + m ELSE n
  <2>1. CASE n < 0
    <3>1. n = m * (-1) + (n + m) /\ n + m \in 0..(m - 1)
      BY <1>1, <1>2, <2>1
    <3> QED BY <1>1, <1>2, <2>1, <3>1, DivModOf
  <2>2. CASE ~(n < 0)
    BY <1>1, <1>2, <2>2
  <2> QED BY <2>1, <2>2
<1> QED BY <1>1, <1>2, <1>3 DEF Signed

LEMMA EvenSizes == Even(HalfMod) /\ Even(WordMod)
  BY Sizes DEF Even

-----------------------------------------------------------------------------
(* Multiplication *)

\* The product of two numbers below m is at most (m - 1)^2.
LEMMA ProductBound ==
    ASSUME NEW m \in Nat \ {0}, NEW x \in 0..(m - 1), NEW y \in 0..(m - 1)
    PROVE  x * y \in Nat /\ x * y <= m * m - 2 * m + 1
<1>1. x * y <= (m - 1) * (m - 1)
  <2>1. x * y <= (m - 1) * y
    OBVIOUS
  <2>2. (m - 1) * y <= (m - 1) * (m - 1)
    OBVIOUS
  <2> QED BY <2>1, <2>2
<1>2. (m - 1) * (m - 1) = m * m - 2 * m + 1
  OBVIOUS
<1> QED BY <1>1, <1>2

\* A quotient of a natural number is one.
LEMMA NatDivMod ==
    ASSUME NEW m \in Nat \ {0}, NEW a \in Nat
    PROVE  a \div m \in Nat /\ a % m \in 0..(m - 1) /\ a = m * (a \div m) + (a % m)
<1>1. PICK q, r : q = a \div m /\ r = a % m
  OBVIOUS
<1>2. q \in Int /\ r \in 0..(m - 1) /\ a = m * q + r
  BY <1>1, DivMod
<1>3. ASSUME q < 0 PROVE FALSE
  <2>1. m * q <= m * (-1)
    BY <1>2, <1>3
  <2> QED BY <1>2, <2>1
<1> QED BY <1>1, <1>2, <1>3

\* A multiple of m that is below the one of k is that of a smaller number.
LEMMA SmallerMultiple ==
    ASSUME NEW m \in Nat \ {0}, NEW q \in Int, NEW k \in Int, m * q < m * k
    PROVE  q < k
<1>1. ASSUME q >= k PROVE FALSE
  <2>1. m * q >= m * k
    BY <1>1
  <2> QED BY <2>1
<1> QED BY <1>1

\* Two digits of m values make a number of m * m values.
LEMMA TwoDigits ==
    ASSUME NEW m \in Nat \ {0}, NEW x \in 0..(m - 1), NEW y \in 0..(m - 1)
    PROVE  x * m \in 0..(m * m - 1) /\ x * m + y \in 0..(m * m - 1)
<1>1. x * m \in Nat
  OBVIOUS
<1>2. x * m <= (m - 1) * m
  OBVIOUS
<1>3. (m - 1) * m = m * m - m
  OBVIOUS
<1> QED BY <1>1, <1>2, <1>3

\* Multiplication in two digits, with the carries d.
LEMMA Carried ==
    ASSUME NEW H \in Int, NEW ah \in Int, NEW al \in Int, NEW bh \in Int, NEW bl \in Int,
           NEW d0 \in Int, NEW d1 \in Int, NEW d2 \in Int, NEW dm \in Int,
           NEW m0 \in Int, NEW m1 \in Int, NEW m2 \in Int, NEW mm \in Int
    PROVE  /\ al * bl = H * d0 + m0 /\ al * bh = H * d1 + m1 /\ ah * bl = H * d2 + m2
           /\ d0 + m1 + m2 = H * dm + mm
           => (ah * H + al) * (bh * H + bl) = (H * H) * (ah * bh + d1 + d2 + dm) + (mm * H + m0)
<1> SUFFICES ASSUME al * bl = H * d0 + m0, al * bh = H * d1 + m1, ah * bl = H * d2 + m2,
                    d0 + m1 + m2 = H * dm + mm
             PROVE  (ah * H + al) * (bh * H + bl)
                      = (H * H) * (ah * bh + d1 + d2 + dm) + (mm * H + m0)
  OBVIOUS
<1>1. (ah * H + al) * (bh * H + bl)
        = (H * H) * (ah * bh) + (al * bh) * H + (ah * bl) * H + al * bl
  OBVIOUS
<1>2. (al * bh) * H = (H * H) * d1 + m1 * H /\ (ah * bl) * H = (H * H) * d2 + m2 * H
  OBVIOUS
<1>3. d0 * H + m1 * H + m2 * H = (H * H) * dm + mm * H
  <2>1. (d0 + m1 + m2) * H = (H * dm + mm) * H
    OBVIOUS
  <2> QED BY <2>1
<1>4. (H * H) * (ah * bh + d1 + d2 + dm)
        = (H * H) * (ah * bh) + (H * H) * d1 + (H * H) * d2 + (H * H) * dm
  OBVIOUS
<1> QED BY <1>1, <1>2, <1>3, <1>4

\* The middle column is small enough for a word.
LEMMA MiddleFits ==
    ASSUME NEW H \in Nat, H > 1, NEW mid \in Nat, mid < 3 * H - 3
    PROVE  mid < H * H
<1>1. CASE H = 2
  BY <1>1
<1>2. CASE H >= 3
  <2>1. H * H >= 3 * H
    BY <1>2
  <2> QED BY <2>1
<1> QED BY <1>1, <1>2

\* mulu64_128 loses no carry: it is the product.
LEMMA MulExact ==
    ASSUME NEW a \in Word, NEW b \in Word, NEW p, p = mulu64_128(a, b)
    PROVE  p.hi \in Word /\ p.lo \in Word /\ a * b = WordMod * p.hi + p.lo
<1>1. PICK H, W : H = HalfMod /\ W = WordMod
  OBVIOUS
<1>2. H \in Nat \ {0} /\ H > 1 /\ W \in Nat \ {0} /\ W = H * H
  BY <1>1, Sizes
<1>3. PICK al, ah, bl, bh : al = a % H /\ ah = a \div H /\ bl = b % H /\ bh = b \div H
  OBVIOUS
<1>4. /\ al \in 0..(H - 1) /\ ah \in Nat /\ a = H * ah + al
      /\ bl \in 0..(H - 1) /\ bh \in Nat /\ b = H * bh + bl
  <2>1. a \in Nat /\ b \in Nat
    BY <1>2, <1>1 DEF Word
  <2> QED BY <1>2, <1>3, <2>1, NatDivMod
<1>5. ah \in 0..(H - 1) /\ bh \in 0..(H - 1)
  <2>1. a < H * H /\ b < H * H
    BY <1>1, <1>2 DEF Word
  <2>2. H * ah < H * H /\ H * bh < H * H
    BY <1>2, <1>4, <2>1
  <2>3. ah < H /\ bh < H
    BY <1>2, <1>4, <2>2, SmallerMultiple
  <2> QED BY <1>2, <1>4, <2>3
<1>6. PICK p0, p1, p2, p3 : p0 = al * bl /\ p1 = al * bh /\ p2 = ah * bl /\ p3 = ah * bh
  OBVIOUS
<1>7. /\ p0 \in Nat /\ p1 \in Nat /\ p2 \in Nat /\ p3 \in Nat
      /\ p0 <= H * H - 2 * H + 1
  BY <1>2, <1>4, <1>5, <1>6, ProductBound
<1>8. PICK d0, d1, d2, m0, m1, m2 : /\ d0 = p0 \div H /\ d1 = p1 \div H /\ d2 = p2 \div H
                                    /\ m0 = p0 % H /\ m1 = p1 % H /\ m2 = p2 % H
  OBVIOUS
<1>9. /\ d0 \in Nat /\ d1 \in Nat /\ d2 \in Nat
      /\ m0 \in 0..(H - 1) /\ m1 \in 0..(H - 1) /\ m2 \in 0..(H - 1)
      /\ p0 = H * d0 + m0 /\ p1 = H * d1 + m1 /\ p2 = H * d2 + m2
  BY <1>2, <1>7, <1>8, NatDivMod
<1>10. PICK mid : mid = d0 + m1 + m2
  OBVIOUS
<1>11. mid \in Nat /\ mid < W
  <2>1. H * d0 < H * (H - 1)
    <3>1. H * (H - 1) = H * H - H
      BY <1>2
    <3> QED BY <1>2, <1>7, <1>9, <3>1
  <2>2. d0 < H - 1
    BY <1>2, <1>9, <2>1, SmallerMultiple
  <2>3. mid \in Nat /\ mid < 3 * H - 3
    BY <1>2, <1>9, <1>10, <2>2
  <2> QED BY <1>2, <2>3, MiddleFits
<1>12. PICK dm, mm : dm = mid \div H /\ mm = mid % H
  OBVIOUS
<1>13. dm \in Nat /\ mm \in 0..(H - 1) /\ mid = H * dm + mm
  BY <1>2, <1>11, <1>12, NatDivMod
<1>14. mm * H \in 0..(W - 1) /\ mm * H + m0 \in 0..(W - 1)
  BY <1>2, <1>9, <1>13, TwoDigits
<1>15. (mid * H) % W = mm * H
  <2>1. mid * H = W * dm + mm * H /\ mid * H \in Int
    BY <1>2, <1>13
  <2>2. PICK x, y : x = mid * H /\ y = mm * H
    OBVIOUS
  <2>3. x \in Int /\ dm \in Int /\ y \in 0..(W - 1) /\ x = W * dm + y
    BY <1>13, <1>14, <2>1, <2>2
  <2>4. x % W = y
    BY <1>2, <2>3, DivModOf
  <2> QED BY <2>2, <2>4
<1>16. PICK hi : hi = p3 + d1 + d2 + dm
  OBVIOUS
<1>17. a * b = W * hi + (mm * H + m0)
  <2>1. (ah * H + al) * (bh * H + bl) = (H * H) * (ah * bh + d1 + d2 + dm) + (mm * H + m0)
    BY <1>2, <1>4, <1>6, <1>9, <1>10, <1>13, Carried
  <2>2. a = ah * H + al /\ b = bh * H + bl
    BY <1>2, <1>4
  <2> QED BY <1>2, <1>6, <1>16, <2>1, <2>2
<1>18. hi \in Nat /\ hi < W
  <2>1. hi \in Nat
    BY <1>7, <1>9, <1>13, <1>16
  <2>2. a * b \in Nat /\ a * b <= W * W - 2 * W + 1
    <3>1. a \in 0..(W - 1) /\ b \in 0..(W - 1)
      BY <1>1 DEF Word
    <3> QED BY <1>2, <3>1, ProductBound
  <2>3. W * hi < W * W
    <3>1. PICK x, y, z, l : x = W * hi /\ y = W * W /\ z = a * b /\ l = mm * H + m0
      OBVIOUS
    <3>2. x \in Int /\ y \in Int /\ l \in Nat
      BY <1>2, <1>14, <2>1, <3>1
    <3>3. z = x + l /\ z \in Nat /\ z <= y - 2 * W + 1
      BY <1>17, <2>2, <3>1
    <3>4. x < y
      BY <1>2, <3>2, <3>3
    <3> QED BY <3>1, <3>4
  <2> QED BY <1>2, <2>1, <2>3, SmallerMultiple
<1>19. p.hi = hi /\ p.lo = m0 + mm * H
  <2>1. mid % W = mid /\ hi % W = hi
    BY <1>2, <1>11, <1>18
  <2>2. p = [hi |-> hi % W, lo |-> m0 + ((mid * H) % W)]
    BY <1>1, <1>3, <1>6, <1>8, <1>10, <1>12, <1>16, <2>1 DEF mulu64_128
  <2>3. PICK x : x = (mid * H) % W
    OBVIOUS
  <2>4. p.hi = hi % W /\ p.lo = m0 + x
    BY <2>2, <2>3
  <2>5. x = mm * H
    BY <1>15, <2>3
  <2>6. p.lo = m0 + mm * H
    BY <2>4, <2>5
  <2> QED BY <2>1, <2>4, <2>6
<1>20. p.lo = mm * H + m0
  BY <1>9, <1>14, <1>19
<1>21. p.hi \in Word
  BY <1>1, <1>2, <1>18, <1>19 DEF Word
<1>22. p.lo \in Word
  BY <1>1, <1>14, <1>20 DEF Word
<1> QED BY <1>1, <1>17, <1>19, <1>20, <1>21, <1>22

\* High(x) is the high word of a product x.
High(x) == (x \div WordMod) % WordMod

\* Its high word, and that of its negation.
LEMMA HighWord ==
    ASSUME NEW x \in Int, NEW p, p.hi \in Word, p.lo \in Word, x = WordMod * p.hi + p.lo
    PROVE  High(x) = p.hi /\ High(-x) = Negated(p).hi
<1>1. PICK W, h, l : W = WordMod /\ h = p.hi /\ l = p.lo
  OBVIOUS
<1>2. W \in Nat \ {0} /\ h \in 0..(W - 1) /\ l \in 0..(W - 1) /\ x = W * h + l
  BY <1>1, Sizes DEF Word
<1>3. High(x) = h
  <2>1. h \in Int
    BY <1>2
  <2>2. x \div W = h
    BY <1>2, <2>1, DivModOf
  <2>3. h % W = h
    BY <1>2
  <2> QED BY <1>1, <2>2, <2>3 DEF High
<1>4. Negated(p).hi = IF (W - l) % W = 0 THEN (W - h) % W ELSE W - 1 - h
  <2>1. W - 1 - h + 1 = W - h
    BY <1>2
  <2> QED BY <1>1, <2>1 DEF Negated
<1>5. CASE l = 0
  <2>1. (W - l) % W = 0
    <3>1. W - l = W * 1 + 0
      BY <1>2, <1>5
    <3> QED BY <1>2, <3>1, DivModOf
  <2>2. -x = W * (-h) + 0 /\ -x \in Int /\ -h \in Int
    BY <1>2, <1>5
  <2>3. (-x) \div W = -h
    BY <1>2, <2>2, DivModOf
  <2>4. (-h) % W = (W - h) % W
    <3>1. PICK u, v, k : u = -h /\ v = W - h /\ k = -1
      OBVIOUS
    <3>2. u = v + W * k /\ u \in Int /\ v \in Int /\ k \in Int
      BY <1>2, <3>1
    <3>3. u % W = v % W
      BY <1>2, <3>2, SameRemainder
    <3> QED BY <3>1, <3>3
  <2> QED BY <1>1, <1>3, <1>4, <2>1, <2>3, <2>4 DEF High
<1>6. CASE l # 0
  <2>1. W - l \in 1..(W - 1) /\ (W - l) % W = W - l
    BY <1>2, <1>6
  <2>2. -x = W * (-h - 1) + (W - l) /\ -x \in Int /\ -h - 1 \in Int
    BY <1>2, <1>6
  <2>3. (-x) \div W = -h - 1
    BY <1>2, <2>1, <2>2, DivModOf
  <2>4. (-h - 1) % W = W - 1 - h
    <3>1. PICK u, v, k : u = -h - 1 /\ v = W - 1 - h /\ k = -1
      OBVIOUS
    <3>2. u = W * k + v /\ u \in Int /\ v \in 0..(W - 1) /\ k \in Int
      BY <1>2, <3>1
    <3>3. u % W = v
      BY <1>2, <3>2, DivModOf
    <3> QED BY <3>1, <3>3
  <2> QED BY <1>1, <1>3, <1>4, <2>1, <2>3, <2>4 DEF High
<1> QED BY <1>5, <1>6

\* A magnitude is a word; with its sign it is the number.
LEMMA MagnitudeIs ==
    ASSUME NEW a \in Word
    PROVE  /\ Magnitude(a) \in Word /\ Signed(a, WordMod) \in Int
           /\ Signed(a, WordMod) = IF Signed(a, WordMod) < 0 THEN -Magnitude(a) ELSE Magnitude(a)
<1>1. PICK s : s = Signed(a, WordMod)
  OBVIOUS
<1>2. InRange(s, WordMod)
  BY <1>1, SignedIs, EvenSizes DEF Word
<1>3. PICK w \in Nat : w > 0 /\ WordMod = 2 * w /\ WordMod \div 2 = w
  BY Sizes
<1>4. s \in Int /\ -w <= s /\ s < w
  BY <1>2, <1>3 DEF InRange
<1> QED BY <1>1, <1>3, <1>4 DEF Magnitude, Abs, Word

\* The high words of a signed, a mixed and an unsigned product.
LEMMA HighProducts ==
    ASSUME NEW a \in Word, NEW b \in Word
    PROVE  /\ mulhu(a, b) = High(a * b)
           /\ mulhsu(a, b) = High(Signed(a, WordMod) * b)
           /\ mulh(a, b) = High(Signed(a, WordMod) * Signed(b, WordMod))
<1>1. PICK x, y, s, t : /\ x = Magnitude(a) /\ y = Magnitude(b)
                        /\ s = Signed(a, WordMod) /\ t = Signed(b, WordMod)
  OBVIOUS
<1>2. /\ x \in Word /\ s \in Int /\ s = IF s < 0 THEN -x ELSE x
      /\ y \in Word /\ t \in Int /\ t = IF t < 0 THEN -y ELSE y
  BY <1>1, MagnitudeIs
<1>3. ASSUME NEW c \in Word, NEW d \in Word
      PROVE  /\ c * d \in Int /\ High(c * d) = mulu64_128(c, d).hi
             /\ High(-(c * d)) = Negated(mulu64_128(c, d)).hi
  <2>1. PICK p, z : p = mulu64_128(c, d) /\ z = c * d
    OBVIOUS
  <2>2. p.hi \in Word /\ p.lo \in Word /\ z = WordMod * p.hi + p.lo
    BY <2>1, MulExact
  <2>3. z \in Int
    BY <2>1, Sizes DEF Word
  <2> QED BY <2>1, <2>2, <2>3, HighWord
<1>4. x \in Int /\ y \in Int /\ b \in Int
  BY <1>2, Sizes DEF Word
<1>5. mulhu(a, b) = High(a * b)
  BY <1>3 DEF mulhu
<1>6. mulhsu(a, b) = High(s * b)
  <2>1. CASE s < 0
    <3>1. s * b = -(x * b)
      BY <1>2, <1>4, <2>1
    <3> QED BY <1>1, <1>2, <1>3, <2>1, <3>1 DEF mulhsu
  <2>2. CASE ~(s < 0)
    BY <1>1, <1>2, <1>3, <2>2 DEF mulhsu
  <2> QED BY <2>1, <2>2
<1>7. mulh(a, b) = High(s * t)
  <2>1. CASE (s < 0) # (t < 0)
    <3>1. s * t = -(x * y)
      <4>1. CASE s < 0 /\ ~(t < 0)
        BY <1>2, <1>4, <4>1
      <4>2. CASE t < 0 /\ ~(s < 0)
        BY <1>2, <1>4, <4>2
      <4> QED BY <2>1, <4>1, <4>2
    <3> QED BY <1>1, <1>2, <1>3, <2>1, <3>1 DEF mulh
  <2>2. CASE ~((s < 0) # (t < 0))
    <3>1. s * t = x * y
      <4>1. CASE s < 0 /\ t < 0
        BY <1>2, <1>4, <4>1
      <4>2. CASE ~(t < 0) /\ ~(s < 0)
        BY <1>2, <1>4, <4>2
      <4> QED BY <2>2, <4>1, <4>2
    <3> QED BY <1>1, <1>2, <1>3, <2>2, <3>1 DEF mulh
  <2> QED BY <2>1, <2>2
<1> QED BY <1>1, <1>5, <1>6, <1>7

\* The low part of a product is the same for signed numbers.
LEMMA LowProduct ==
    ASSUME NEW m, Even(m), NEW a \in 0..(m - 1), NEW b \in 0..(m - 1)
    PROVE  (a * b) % m = (Signed(a, m) * Signed(b, m)) % m
<1>1. PICK s, t : s = Signed(a, m) /\ t = Signed(b, m)
  OBVIOUS
<1>2. m \in Nat \ {0} /\ a \in Int /\ b \in Int /\ s \in Int /\ t \in Int
  BY <1>1, SignedIs DEF Even, InRange
<1>3. PICK j, k : /\ j \in {0, 1} /\ a = s + m * j
                  /\ k \in {0, 1} /\ b = t + m * k
  <2>1. (\E j \in {0, 1} : a = s + m * j) /\ (\E k \in {0, 1} : b = t + m * k)
    BY <1>1, <1>2, SignedIs
  <2> QED BY <2>1
<1>4. PICK x, y, z : x = a * b /\ y = s * t /\ z = j * t + k * s + m * (j * k)
  OBVIOUS
<1>5. x \in Int /\ y \in Int /\ z \in Int /\ j \in Int /\ k \in Int
  BY <1>2, <1>3, <1>4
<1>6. x = y + m * z
  <2>1. (s + m * j) * (t + m * k) = s * t + m * (j * t + k * s + m * (j * k))
    BY <1>2, <1>5
  <2> QED BY <1>3, <1>4, <2>1
<1>7. x % m = y % m
  BY <1>2, <1>5, <1>6, SameRemainder
<1> QED BY <1>1, <1>4, <1>7

-----------------------------------------------------------------------------
(* Division *)

\* The / and % of the language divide towards zero.
LEMMA TowardsZero ==
    ASSUME NEW n \in Int, NEW d \in Int, d # 0, NEW q, q = Quotient(n, d), NEW r, r = Remainder(n, d)
    PROVE  /\ q \in Int /\ r \in Int /\ DivRem(n, d, q, r) /\ Abs(r) < Abs(d)
           /\ Abs(q) \in Nat /\ Abs(q) <= Abs(n)
           /\ Abs(q) = Abs(n) /\ n # 0 => d = 1 \/ d = -1
           /\ n < 0 /\ d = 1 => q <= 0
<1>1. PICK x, y, Q, R : x = Abs(n) /\ y = Abs(d) /\ Q = x \div y /\ R = x % y
  OBVIOUS
<1>2. x \in Nat /\ y \in Nat \ {0} /\ n = (IF n < 0 THEN -x ELSE x) /\ d = (IF d < 0 THEN -y ELSE y)
  BY <1>1 DEF Abs
<1>3. Q \in Nat /\ R \in 0..(y - 1) /\ x = y * Q + R
  BY <1>1, <1>2, NatDivMod
<1>4. q = (IF (n < 0) = (d < 0) THEN Q ELSE -Q) /\ r = (IF n < 0 THEN -R ELSE R)
  BY <1>1 DEF Quotient, Remainder
<1>5. q \in Int /\ r \in Int /\ Abs(q) = Q /\ Abs(r) = R
  BY <1>3, <1>4 DEF Abs
<1>6. Q <= x /\ (Q = x /\ x # 0 => y = 1)
  <2>1. Q <= y * Q
    BY <1>2, <1>3
  <2>2. ASSUME Q = x, x # 0, y # 1 PROVE FALSE
    <3>1. y * Q >= 2 * Q
      BY <1>2, <1>3, <2>2
    <3> QED BY <1>2, <1>3, <2>2, <3>1
  <2> QED BY <1>2, <1>3, <2>1, <2>2
<1>7. n = q * d + r
  <2>1. CASE n < 0 /\ d < 0
    <3>1. q = Q /\ d = -y /\ r = -R /\ n = -x
      BY <1>2, <1>4, <2>1
    <3>2. Q * (-y) + (-R) = -(y * Q + R)
      BY <1>2, <1>3
    <3> QED BY <1>3, <3>1, <3>2
  <2>2. CASE n < 0 /\ ~(d < 0)
    <3>1. q = -Q /\ d = y /\ r = -R /\ n = -x
      BY <1>2, <1>4, <2>2
    <3>2. (-Q) * y + (-R) = -(y * Q + R)
      BY <1>2, <1>3
    <3> QED BY <1>3, <3>1, <3>2
  <2>3. CASE ~(n < 0) /\ d < 0
    <3>1. q = -Q /\ d = -y /\ r = R /\ n = x
      BY <1>2, <1>4, <2>3
    <3>2. (-Q) * (-y) + R = y * Q + R
      BY <1>2, <1>3
    <3> QED BY <1>3, <3>1, <3>2
  <2>4. CASE ~(n < 0) /\ ~(d < 0)
    <3>1. q = Q /\ d = y /\ r = R /\ n = x
      BY <1>2, <1>4, <2>4
    <3>2. Q * y + R = y * Q + R
      BY <1>2, <1>3
    <3> QED BY <1>3, <3>1, <3>2
  <2> QED BY <2>1, <2>2, <2>3, <2>4
<1>8. r # 0 => (r < 0) = (n < 0)
  BY <1>3, <1>4
<1>9. Abs(r) < Abs(d) /\ Abs(q) \in Nat /\ Abs(q) <= Abs(n)
  <2>1. R < y /\ Q <= x /\ Q \in Nat
    BY <1>2, <1>3, <1>6
  <2> QED BY <1>1, <1>5, <2>1
<1>10. Abs(q) = Abs(n) /\ n # 0 => d = 1 \/ d = -1
  BY <1>1, <1>2, <1>5, <1>6
<1>11. n < 0 /\ d = 1 => q <= 0
  BY <1>3, <1>4
<1>12. DivRem(n, d, q, r)
  BY <1>7, <1>8, <1>9 DEF DivRem
<1> QED BY <1>5, <1>9, <1>10, <1>11, <1>12

\* A quotient that does not overflow fits, and so does the remainder.
LEMMA QuotientFits ==
    ASSUME NEW m, Even(m), NEW n, InRange(n, m), NEW d, InRange(d, m), d # 0,
           ~(n = -(m \div 2) /\ d = -1), NEW q, q = Quotient(n, d), NEW r, r = Remainder(n, d)
    PROVE  DivRem(n, d, q, r) /\ InRange(q, m) /\ InRange(r, m)
<1>1. PICK h \in Nat : h > 0 /\ m = 2 * h /\ m \div 2 = h
  BY DEF Even
<1>2. n \in Int /\ -h <= n /\ n < h /\ d \in Int /\ -h <= d /\ d < h
  BY <1>1 DEF InRange
<1>3. /\ q \in Int /\ r \in Int /\ DivRem(n, d, q, r) /\ Abs(r) < Abs(d)
      /\ Abs(q) \in Nat /\ Abs(q) <= Abs(n)
      /\ Abs(q) = Abs(n) /\ n # 0 => d = 1 \/ d = -1
      /\ n < 0 /\ d = 1 => q <= 0
  BY <1>2, TowardsZero
<1>4. DivRem(n, d, q, r)
  BY <1>3
<1>5. InRange(r, m)
  BY <1>1, <1>2, <1>3 DEF InRange, Abs
<1>6. InRange(q, m)
  <2>1. Abs(q) <= h
    BY <1>2, <1>3 DEF Abs
  <2>2. q >= -h /\ q <= h
    BY <1>3, <2>1 DEF Abs
  <2>3. ASSUME q = h PROVE FALSE
    <3>1. Abs(q) = h /\ Abs(n) = h /\ n = -h
      BY <1>2, <1>3, <2>3 DEF Abs
    <3>2. d = 1 \/ d = -1
      BY <1>2, <1>3, <3>1
    <3>3. d = 1
      BY <1>1, <3>1, <3>2
    <3>4. q <= 0
      BY <1>2, <1>3, <3>1, <3>3
    <3> QED BY <1>1, <2>3, <3>4
  <2> QED BY <1>1, <1>3, <2>2, <2>3 DEF InRange
<1> QED BY <1>4, <1>5, <1>6

\* DIV and REM divide, by 0 too, but for the quotient that does not fit.
Divided(a, b, c, e, m) ==
    /\ c \in 0..(m - 1) /\ e \in 0..(m - 1)
    /\ Overflows(a, b, m) => c = a /\ e = 0
    /\ ~Overflows(a, b, m) => DivRem(Signed(a, m), Signed(b, m), Signed(c, m), Signed(e, m))

LEMMA DivisionIs ==
    ASSUME NEW m, Even(m), NEW a \in 0..(m - 1), NEW b \in 0..(m - 1), NEW c, c = DIV(a, b, m),
           NEW e, e = REM(a, b, m)
    PROVE  Divided(a, b, c, e, m)
<1>1. PICK h \in Nat : h > 0 /\ m = 2 * h /\ m \div 2 = h
  BY DEF Even
<1>2. PICK n, d : n = Signed(a, m) /\ d = Signed(b, m)
  OBVIOUS
<1>3. InRange(n, m) /\ InRange(d, m) /\ (d = 0 <=> b = 0)
  BY <1>2, SignedIs
<1>4. CASE b = 0
  <2>1. d = 0 /\ ~Overflows(a, b, m)
    BY <1>2, <1>3, <1>4 DEF Overflows
  <2>2. c = m - 1 /\ e = a
    BY <1>4, <2>1 DEF DIV, REM
  <2>3. Signed(c, m) = -1
    BY <1>1, <2>2 DEF Signed
  <2>4. c \in 0..(m - 1)
    BY <1>1, <2>2
  <2> QED BY <1>2, <2>1, <2>2, <2>3, <2>4 DEF DivRem, Divided
<1>5. CASE b # 0 /\ Overflows(a, b, m)
  <2>1. c = m \div 2 /\ e = 0
    BY <1>5 DEF DIV, REM
  <2>2. a = h
    BY <1>1, <1>5 DEF Overflows, Signed
  <2> QED BY <1>1, <1>5, <2>1, <2>2 DEF Divided
<1>6. CASE b # 0 /\ ~Overflows(a, b, m)
  <2>1. PICK q, r : q = Quotient(n, d) /\ r = Remainder(n, d)
    OBVIOUS
  <2>2. c = q % m /\ e = r % m
    BY <1>2, <1>6, <2>1 DEF DIV, REM
  <2>3. DivRem(n, d, q, r) /\ InRange(q, m) /\ InRange(r, m)
    <3>1. d # 0 /\ ~(n = -(m \div 2) /\ d = -1)
      BY <1>2, <1>3, <1>6 DEF Overflows
    <3> QED BY <1>3, <2>1, <3>1, QuotientFits
  <2>4. c \in 0..(m - 1) /\ Signed(c, m) = q
    BY <2>2, <2>3, SignedBack
  <2>5. e \in 0..(m - 1) /\ Signed(e, m) = r
    BY <2>2, <2>3, SignedBack
  <2> QED BY <1>2, <1>6, <2>3, <2>4, <2>5 DEF Divided
<1> QED BY <1>4, <1>5, <1>6

LEMMA UnsignedDivisionIs ==
    ASSUME NEW m \in Nat \ {0}, NEW a \in 0..(m - 1), NEW b \in 0..(m - 1),
           NEW c, c = DIVU(a, b, m), NEW e, e = REMU(a, b, m)
    PROVE  c \in 0..(m - 1) /\ e \in 0..(m - 1) /\ DivRemU(a, b, c, e, m)
<1>1. CASE b = 0
  BY <1>1 DEF DIVU, REMU, DivRemU
<1>2. CASE b # 0
  <2>1. c = a \div b /\ e = a % b
    BY <1>2 DEF DIVU, REMU
  <2>2. b \in Nat \ {0} /\ a \in Nat
    BY <1>2
  <2>3. c \in Nat /\ e \in 0..(b - 1) /\ a = b * c + e
    BY <2>1, <2>2, NatDivMod
  <2>4. c <= b * c /\ b * c = c * b
    BY <2>2, <2>3
  <2>5. c \in 0..(m - 1) /\ e \in 0..(m - 1)
    BY <2>2, <2>3, <2>4
  <2> QED BY <1>2, <2>3, <2>4, <2>5 DEF DivRemU
<1> QED BY <1>1, <1>2

\* A half word extended to a word stands for the same number, and keeps its low half.
LEMMA ExtendedIs ==
    ASSUME NEW x \in 0..(HalfMod - 1)
    PROVE  /\ SignExtended(x) \in Word /\ Signed(SignExtended(x), WordMod) = Signed(x, HalfMod)
           /\ SignExtended(x) % HalfMod = x
<1>1. PICK H, W, s, y : /\ H = HalfMod /\ W = WordMod /\ s = Signed(x, H) /\ y = s % W
  OBVIOUS
<1>2. H \in Nat \ {0} /\ W \in Nat \ {0} /\ W = H * H /\ H \div 2 <= W \div 2
  BY <1>1, Sizes
<1>3. InRange(s, H) /\ s % H = x /\ s \in Int
  BY <1>1, SignedIs, EvenSizes DEF InRange
<1>4. InRange(s, W)
  <2>1. H \div 2 \in Int /\ W \div 2 \in Int
    BY <1>2
  <2> QED BY <1>2, <1>3, <2>1 DEF InRange
<1>5. y \in 0..(W - 1) /\ Signed(y, W) = s
  BY <1>1, <1>4, SignedBack, EvenSizes
<1>6. y % H = s % H
  <2>1. PICK k : k = s \div W
    OBVIOUS
  <2>2. k \in Int /\ s = W * k + y
    BY <1>1, <1>2, <1>3, <2>1, DivMod
  <2>3. PICK j : j = H * k
    OBVIOUS
  <2>4. j \in Int /\ s = y + H * j /\ y \in Int
    BY <1>2, <1>5, <2>2, <2>3
  <2> QED BY <1>2, <1>3, <2>4, SameRemainder
<1> QED BY <1>1, <1>3, <1>5, <1>6 DEF SignExtended, Word

-----------------------------------------------------------------------------
(* The instructions *)

\* The operands' halves.
LEMMA LowIs ==
    ASSUME NEW a \in Word
    PROVE  Low(a) \in 0..(HalfMod - 1) /\ a \in 0..(WordMod - 1)
<1>1. a \in Int /\ HalfMod \in Nat \ {0}
  BY Sizes DEF Word
<1> QED BY <1>1, DivMod DEF Low, Word

\* Every instruction has the result that the instruction set demands.
LEMMA ResultsCorrect ==
    ASSUME NEW op \in Ops, NEW a \in Word, NEW b \in Word, NEW c \in Results(op, a, b),
           ~(op = "REMW" /\ Overflows(Low(a), Low(b), HalfMod))
    PROVE  Correct(op, a, b, c)
<1>1. PICK H, W, n, d : H = HalfMod /\ W = WordMod /\ n = Low(a) /\ d = Low(b)
  OBVIOUS
<1>2. /\ Even(H) /\ Even(W) /\ H \in Nat \ {0} /\ W \in Nat \ {0}
      /\ n \in 0..(H - 1) /\ d \in 0..(H - 1) /\ a \in 0..(W - 1) /\ b \in 0..(W - 1)
  BY <1>1, EvenSizes, Sizes, LowIs
<1>3. CASE op = "MUL"
  <2>1. c = (a * b) % W
    BY <1>1, <1>3 DEF Results
  <2>2. c = (Signed(a, W) * Signed(b, W)) % W
    BY <1>2, <2>1, LowProduct
  <2> QED BY <1>1, <1>3, <2>2 DEF Correct
<1>4. CASE op = "MULH"
  <2>1. c = High(Signed(a, WordMod) * Signed(b, WordMod))
    BY <1>4, HighProducts DEF Results
  <2> QED BY <1>4, <2>1 DEF Correct, High
<1>5. CASE op = "MULHSU"
  <2>1. c = High(Signed(a, WordMod) * b)
    BY <1>5, HighProducts DEF Results
  <2> QED BY <1>5, <2>1 DEF Correct, High
<1>6. CASE op = "MULHU"
  <2>1. c = High(a * b)
    BY <1>6, HighProducts DEF Results
  <2> QED BY <1>6, <2>1 DEF Correct, High
<1>7. PICK q, r : q = DIV(a, b, W) /\ r = REM(a, b, W)
  OBVIOUS
<1>8. /\ q \in 0..(W - 1) /\ r \in 0..(W - 1)
      /\ Overflows(a, b, W) => q = a /\ r = 0
      /\ ~Overflows(a, b, W) => DivRem(Signed(a, W), Signed(b, W), Signed(q, W), Signed(r, W))
  <2>1. Divided(a, b, q, r, W)
    BY <1>2, <1>7, DivisionIs
  <2> QED BY <2>1 DEF Divided
<1>9. CASE op = "DIV"
  <2>1. c = q
    BY <1>1, <1>7, <1>9 DEF Results
  <2> QED BY <1>1, <1>8, <1>9, <2>1 DEF Correct, Word
<1>10. CASE op = "REM"
  <2>1. c = r
    BY <1>1, <1>7, <1>10 DEF Results
  <2> QED BY <1>1, <1>8, <1>10, <2>1 DEF Correct, Word
<1>11. PICK uq, ur : uq = DIVU(a, b, W) /\ ur = REMU(a, b, W)
  OBVIOUS
<1>12. uq \in 0..(W - 1) /\ ur \in 0..(W - 1) /\ DivRemU(a, b, uq, ur, W)
  BY <1>2, <1>11, UnsignedDivisionIs
<1>13. CASE op = "DIVU"
  <2>1. c = uq
    BY <1>1, <1>11, <1>13 DEF Results
  <2> QED BY <1>1, <1>12, <1>13, <2>1 DEF Correct, Word
<1>14. CASE op = "REMU"
  <2>1. c = ur
    BY <1>1, <1>11, <1>14 DEF Results
  <2> QED BY <1>1, <1>12, <1>14, <2>1 DEF Correct, Word
<1>15. CASE op = "MULW"
  <2>1. c = SignExtended((n * d) % H)
    BY <1>1, <1>15 DEF Results
  <2>2. c = SignExtended((Signed(n, H) * Signed(d, H)) % H)
    BY <1>2, <2>1, LowProduct
  <2> QED BY <1>1, <1>15, <2>2 DEF Correct
<1>16. PICK hq, hr : hq = DIV(n, d, H) /\ hr = REM(n, d, H)
  OBVIOUS
<1>17. /\ hq \in 0..(H - 1) /\ hr \in 0..(H - 1)
       /\ Overflows(n, d, H) => hq = n /\ hr = 0
       /\ ~Overflows(n, d, H) => DivRem(Signed(n, H), Signed(d, H), Signed(hq, H), Signed(hr, H))
  <2>1. Divided(n, d, hq, hr, H)
    BY <1>2, <1>16, DivisionIs
  <2> QED BY <2>1 DEF Divided
<1>18. PICK xq, xr : xq = SignExtended(hq) /\ xr = SignExtended(hr)
  OBVIOUS
<1>19. /\ xq \in Word /\ xr \in Word /\ Signed(xq, W) = Signed(hq, H) /\ Signed(xr, W) = Signed(hr, H)
       /\ ~Overflows(n, d, H) => DivRem(Signed(n, H), Signed(d, H), Signed(xq, W), Signed(xr, W))
  BY <1>1, <1>17, <1>18, ExtendedIs
<1>20. CASE op = "DIVW"
  <2>1. c = xq
    BY <1>1, <1>16, <1>18, <1>20 DEF Results
  <2> QED BY <1>1, <1>17, <1>18, <1>19, <1>20, <2>1 DEF Correct
<1>21. CASE op = "REMW"
  <2>1. ~Overflows(n, d, H)
    BY <1>1, <1>21
  <2>2. c = xr
    BY <1>1, <1>16, <1>18, <1>21, <2>1 DEF Results, REMW
  <2> QED BY <1>1, <1>19, <1>21, <2>1, <2>2 DEF Correct
<1>22. PICK vq, vr : vq = DIVU(n, d, H) /\ vr = REMU(n, d, H)
  OBVIOUS
<1>23. vq \in 0..(H - 1) /\ vr \in 0..(H - 1) /\ DivRemU(n, d, vq, vr, H)
  BY <1>2, <1>22, UnsignedDivisionIs
<1>24. vq \in Word /\ vr \in Word
  BY <1>1, <1>2, <1>23, Sizes DEF Word
<1>25. CASE op = "DIVUW"
  <2>1. c = SignExtended(vq)
    BY <1>1, <1>22, <1>25 DEF Results
  <2>2. c % H = vq
    BY <1>1, <1>23, <2>1, ExtendedIs
  <2> QED BY <1>1, <1>23, <1>24, <1>25, <2>1, <2>2 DEF Correct
<1>26. CASE op = "REMUW"
  <2>1. c = SignExtended(vr)
    BY <1>1, <1>22, <1>26 DEF Results
  <2>2. c % H = vr
    BY <1>1, <1>23, <2>1, ExtendedIs
  <2> QED BY <1>1, <1>23, <1>24, <1>26, <2>1, <2>2 DEF Correct
<1> QED BY <1>3, <1>4, <1>5, <1>6, <1>9, <1>10, <1>13, <1>14, <1>15, <1>20, <1>21, <1>25, <1>26 DEF Ops

\* What an arithmetic program calculates, and from what.
AInv ==
    /\ program.does = Arithmetic => program.op \in Ops /\ program.a \in Word /\ program.b \in Word
    /\ alu # NoAlu => /\ alu.op \in Ops /\ alu.a \in Word /\ alu.b \in Word
                      /\ alu.c \in Results(alu.op, alu.a, alu.b)

LEMMA AInvInit == Init => AInv
  BY DEF Init, AInv, NoAlu, AnyProgram, Arithmetic

LEMMA AInvStep == AInv /\ [Next]_vars => AInv'
<1> SUFFICES ASSUME AInv, [Next]_vars PROVE AInv'
  OBVIOUS
<1>1. program' = program
  BY DEF Next, Step, vars, GetSrcDst, LoopThrows, InstructionThrows, Computes, Calculates, exec_ebreak, Jumps,
         exec_load, exec_store, Halts, Returns, Fetch
<1>2. CASE Calculates
  <2>1. PICK c \in Results(program.op, program.a, program.b) :
          alu' = [op |-> program.op, a |-> program.a, b |-> program.b, c |-> c]
    BY <1>2 DEF Calculates
  <2>2. alu'.op = program.op /\ alu'.a = program.a /\ alu'.b = program.b /\ alu'.c = c
    BY <2>1
  <2>3. program.op \in Ops /\ program.a \in Word /\ program.b \in Word
    BY <1>2 DEF AInv, Calculates
  <2>4. alu'.op \in Ops /\ alu'.a \in Word /\ alu'.b \in Word /\ alu'.c \in Results(alu'.op, alu'.a, alu'.b)
    BY <2>1, <2>2, <2>3
  <2> QED BY <1>1, <2>3, <2>4 DEF AInv
<1>3. CASE ~Calculates
  <2>1. alu' = alu \/ alu' = NoAlu
    BY <1>3 DEF Next, Step, vars, GetSrcDst, LoopThrows, InstructionThrows, Computes, exec_ebreak, Jumps,
         exec_load, exec_store, Halts, Returns
  <2> QED BY <1>1, <2>1 DEF AInv
<1> QED BY <1>2, <1>3

\* The multiplications and divisions are those of the instruction set for every even
\* size of a half word, so for the 2^32 of the code: mulu64_128 loses no carry, a
\* negated product borrows from its high word, and division rounds towards zero.
THEOREM ArithmeticAlwaysExact == Spec => []ArithmeticExact
<1>1. AInv => ArithmeticExact
  BY ResultsCorrect DEF AInv, ArithmeticExact
<1> QED BY <1>1, AInvInit, AInvStep, PTL DEF Spec
=============================================================================
