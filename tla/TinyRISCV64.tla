---------------------------- MODULE TinyRISCV64 ----------------------------
(* The virtual machine (src/TinyRISCV64.h) that runs the inspection program of *)
(* Switch mode, and MiniPlex::GetSrcDst (src/MiniPlex.cpp), which runs it once *)
(* for every datagram to find the addresses in it.                             *)
(*                                                                             *)
(* Program, datagram and stack lie in one address space with gaps in between.  *)
(* The program is any program at all (it may even change itself): each step is *)
(* any instruction with any operands, and may leave any value in a register.   *)
(* Only what the machine and GetSrcDst rely on is kept: the memory map, the    *)
(* stack pointer they set, and for the bytes of the stack which run wrote them.*)
(* A program of one arithmetic instruction, not on sp, is followed in what it  *)
(* computes.                                                                   *)
EXTENDS RV64Arith, FiniteSets

CONSTANTS
    ProgSizes,         \* program.size(), any of these
    DataSizes,         \* sizes of a datagram
    StackSize,         \* stack.size() (4096)
    Gap,               \* addresses between two regions (64)
    InstSize,          \* size of an instruction (4); a jump goes to a multiple of half of it
    DoubleSize,        \* size of a double word, the largest access (8)
    AccessSizes,       \* sizes of an access
    AddrMod,           \* number of addresses (2^64)
    max_instructions,  \* instructions a run may take (100000)
    MaxRuns            \* bound: datagrams in a behaviour

ASSUME SizesAssumption ==
    /\ ProgSizes \cup DataSizes \subseteq Nat
    /\ {StackSize, Gap, max_instructions, MaxRuns} \subseteq Nat
    /\ {InstSize, DoubleSize, AddrMod} \subseteq Nat \ {0} /\ InstSize % 2 = 0
    /\ AccessSizes \subseteq 1..DoubleSize
    /\ StackSize >= 2 * DoubleSize
ASSUME RoomAssumption ==
    \A p \in ProgSizes \cup {InstSize}, d \in DataSizes \cup {0} :
        p + d + StackSize + 2 * Gap <= AddrMod - 2 * DoubleSize

VARIABLES
    program,   \* its size, and what it does
    phase,     \* idle, running, returning, or crashed
    data,      \* the memory mapped for data: its size and the run whose datagram it is
    map,       \* the virtual addresses, as reset left them
    sp,        \* x[2] as GetSrcDst left it, and finally as the program did
    pc, count, halted,
    stack,     \* per byte of the stack, the run whose program wrote it last; 0 if none
    run,       \* datagrams inspected
    access,    \* the last access to memory: what was found for it
    alu,       \* the last arithmetic instruction
    result     \* what GetSrcDst returned

machine == <<pc, count, halted>>
vars == <<program, phase, data, map, sp, machine, stack, run, access, alu, result>>

Addr == 0..(AddrMod - 1)
AnyProgram == "any"
Arithmetic == "arithmetic"

NoAccess == [region |-> "none", off |-> 0, size |-> 0]
NoAlu == [op |-> "none", a |-> 0, b |-> 0, c |-> 0]
Nothing == [ok |-> FALSE, src |-> {}, dst |-> {}]

\* reset: the regions, for a program of p bytes and d bytes of data.
Regions(p, d) ==
    [p_end |-> p, d_beg |-> p + Gap, d_end |-> p + Gap + d,
     s_beg |-> p + d + 2 * Gap, s_end |-> p + d + 2 * Gap + StackSize]

\* The program is loaded before the first datagram; a program file may have any
\* size.
Init ==
    /\ program \in [size : ProgSizes, does : {AnyProgram}]
                     \cup [size : {InstSize}, does : {Arithmetic}, op : Ops, a : Word, b : Word]
    /\ phase = "idle"
    /\ data = [size |-> 0, of |-> 0]
    /\ map = Regions(program.size, 0)
    /\ sp = map.s_end
    /\ pc = 0 /\ count = 0 /\ halted = FALSE
    /\ stack = [i \in 0..(StackSize - 1) |-> 0]
    /\ run = 0
    /\ access = NoAccess /\ alu = NoAlu /\ result = Nothing

-----------------------------------------------------------------------------
(* Memory *)

Wraps(addr) == addr > AddrMod - 2 * DoubleSize

MutInside(addr, size, beg, end) == addr >= beg /\ addr < end
\* Whether an access lies within a region.
Inside(addr, size, beg, end) == addr >= beg /\ (addr + size - 1) % AddrMod < end

\* mem_ptr: where an access goes, NoAccess if it is out of bounds (an exception).
mem_ptr(addr, size) ==
    LET At(region, beg) == [region |-> region, off |-> addr - beg, size |-> size]
    IN  CASE Wraps(addr) -> NoAccess
          [] ~Wraps(addr) /\ Inside(addr, size, 0, map.p_end) -> At("program", 0)
          [] ~Wraps(addr) /\ Inside(addr, size, map.d_beg, map.d_end) -> At("data", map.d_beg)
          [] ~Wraps(addr) /\ Inside(addr, size, map.s_beg, map.s_end) -> At("stack", map.s_beg)
          [] OTHER -> NoAccess

Bytes(a) == a.off..(a.off + a.size - 1)

\* The stack after a store by run r (0: a zero stored by GetSrcDst).
Stored(s, a, r) ==
    [i \in DOMAIN s |-> IF a.region = "stack" /\ i \in Bytes(a) THEN r ELSE s[i]]

\* The runs that wrote what a load gets from the stack.
Loaded(a) == {stack[i] : i \in IF a.region = "stack" THEN Bytes(a) \cap DOMAIN stack ELSE {}}

-----------------------------------------------------------------------------
(* GetSrcDst *)

\* What is to happen when anything in GetSrcDst throws: {false, 0, 0}.
Fails ==
    /\ phase' = "idle"
    /\ result' = Nothing

\* The addresses of the two double words pushed for the results.
SrcSlot == (map.s_end - DoubleSize) % AddrMod
DstSlot == (map.s_end - 2 * DoubleSize) % AddrMod

MutSlots(s, src, dst) == s
\* stack_push<uint64_t>(0), twice.
Slots(s, src, dst) == Stored(Stored(s, src, 0), dst, 0)

\* One datagram is enough for an arithmetic program.
RunsOf(p) == IF p.does = Arithmetic THEN 1 ELSE MaxRuns

\* A datagram of n bytes: it is mapped (which resets the machine), room for the
\* results is pushed, and the program starts.
GetSrcDst(n) ==
    /\ phase = "idle" /\ run < RunsOf(program)
    /\ run' = run + 1
    /\ data' = [size |-> n, of |-> run']
    /\ map' = Regions(program.size, n)
    /\ access' = mem_ptr(DstSlot, DoubleSize)'
    /\ stack' = Slots(stack, mem_ptr(SrcSlot, DoubleSize)', access')
    /\ sp' = DstSlot'
    /\ pc' = 0 /\ count' = 0 /\ halted' = FALSE
    /\ \/ program.size >= InstSize /\ phase' = "running" /\ result' = Nothing
       \/ program.size < InstSize /\ Fails
    /\ UNCHANGED <<program, alu>>

-----------------------------------------------------------------------------
(* execute_program *)

sentinel_pc == InstSize * ((program.size + InstSize - 1) \div InstSize)

MutCounted == count
Counted == count + 1

\* The checks before an instruction; either throws.
Outside == pc > program.size - InstSize
MayExecute == phase = "running" /\ ~halted /\ ~Outside /\ Counted <= max_instructions

LoopThrows ==
    /\ phase = "running" /\ ~halted
    /\ Outside \/ Counted > max_instructions
    /\ Fails
    /\ UNCHANGED <<program, data, map, sp, machine, stack, run, access, alu>>

\* The instruction is fetched, and pc moves on to next; at the sentinel the program
\* halts.
Fetch(next) ==
    /\ MayExecute
    /\ count' = Counted
    /\ pc' = next
    /\ halted' = (next = sentinel_pc)
    /\ UNCHANGED <<program, phase, data, map, run, result>>
Fetched == [region |-> "program", off |-> pc, size |-> InstSize]
NextPc == (pc + InstSize) % AddrMod

\* An instruction that works on registers, or none (a fence, a branch not taken).
Computes ==
    /\ program.does = AnyProgram
    /\ Fetch(NextPc)
    /\ access' = Fetched
    /\ UNCHANGED <<sp, stack, alu>>

\* A multiplication or division.
Calculates ==
    /\ program.does = Arithmetic
    /\ MayExecute
    /\ \E c \in Results(program.op, program.a, program.b) :
         /\ alu' = [op |-> program.op, a |-> program.a, b |-> program.b, c |-> c]
         /\ \/ c # Trap /\ Fetch(NextPc) /\ access' = Fetched
            \/ /\ c = Trap
               /\ phase' = "crashed"
               /\ UNCHANGED <<program, data, map, machine, run, access, result>>
    /\ UNCHANGED <<sp, stack>>

\* JAL, JALR or a branch taken.
Jumps(target) ==
    /\ program.does = AnyProgram
    /\ Fetch(target)
    /\ target % (InstSize \div 2) = 0
    /\ access' = Fetched
    /\ UNCHANGED <<sp, stack, alu>>

exec_load(addr, size) ==
    LET a == mem_ptr(addr, size)
    IN  /\ program.does = AnyProgram
        /\ Fetch(NextPc)
        /\ a # NoAccess
        /\ access' = a
        /\ UNCHANGED <<sp, stack, alu>>

exec_store(addr, size) ==
    LET a == mem_ptr(addr, size)
    IN  /\ program.does = AnyProgram
        /\ Fetch(NextPc)
        /\ a # NoAccess
        /\ access' = a
        /\ stack' = Stored(stack, a, run)
        /\ UNCHANGED <<sp, alu>>

\* EBREAK.  The instructions before and after it are looked at for the marks of a
\* semihosting call (which throws); these are its accesses.
Marks ==
    (IF NextPc >= 2 * InstSize THEN {mem_ptr(NextPc - 2 * InstSize, InstSize)} ELSE {})
      \cup (IF NextPc + InstSize - 1 < map.p_end THEN {mem_ptr(NextPc, InstSize)} ELSE {})
exec_ebreak ==
    /\ program.does = AnyProgram
    /\ MayExecute
    /\ count' = Counted /\ pc' = NextPc
    /\ halted' = TRUE
    /\ access' \in {Fetched} \cup Marks
    /\ UNCHANGED <<program, phase, data, map, sp, stack, run, alu, result>>

\* An instruction that throws: unknown, an access out of bounds, a system call...
InstructionThrows ==
    /\ program.does = AnyProgram
    /\ MayExecute
    /\ Fails
    /\ count' = Counted /\ pc' = NextPc
    /\ access' = Fetched
    /\ UNCHANGED <<program, data, map, sp, halted, stack, run, alu>>

-----------------------------------------------------------------------------
\* The program has halted, and has left some stack pointer.
Halts(left) ==
    /\ phase = "running" /\ halted
    /\ program.does = Arithmetic => left = sp
    /\ phase' = "returning"
    /\ sp' = left
    /\ access' = NoAccess /\ alu' = NoAlu
    /\ UNCHANGED <<program, data, map, machine, stack, run, result>>

\* stack_pop<uint64_t>(), twice: the addresses that dst and src are read from.
Popped == <<sp, (sp + DoubleSize) % AddrMod>>

\* GetSrcDst returns what the program left; res is whether it left 0 in a0.
Returns(res) ==
    LET dst == mem_ptr(Popped[1], DoubleSize)
        src == mem_ptr(Popped[2], DoubleSize)
    IN  /\ phase = "returning"
        /\ \/ /\ NoAccess \notin {src, dst}
              /\ access' = src
              /\ phase' = "idle"
              /\ result' = [ok |-> res, src |-> Loaded(src), dst |-> Loaded(dst)]
           \/ /\ NoAccess \in {src, dst}
              /\ Fails
              /\ UNCHANGED access
        /\ UNCHANGED <<program, data, map, sp, machine, stack, run, alu>>

Step ==
    \/ LoopThrows \/ InstructionThrows \/ Computes \/ Calculates \/ exec_ebreak
    \/ \E target \in Addr : Jumps(target)
    \/ \E addr \in Addr, size \in AccessSizes : exec_load(addr, size) \/ exec_store(addr, size)
    \/ \E left \in Addr : Halts(left)
    \/ \E res \in BOOLEAN : Returns(res)

Next == (\E n \in DataSizes : GetSrcDst(n)) \/ Step

\* A thread that has begun to run the program goes on.
Spec == Init /\ [][Next]_vars /\ WF_vars(Step)

-----------------------------------------------------------------------------
(* Properties *)

RegionSize ==
    [program |-> program.size, data |-> data.size, stack |-> StackSize]

\* Whatever the program does, every access the machine lets through (the fetch of
\* an instruction, a load, a store, the look around an EBREAK, the pushes and pops
\* of GetSrcDst) lies in the bytes that are there, and the look around an EBREAK
\* finds bytes; data is only touched while it is the datagram of this run.
AccessesInBounds ==
    /\ phase \in {"idle", "running", "returning", "crashed"}
    /\ pc \in Addr /\ sp \in Addr /\ count \in 0..max_instructions
    /\ stack \in [0..(StackSize - 1) -> 0..run]
    /\ access # NoAccess =>
         /\ access.off >= 0
         /\ access.off + access.size <= RegionSize[access.region]
         /\ access.region = "data" => data.of = run
    /\ phase = "running" => access # NoAccess

\* When the program leaves the stack pointer as it found it, GetSrcDst returns what
\* this run's program wrote in the two places it was given, src from the one and
\* dst from the other, or the 0 that was pushed: never an address that the run for
\* an earlier datagram left there, even one that was cut short by an exception.
NoStaleResult ==
    result # Nothing /\ sp = DstSlot =>
      /\ result.src \cup result.dst \subseteq {0, run}
      /\ access = mem_ptr(SrcSlot, DoubleSize)

\* The multiplications and divisions are those of the instruction set for all
\* operands, signs, overflow and division by zero included; but for REMW, which
\* has no defined value where the quotient overflows.
ArithmeticExact ==
    alu # NoAlu =>
      \/ alu.op = "REMW" /\ Overflows(Low(alu.a), Low(alu.b), HalfMod)
      \/ Correct(alu.op, alu.a, alu.b, alu.c)

\* Every run of a program comes to an end: by its sentinel, an EBREAK, an exception
\* or the limit on instructions.
RunEnds == phase = "running" ~> phase # "running"
=============================================================================
