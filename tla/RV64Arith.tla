------------------------------ MODULE RV64Arith ------------------------------
(* The multiplications and divisions of the virtual machine                    *)
(* (src/TinyRISCV64.h), on words of HalfMod * HalfMod values and half words of *)
(* HalfMod values (2^64 and 2^32 in the code).                                 *)
EXTENDS Integers

CONSTANT HalfMod

ASSUME HalfAssumption == HalfMod \in Nat /\ HalfMod > 1 /\ HalfMod % 2 = 0

WordMod == HalfMod * HalfMod
Word == 0..(WordMod - 1)

\* The signed number that an unsigned one of m values stands for, as a cast gives
\* it; casts back are % m.
Signed(a, m) == IF a < m \div 2 THEN a ELSE a - m
SignExtended(a) == Signed(a, HalfMod) % WordMod
Abs(n) == IF n < 0 THEN -n ELSE n

\* The / and % of the language: towards zero.
Quotient(n, d) == LET q == Abs(n) \div Abs(d) IN IF (n < 0) = (d < 0) THEN q ELSE -q
Remainder(n, d) == LET r == Abs(n) % Abs(d) IN IF n < 0 THEN -r ELSE r

-----------------------------------------------------------------------------
(* Division, of numbers of m values *)

\* The one quotient that does not fit; computing it is undefined.
Overflows(a, b, m) == Signed(a, m) = -(m \div 2) /\ Signed(b, m) = -1

DIV(a, b, m) == CASE b = 0             -> m - 1
                  [] Overflows(a, b, m) -> m \div 2
                  [] OTHER             -> Quotient(Signed(a, m), Signed(b, m)) % m
DIVU(a, b, m) == IF b = 0 THEN m - 1 ELSE a \div b
MutREM(a, b, m) == CASE b = 0             -> a
                     [] Overflows(a, b, m) -> 0
                     [] OTHER             -> Signed(a, m) % Abs(Signed(b, m))
REM(a, b, m) == CASE b = 0             -> a
                  [] Overflows(a, b, m) -> 0
                  [] OTHER             -> Remainder(Signed(a, m), Signed(b, m)) % m
REMU(a, b, m) == IF b = 0 THEN a ELSE a % b

-----------------------------------------------------------------------------
(* The high word of a product, where the platform has no 128-bit numbers *)

\* mulu64_128: the product of two words, in parts.
mulu64_128(a, b) ==
    LET a_lo == a % HalfMod
        a_hi == a \div HalfMod
        b_lo == b % HalfMod
        b_hi == b \div HalfMod
        p0 == a_lo * b_lo
        p1 == a_lo * b_hi
        p2 == a_hi * b_lo
        p3 == a_hi * b_hi
        mid == ((p0 \div HalfMod) + (p1 % HalfMod) + (p2 % HalfMod)) % WordMod
    IN  [hi |-> (p3 + (p1 \div HalfMod) + (p2 \div HalfMod) + (mid \div HalfMod)) % WordMod,
         lo |-> (p0 % HalfMod) + ((mid * HalfMod) % WordMod)]

\* Two's complement over both words.
Negated(p) ==
    LET lo == (WordMod - p.lo) % WordMod
        hi == WordMod - 1 - p.hi
    IN  [hi |-> IF lo = 0 THEN (hi + 1) % WordMod ELSE hi, lo |-> lo]

Magnitude(a) == Abs(Signed(a, WordMod))
mulh(a, b) ==
    LET p == mulu64_128(Magnitude(a), Magnitude(b))
        neg == (Signed(a, WordMod) < 0) # (Signed(b, WordMod) < 0)
    IN  IF neg THEN Negated(p).hi ELSE p.hi
mulhsu(a, b) ==
    LET p == mulu64_128(Magnitude(a), b) IN IF Signed(a, WordMod) < 0 THEN Negated(p).hi ELSE p.hi
mulhu(a, b) == mulu64_128(a, b).hi

-----------------------------------------------------------------------------
(* The instructions, each with the set of its possible results *)

\* No result: the division traps, and the whole program with it.
Trap == WordMod

\* The low half, on which the instructions on half words work.
Low(a) == a % HalfMod

\* REMW takes no care of the overflow: it is undefined, a trap or the result 0.
REMW(a, b) ==
    IF Overflows(Low(a), Low(b), HalfMod) THEN {0, Trap}
    ELSE {SignExtended(REM(Low(a), Low(b), HalfMod))}

Ops == {"MUL", "MULH", "MULHSU", "MULHU", "DIV", "DIVU", "REM", "REMU",
        "MULW", "DIVW", "DIVUW", "REMW", "REMUW"}

Results(op, a, b) ==
    CASE op = "MUL"    -> {(a * b) % WordMod}
      [] op = "MULH"   -> {mulh(a, b)}
      [] op = "MULHSU" -> {mulhsu(a, b)}
      [] op = "MULHU"  -> {mulhu(a, b)}
      [] op = "DIV"    -> {DIV(a, b, WordMod)}
      [] op = "DIVU"   -> {DIVU(a, b, WordMod)}
      [] op = "REM"    -> {REM(a, b, WordMod)}
      [] op = "REMU"   -> {REMU(a, b, WordMod)}
      [] op = "MULW"   -> {SignExtended((Low(a) * Low(b)) % HalfMod)}
      [] op = "DIVW"   -> {SignExtended(DIV(Low(a), Low(b), HalfMod))}
      [] op = "DIVUW"  -> {SignExtended(DIVU(Low(a), Low(b), HalfMod))}
      [] op = "REMW"   -> REMW(a, b)
      [] op = "REMUW"  -> {SignExtended(REMU(Low(a), Low(b), HalfMod))}

-----------------------------------------------------------------------------
(* What the instructions are to compute *)

\* q and r divide n by d, rounding towards zero; as the instruction set has it, a
\* division by 0 gives -1 and leaves n.
DivRem(n, d, q, r) ==
    IF d = 0 THEN q = -1 /\ r = n
             ELSE /\ n = q * d + r
                  /\ Abs(r) < Abs(d)
                  /\ r # 0 => (r < 0) = (n < 0)
DivRemU(n, d, q, r, m) ==
    IF d = 0 THEN q = m - 1 /\ r = n ELSE n = q * d + r /\ r \in 0..(d - 1)

\* c is the value the instruction set demands for op on a and b.  w and h are the
\* signed values of a word and of its low half.
Correct(op, a, b, c) ==
    LET w(n) == Signed(n, WordMod)
        h(n) == Signed(Low(n), HalfMod)
        high(product) == c = (product \div WordMod) % WordMod
        n == Low(a)
        d == Low(b)
    IN  CASE op = "MUL"    -> c = (w(a) * w(b)) % WordMod
          [] op = "MULH"   -> high(w(a) * w(b))
          [] op = "MULHSU" -> high(w(a) * b)
          [] op = "MULHU"  -> high(a * b)
          [] op = "DIV"    -> IF Overflows(a, b, WordMod) THEN c = a
                              ELSE \E r \in Word : DivRem(w(a), w(b), w(c), w(r))
          [] op = "REM"    -> IF Overflows(a, b, WordMod) THEN c = 0
                              ELSE \E q \in Word : DivRem(w(a), w(b), w(q), w(c))
          [] op = "DIVU"   -> \E r \in Word : DivRemU(a, b, c, r, WordMod)
          [] op = "REMU"   -> \E q \in Word : DivRemU(a, b, q, c, WordMod)
          [] op = "MULW"   -> c = SignExtended((h(a) * h(b)) % HalfMod)
          [] op = "DIVW"   -> IF Overflows(n, d, HalfMod) THEN c = SignExtended(n)
                              ELSE \E r \in Word : DivRem(h(a), h(b), w(c), w(r))
          [] op = "REMW"   -> IF Overflows(n, d, HalfMod) THEN c = 0
                              ELSE \E q \in Word : DivRem(h(a), h(b), w(q), w(c))
          [] op = "DIVUW"  -> c = SignExtended(c % HalfMod)
                              /\ \E r \in Word : DivRemU(n, d, c % HalfMod, r, HalfMod)
          [] op = "REMUW"  -> c = SignExtended(c % HalfMod)
                              /\ \E q \in Word : DivRemU(n, d, q, c % HalfMod, HalfMod)
=============================================================================
