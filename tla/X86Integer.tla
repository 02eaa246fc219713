------------------------------ MODULE X86Integer ------------------------------
(***************************************************************************)
(* The instructions of the interpreter (cpu.cpp) whose arithmetic is more  *)
(* than one C++ operator: multiplication and division, which for 64-bit    *)
(* operands are written out over 32-bit halves and a shift-subtract loop;  *)
(* shifts of two registers; bit strings in memory; string instructions     *)
(* under a repeat prefix.  X86Flags has the rest of the ALU.               *)
(*                                                                         *)
(* Width is the width of the operands, and for the written-out arithmetic  *)
(* the width of the host's registers too.                                  *)
(***************************************************************************)
EXTENDS X86Flags, Sequences, SequencesExt

(* The low k values of a loop that counts down from n - 1 to 0.             *)
Down(n) == [i \in 1 .. n |-> n - i]

Pair(hi, lo) == [hi |-> hi, lo |-> lo]
Wide(p)      == p.hi * Size + p.lo
Half         == 2^(Width \div 2)

MulU(a, b) ==
    LET a0 == a % Half    a1 == a \div Half
        b0 == b % Half    b1 == b \div Half
        mid == ((a0 * b0) \div Half) + ((a0 * b1) % Half) + ((a1 * b0) % Half)
    IN  Pair((a1 * b1 + ((a0 * b1) \div Half) + ((a1 * b0) \div Half) + (mid \div Half)) % Size,
             (((a0 * b0) % Half) + mid * Half) % Size)

Abs(v) == IF Negative(v) THEN (Size - v) % Size ELSE v    \* abs_u64

Negated(p) ==                                             \* neg_u128
    LET lo == (Size - p.lo) % Size
    IN  Pair((Size - 1 - p.hi + (IF lo = 0 THEN 1 ELSE 0)) % Size, lo)

MulS(a, b) ==
    LET p == MulU(Abs(a), Abs(b))
    IN  IF Negative(a) # Negative(b) THEN Negated(p) ELSE p

(* MUL and IMUL of the accumulator: the product, and CF = OF: is the upper  *)
(* half more than an extension of the lower one?                            *)
Mul(a, v)  == LET p == MulU(a, v) IN [p |-> p, over |-> p.hi # 0]
Imul(a, v) == LET p == MulS(a, v)
              IN  [p |-> p, over |-> p.hi # (IF Negative(p.lo) THEN Size - 1 ELSE 0)]

(* div_u128.  The bit that the shift pushes out of the remainder counts.    *)
Trap == [trap |-> TRUE, q |-> 0, r |-> 0]
Quotient(q, r) == [trap |-> FALSE, q |-> q, r |-> r]

(* Mutant: the bit pushed out is forgotten.                                 *)
DivStep_NoOverflow(n, d, s, i) ==
    LET rem  == ((2 * s.r) % Size) + Bit(n.lo, i)
    IN  IF rem >= d THEN Quotient(s.q + 2^i, (rem - d) % Size) ELSE Quotient(s.q, rem)

DivStep(n, d, s, i) ==
    LET over == Bit(s.r, Width - 1) = 1
        rem  == ((2 * s.r) % Size) + Bit(n.lo, i)
    IN  IF over \/ rem >= d THEN Quotient(s.q + 2^i, (rem - d) % Size)
                            ELSE Quotient(s.q, rem)

DivU(n, d) ==
    IF d = 0 \/ n.hi >= d THEN Trap
    ELSE FoldLeft(LAMBDA s, i : DivStep(n, d, s, i), Quotient(0, n.hi), Down(Width))

(* DIV and IDIV of 64-bit operands.  IDIV divides the magnitudes, gives the *)
(* quotient and the remainder their signs, and traps a positive quotient    *)
(* that does not fit.                                                       *)
Div(n, d)  == DivU(n, d)
Idiv(n, d) ==
    LET neg  == Negative(n.hi)
        u    == DivU(IF neg THEN Negated(n) ELSE n, Abs(d))
        qneg == neg # Negative(d)
    IN  IF d = 0 \/ u.trap \/ (~qneg /\ Negative(u.q)) THEN Trap
        ELSE Quotient((IF qneg THEN -u.q ELSE u.q) % Size, (IF neg THEN -u.r ELSE u.r) % Size)

(* IDIV of narrower operands: one host division of twice the width, whose   *)
(* quotient is then looked at.  C++ rounds it toward zero.                  *)
Magnitude(x) == IF x < 0 THEN -x ELSE x
Quot(x, y)   == LET q == Magnitude(x) \div Magnitude(y) IN IF (x < 0) # (y < 0) THEN -q ELSE q
Signed2(p)   == IF Negative(p.hi) THEN Wide(p) - Size * Size ELSE Wide(p)

IdivNarrow(n, d) ==
    IF d = 0 THEN Trap
    ELSE LET q == Quot(Signed2(n), Signed(d))
         IN  IF q >= Size \div 2 \/ q < -(Size \div 2) THEN Trap
             ELSE Quotient(q % Size, (Signed2(n) - q * Signed(d)) % Size)
-----------------------------------------------------------------------------
(* SHLD and SHRD: dst shifted by n, filled from src.  A count as wide as    *)
(* the operand or wider (16-bit operands only) does nothing.                *)
DoubleShift(left, dst, src, n) ==
    IF n = 0 \/ n >= Width THEN dst
    ELSE IF left THEN Or((dst * 2^n) % Size, src \div 2^(Width - n))
                 ELSE Or(dst \div 2^n, (src * 2^(Width - n)) % Size)

DoubleShiftFlags(f, left, dst, src, n) ==
    LET r == DoubleShift(left, dst, src, n)
    IN  IF n = 0 \/ n >= Width THEN f
        ELSE Szp(Bit(dst, IF left THEN Width - n ELSE n - 1) = 1,
                 IF n = 1 THEN Negative(dst) # Negative(r) ELSE f.of, r)

(* BSF and BSR of an operand that is not zero.                              *)
BitScan(forward, v) ==
    LET set == { k \in 0 .. Width - 1 : Bit(v, k) = 1 }
    IN  CHOOSE k \in set : \A j \in set : IF forward THEN k <= j ELSE k >= j

BitWord(offset) == Signed(offset) \div Width     \* an arithmetic shift floors
BitAt(offset)   == offset % Width
Changed(op, v, k) ==
    CASE op = "bt"  -> v
      [] op = "bts" -> Or(v, 2^k)
      [] op = "btr" -> v - Bit(v, k) * 2^k
      [] op = "btc" -> Xor(v, 2^k)

(* The operand in memory is a function from word displacements to words.    *)
BitTest(op, mem, offset) ==
    LET w == BitWord(offset)
        k == BitAt(offset)
    IN  [cf |-> Bit(mem[w], k) = 1, mem |-> [mem EXCEPT ![w] = Changed(op, @, k)]]

(* CMPXCHG: the accumulator against the destination.                        *)
CmpXchg(acc, dst, src) ==
    [dst |-> IF acc = dst THEN src ELSE dst, acc |-> IF acc = dst THEN acc ELSE dst,
     flags |-> AluFlags("cmp", acc, dst)]

(* XADD: the source gets the destination before the destination the sum.    *)
Xadd(dst, src) == [dst |-> (dst + src) % Size, src |-> dst]
-----------------------------------------------------------------------------
(* do_string_op.  s is the part of the machine it uses: the count, the two  *)
(* pointers, the accumulator, the flags and memory; rep is "", "rep" or     *)
(* "repne", down the direction flag.                                        *)
Comparing == {"cmps", "scas"}
StringOps == {"movs", "stos", "lods"} \cup Comparing

StringStep(op, down, s) ==
    LET d   == IF down THEN -1 ELSE 1
        si  == [s EXCEPT !.si = @ + d]
        di  == [s EXCEPT !.di = @ + d]
        sdi == [s EXCEPT !.si = @ + d, !.di = @ + d]
    IN  CASE op = "movs" -> [sdi EXCEPT !.mem[s.di] = s.mem[s.si]]
          [] op = "stos" -> [di EXCEPT !.mem[s.di] = s.ax]
          [] op = "lods" -> [si EXCEPT !.ax = s.mem[s.si]]
          [] op = "cmps" -> [sdi EXCEPT !.flags = AluFlags("cmp", s.mem[s.si], s.mem[s.di])]
          [] op = "scas" -> [di EXCEPT !.flags = AluFlags("cmp", s.ax, s.mem[s.di])]

StopsOn(op, rep, f) == op \in Comparing /\ f.zf = (rep = "repne")

(* The loop, as a function of the count: with a count of zero not even the  *)
(* first step is taken.                                                     *)
Repeated(op, rep, down, start) ==
    LET loop[n \in Nat] ==
          IF n = 0 THEN [s |-> start, done |-> start.cx = 0]
          ELSE LET l == loop[n - 1]
                   t == [StringStep(op, down, l.s) EXCEPT !.cx = @ - 1]
               IN  IF l.done THEN l ELSE [s |-> t, done |-> StopsOn(op, rep, t.flags) \/ t.cx = 0]
    IN  loop[start.cx].s

DoStringOp(op, rep, down, s) ==
    IF rep = "" THEN StringStep(op, down, s) ELSE Repeated(op, rep, down, s)
===============================================================================
