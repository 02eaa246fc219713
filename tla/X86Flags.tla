------------------------------- MODULE X86Flags -------------------------------
(***************************************************************************)
(* The arithmetic of the emulated x86 and the flags it leaves, twice: as   *)
(* the interpreter computes it (cpu.cpp) and as translated code computes   *)
(* it (jit/ops_x86.cpp).  The two were written apart and have to agree:    *)
(* which one runs an instruction depends on when its block was translated. *)
(*                                                                         *)
(* Operands are Width bits wide.  A set of flags is a record of the five   *)
(* that a condition can ask for; AF, which only BCD code reads and both    *)
(* sides compute with the same expression, is left out.                    *)
(***************************************************************************)
EXTENDS Integers, Functions

CONSTANT Width

\* What is taken for granted of them.
WidthAssumption == Width \in Nat \ {0, 1}

Size     == 2^Width                     \* mask_of + 1
Values   == 0 .. Size - 1
AllFlags == [cf: BOOLEAN, zf: BOOLEAN, sf: BOOLEAN, of: BOOLEAN, pf: BOOLEAN]

Bit(v, k)   == (v \div 2^k) % 2
Negative(v) == Bit(v, Width - 1) = 1    \* (v & msb_of) != 0
Signed(v)   == IF Negative(v) THEN v - Size ELSE v

OfBits(bits) == FoldFunction(+, 0, [k \in 0 .. Width - 1 |-> bits[k] * 2^k])
And(a, b)    == OfBits([k \in 0 .. Width - 1 |-> Bit(a, k) * Bit(b, k)])
Xor(a, b)    == OfBits([k \in 0 .. Width - 1 |-> (Bit(a, k) + Bit(b, k)) % 2])
Or(a, b)     == a + b - And(a, b)
Evens(v)     == FoldFunction(+, 0, [k \in 0 .. Width - 1 |-> Bit(v, k)]) % 2 = 0

(* The functions of the ALU, by name: CMP is SUB, and TEST is AND, with the *)
(* result thrown away.                                                      *)
Compares == {"cmp", "test"}
Subs     == {"sub", "cmp"}
AluFns   == {"add", "or", "and", "sub", "xor"} \cup Compares
Shifts   == {"shl", "shr", "sar"}
Rotates  == {"rol", "ror", "rcl", "rcr"}
Conds    == 0 .. 15

Result(fn, a, b) ==
    CASE fn = "add"            -> (a + b) % Size
      [] fn \in Subs           -> (a - b) % Size
      [] fn = "or"             -> Or(a, b)
      [] fn = "xor"            -> Xor(a, b)
      [] fn \in {"and", "test"} -> And(a, b)

(* The result and the carry out of a shift by a count that is not zero; the *)
(* count may exceed the width of the operand.                               *)
ShiftResult(fn, v, n) ==
    CASE fn = "shl" -> IF n >= Width THEN 0 ELSE (v * 2^n) % Size
      [] fn = "shr" -> v \div 2^n
      [] fn = "sar" -> (Signed(v) \div 2^(IF n >= Width THEN Width - 1 ELSE n)) % Size

ShiftCarry(fn, v, n) ==
    CASE fn = "shl" -> n <= Width /\ (v \div 2^(Width - n)) % 2 = 1
      [] fn = "shr" -> Bit(v, n - 1) = 1
      [] fn = "sar" -> LET sh == IF n >= Width THEN Width - 1 ELSE n
                       IN  (Signed(v) \div 2^(IF sh = 0 THEN 0 ELSE sh - 1)) % 2 = 1

ShiftValue(fn, v, n) == IF n = 0 THEN v ELSE ShiftResult(fn, v, n)

(* e, of w bits, rotated left by k.                                         *)
RotatedLeft(e, w, k) == ((e * 2^(k % w)) % 2^w) + (e \div 2^(w - (k % w)))

(* Through the carry, c, the operand is one bit wider.  What comes out has  *)
(* the carry on top, which a plain rotation takes from the bit that moved   *)
(* round.                                                                   *)
Rotated(fn, v, n, c) ==
    LET wide == Width + 1
        rol  == RotatedLeft(v, Width, n)
        ror  == RotatedLeft(v, Width, Width - (n % Width))
    IN  CASE fn = "rol" -> rol + Size * (rol % 2)
          [] fn = "ror" -> ror + Size * Bit(ror, Width - 1)
          [] fn = "rcl" -> RotatedLeft(v + Size * c, wide, n)
          [] fn = "rcr" -> RotatedLeft(v + Size * c, wide, wide - (n % wide))

(* IMUL: the low half, and whether the product did not fit in it.           *)
Product(a, b)  == (Signed(a) * Signed(b)) % Size
Overflow(a, b) == Signed(a) * Signed(b) # Signed(Product(a, b))
-----------------------------------------------------------------------------
(* The interpreter.                                                         *)

Szp(cf, of, r) == [cf |-> cf, of |-> of, zf |-> r = 0, sf |-> Negative(r), pf |-> Evens(r)]

(* set_flags_add and set_flags_sub, with the carry or borrow that comes in. *)
FlagsAdd(a, b, c, r) ==
    Szp((a + b + c) \div Size # 0,
        Negative(a) = Negative(b) /\ Negative(r) # Negative(a), r)

FlagsSub(a, b, c, r) ==
    Szp(IF c = 1 THEN a <= b ELSE a < b,
        Negative(a) # Negative(b) /\ Negative(r) # Negative(a), r)

FlagsLogic(r) == Szp(FALSE, FALSE, r)

AluFlags(fn, a, b) ==
    LET r == Result(fn, a, b)
    IN  CASE fn = "add"    -> FlagsAdd(a, b, 0, r)
          [] fn \in Subs   -> FlagsSub(a, b, 0, r)
          [] OTHER         -> FlagsLogic(r)

(* INC and DEC keep the carry.                                              *)
IncFlags(f, fn, a) == [AluFlags(fn, a, 1) EXCEPT !.cf = f.cf]

(* A count of zero changes no flag.                                         *)
ShiftFlags(f, fn, v, n) ==
    LET r  == ShiftResult(fn, v, n)
        cf == ShiftCarry(fn, v, n)
        of == CASE fn = "shl" -> cf # Negative(r)
                [] fn = "shr" -> Negative(v)
                [] fn = "sar" -> FALSE
    IN  IF n = 0 THEN f ELSE Szp(cf, of, r)

RotateValue(f, fn, v, n) == Rotated(fn, v, n, IF f.cf THEN 1 ELSE 0) % Size

(* A rotation touches CF and OF only, and RCR not even OF.                  *)
RotateFlags(f, fn, v, n) ==
    LET e  == Rotated(fn, v, n, IF f.cf THEN 1 ELSE 0)
        r  == e % Size
        cf == e \div Size = 1
        of == CASE fn \in {"rol", "rcl"} -> Negative(r) # cf
                [] fn = "ror" -> Negative(r) # (Bit(r, Width - 2) = 1)
                [] fn = "rcr" -> f.of
    IN  IF n = 0 THEN f ELSE [f EXCEPT !.cf = cf, !.of = of]

(* ADC and SBB, with the carry that came in.                                *)
CarryIn(f)          == IF f.cf THEN 1 ELSE 0
CarryResult(f, fn, a, b) ==
    (IF fn = "add" THEN a + b + CarryIn(f) ELSE a - b - CarryIn(f)) % Size
CarryFlags(f, fn, a, b) ==
    LET r == CarryResult(f, fn, a, b)
    IN  IF fn = "add" THEN FlagsAdd(a, b, CarryIn(f), r) ELSE FlagsSub(a, b, CarryIn(f), r)

MulFlags(a, b) == Szp(Overflow(a, b), Overflow(a, b), Product(a, b))

(* NEG is 0 - a, but for a carry of its own.                                *)
NegFlags(a) == [FlagsSub(0, a, 0, (-a) % Size) EXCEPT !.cf = a # 0]

Cond(cc, f) ==
    CASE cc = 0  -> f.of                 [] cc = 1  -> ~f.of
      [] cc = 2  -> f.cf                 [] cc = 3  -> ~f.cf
      [] cc = 4  -> f.zf                 [] cc = 5  -> ~f.zf
      [] cc = 6  -> f.cf \/ f.zf         [] cc = 7  -> ~f.cf /\ ~f.zf
      [] cc = 8  -> f.sf                 [] cc = 9  -> ~f.sf
      [] cc = 10 -> f.pf                 [] cc = 11 -> ~f.pf
      [] cc = 12 -> f.sf # f.of          [] cc = 13 -> f.sf = f.of
      [] cc = 14 -> f.zf \/ f.sf # f.of  [] cc = 15 -> ~f.zf /\ f.sf = f.of
-----------------------------------------------------------------------------
(* Translated code.                                                         *)

(* a OP b = r leaves these; the overflow of an addition is taken from the   *)
(* sign bits of both operands against the result.                           *)
ArithFl(a, b, r, sub) ==
    [cf |-> IF sub THEN a < b ELSE r < a,
     of |-> IF sub THEN Negative(And(Xor(a, b), Xor(a, r)))
                   ELSE Negative(And(Xor(a, r), Xor(b, r))),
     zf |-> r = 0, sf |-> Negative(r), pf |-> Evens(r)]

LogicFl(r) == [cf |-> FALSE, of |-> FALSE, zf |-> r = 0, sf |-> Negative(r), pf |-> Evens(r)]

(* What an Alu op with kFlagEager leaves.                                   *)
EagerFlags(fn, a, b) ==
    LET r == Result(fn, a, b)
    IN  IF fn \in Subs \cup {"add"} THEN ArithFl(a, b, r, fn \in Subs) ELSE LogicFl(r)

EagerInc(f, fn, a) ==
    [ArithFl(a, 1, Result(fn, a, 1), fn = "sub") EXCEPT !.cf = f.cf]

(* The kind of a deferred operation: 1 ADD, 2 SUB, 3 AND, 4 OR, 5 XOR.      *)
KindOf(fn) ==
    CASE fn = "add" -> 1 [] fn \in Subs -> 2 [] fn \in {"and", "test"} -> 3
      [] fn = "or" -> 4 [] fn = "xor" -> 5

Materialized(kind, a, b) ==
    CASE kind = 1 -> ArithFl(a, b, (a + b) % Size, FALSE)
      [] kind = 2 -> ArithFl(a, b, (a - b) % Size, TRUE)
      [] kind = 3 -> LogicFl(And(a, b))
      [] kind = 4 -> LogicFl(Or(a, b))
      [] kind = 5 -> LogicFl(Xor(a, b))

(* A condition on rflags: the bit the pair of conditions asks for, and the  *)
(* odd one of the pair its opposite.                                        *)
TestCc(cc, f) ==
    LET pair == << f.of, f.cf, f.zf, f.cf \/ f.zf, f.sf, f.pf, f.sf # f.of, f.zf \/ f.sf # f.of >>
    IN  pair[cc \div 2 + 1] # (cc % 2 = 1)

(* A condition on the flags a OP b would leave, without leaving them.       *)
EvalSub(cc, a, b) ==
    LET r  == (a - b) % Size
        of == Negative(And(Xor(a, b), Xor(a, r)))
    IN  CASE cc = 0  -> of                      [] cc = 1  -> ~of
          [] cc = 2  -> a < b                   [] cc = 3  -> a >= b
          [] cc = 4  -> a = b                   [] cc = 5  -> a # b
          [] cc = 6  -> a <= b                  [] cc = 7  -> a > b
          [] cc = 8  -> Negative(r)             [] cc = 9  -> ~Negative(r)
          [] cc = 10 -> Evens(r)                [] cc = 11 -> ~Evens(r)
          [] cc = 12 -> Signed(a) < Signed(b)   [] cc = 13 -> Signed(a) >= Signed(b)
          [] cc = 14 -> Signed(a) <= Signed(b)  [] cc = 15 -> Signed(a) > Signed(b)

EvalLogic(cc, r) ==
    CASE cc \in {0, 2}   -> FALSE               [] cc \in {1, 3}   -> TRUE
      [] cc \in {4, 6}   -> r = 0               [] cc \in {5, 7}   -> r # 0
      [] cc \in {8, 12}  -> Negative(r)         [] cc \in {9, 13}  -> ~Negative(r)
      [] cc = 10 -> Evens(r)                    [] cc = 11 -> ~Evens(r)
      [] cc = 14 -> Negative(r) \/ r = 0        [] cc = 15 -> ~Negative(r) /\ r # 0

EvalCc(kind, cc, a, b) ==
    CASE kind = 2 -> EvalSub(cc, a, b)
      [] kind = 3 -> EvalLogic(cc, And(a, b))
      [] kind = 4 -> EvalLogic(cc, Or(a, b))
      [] kind = 5 -> EvalLogic(cc, Xor(a, b))
      [] kind = 1 -> TestCc(cc, Materialized(1, a, b))
===============================================================================
