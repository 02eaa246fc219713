---------------------------- MODULE InstructionLaws ----------------------------
(***************************************************************************)
(* What the interpreter's instructions compute, against definitions that   *)
(* do not look like them: products and quotients of whole numbers for      *)
(* arithmetic written over halves, shifts of a number twice as wide, a     *)
(* bit string, memmove, and for the packed instructions, which were coded  *)
(* one by one, the identities between them that any SIMD program leans on. *)
(*                                                                         *)
(* A state is one sample: a kind of law and the operands it is for.  Two   *)
(* kinds run: "x87" is the register stack machine of X87, and "aes"        *)
(* encrypts a block, round by round.                                       *)
(***************************************************************************)
EXTENDS X86Integer, X86Simd, X86Float, X87, X86Registers, SequencesExt

CONSTANT Samples

VARIABLE sample

-----------------------------------------------------------------------------
(* Identities between packed instructions.  Each instruction of sse.cpp    *)
(* was coded by itself, over lanes of its own type; SIMD code takes it for *)
(* granted that they fit together, and does everything the instruction set *)
(* lacks with the others.  Each identity below is such a use.              *)

AllOnes  == [n \in At |-> Byte - 1]
Bias(k)  == Lanes(k, [i \in 0 .. LastLane(k) |-> Top(k)])
Not(a)   == Pxor(a, AllOnes)
Minus(k, a) == Psub(k, Zero, a)
Low(a)   == ByteShift(FALSE, 0, a)
High(a)  == ByteShift(FALSE, 8, a)

(* The parts of a lane of 2 * k bytes, extended to it.                      *)
Even(sub, k, a) == ShiftImm(sub, 2 * k, Bits(k), ShiftImm(6, 2 * k, Bits(k), a))
Odd(sub, k, a)  == ShiftImm(sub, 2 * k, Bits(k), a)

(* Both halves of a, widened, through an instruction on the wide lanes, and *)
(* packed again.                                                            *)
Widely(k, extend, signed, Op(_, _), a, b) ==
    Pack(2 * k, signed, Op(Widen(k, 2 * k, extend, a), Widen(k, 2 * k, extend, b)),
                        Op(Widen(k, 2 * k, extend, High(a)), Widen(k, 2 * k, extend, High(b))))

MovesAgree(a, b) ==
    /\ Movlhps(a, b) = Unpack(8, FALSE, a, b)
    /\ Movhlps(a, b) = Unpack(8, TRUE, b, a)
    /\ Movddup(b) = Unpack(8, FALSE, b, b)
    /\ Movs(8, a, b) = Shufpd(2, b, a)
    /\ Movs(4, a, b) = Blend(4, 1, a, b)
    /\ \A k \in {4, 8} : MovsLoad(k, b) = Movs(k, Zero, b)
    /\ \A k \in {1, 2, 4, 8} : \A i \in 0 .. LastLane(k) :
          /\ Pinsr(k, i, a, Pextr(k, i, a)) = a
          /\ k > 1 => Blend(k, 2^i, a, b) = Pinsr(k, i, a, Pextr(k, i, b))
    /\ \A from, to \in 0 .. 3, z \in {0, 1, 5, 8} :
          Insertps(from, to, z, a, b) = Blend(4, z, Pinsr(4, to, a, Pextr(4, from, b)), Zero)

WidthsAgree(a, b) ==
    /\ \A k \in {1, 2, 4} :
          /\ Unpack(k, FALSE, b, Zero) = Widen(k, 2 * k, FALSE, b)
          /\ Unpack(k, TRUE, b, Zero)  = Widen(k, 2 * k, FALSE, High(b))
          /\ Unpack(k, FALSE, b, Pcmpgt(k, Zero, b)) = Widen(k, 2 * k, TRUE, b)
    /\ \A k \in {1, 2}, signed \in BOOLEAN :
          /\ Widen(2 * k, 4 * k, signed, Widen(k, 2 * k, signed, b)) = Widen(k, 4 * k, signed, b)
          /\ Widely(k, signed, signed, LAMBDA x, y : x, a, b) = a
          /\ Paddus(k, a, b) = Widely(k, FALSE, FALSE, LAMBDA x, y : Padd(2 * k, x, y), a, b)
          /\ Psubus(k, a, b) = Widely(k, FALSE, FALSE, LAMBDA x, y : Psub(2 * k, x, y), a, b)
          /\ Padds(k, a, b)  = Widely(k, TRUE, TRUE, LAMBDA x, y : Padd(2 * k, x, y), a, b)
          /\ Psubs(k, a, b)  = Widely(k, TRUE, TRUE, LAMBDA x, y : Psub(2 * k, x, y), a, b)

OrderAgrees(a, b) ==
    /\ \A k \in {1, 2, 4} :
          /\ Pmins(k, a, b) = BlendV(k, b, a, Pcmpgt(k, b, a))
          /\ Pmaxs(k, a, b) = BlendV(k, b, a, Pcmpgt(k, a, b))
          /\ Pminu(k, a, b) = Pxor(Bias(k), Pmins(k, Pxor(Bias(k), a), Pxor(Bias(k), b)))
          /\ Pmaxu(k, a, b) = Pxor(Bias(k), Pmaxs(k, Pxor(Bias(k), a), Pxor(Bias(k), b)))
          /\ Psubus(k, a, b) = Psub(k, a, Pminu(k, a, b))
          /\ Pabs(k, b) = Pmaxs(k, b, Minus(k, b))
          /\ Psign(k, a, b) = LET s == Pcmpgt(k, Zero, b)
                              IN  Pandn(Pcmpeq(k, b, Zero), Psub(k, Pxor(a, s), s))
          /\ k < 4 => Pavg(k, a, b) = Psub(k, Por(a, b), ShiftImm(2, k, 1, Pxor(a, b)))
    /\ \A k \in {1, 2, 4, 8} :
          /\ Pcmpeq(k, a, b) = Not(Por(Pcmpgt(k, a, b), Pcmpgt(k, b, a)))
          /\ Mask(k, Pcmpgt(k, Zero, b)) = Mask(k, b)
    /\ Psadbw(a, b) = Psadbw(Por(Psubus(1, a, b), Psubus(1, b, a)), Zero)
    /\ LET p == Phminposuw(b)
           least == Lanes(2, [i \in 0 .. 7 |-> Lane(p, 2, 0)])
       IN  /\ Pminu(2, b, least) = least
           /\ Lane(p, 2, 1) = Min(Mask(2, Pcmpeq(2, b, least)))

ProductsAgree(a, b) ==
    LET lo == Unpack(2, FALSE, Pmull(2, a, b), Pmulh(a, b))
        hi == Unpack(2, TRUE, Pmull(2, a, b), Pmulh(a, b))
        one == Lanes(4, [i \in 0 .. 3 |-> 1])
    IN  /\ lo = Pmull(4, Widen(2, 4, TRUE, a), Widen(2, 4, TRUE, b))
        /\ Unpack(2, FALSE, Pmull(2, a, b), Pmulhu(a, b))
             = Pmull(4, Widen(2, 4, FALSE, a), Widen(2, 4, FALSE, b))
        /\ Pmaddwd(a, b) = Phadd(4, lo, hi)
        /\ Pmulhrs(a, b) = LET round(p) == Even(4, 2, ShiftImm(4, 4, 1,
                                               Padd(4, one, ShiftImm(4, 4, Bits(2) - 2, p))))
                           IN  Pack(4, TRUE, round(lo), round(hi))
        /\ Blend(4, 5, Zero, Pmuludq(a, b)) = Blend(4, 5, Zero, Pmull(4, a, b))
        /\ Pmuldq(a, b) =
             LET if(s, x) == Even(2, 4, Pand(Pcmpgt(4, Zero, s), x))
             IN  Psub(8, Pmuludq(a, b), ShiftImm(6, 8, Bits(4), Padd(8, if(a, b), if(b, a))))
        /\ Pmaddubsw(a, b) = Padds(2, Pmull(2, Even(2, 1, a), Even(4, 1, b)),
                                      Pmull(2, Odd(2, 1, a), Odd(4, 1, b)))

PairsAgree(a, b) ==
    LET even == Pack(4, TRUE, Even(4, 2, a), Even(4, 2, b))
        odd  == Pack(4, TRUE, Odd(4, 2, a), Odd(4, 2, b))
    IN  /\ Phadd(2, a, b) = Padd(2, even, odd)
        /\ Phsub(2, a, b) = Psub(2, even, odd)
        /\ Phadds(a, b) = Padds(2, even, odd)
        /\ Phsubs(a, b) = Psubs(2, even, odd)
        /\ Phadd(4, a, b) = Padd(4, Shufps(136, a, b), Shufps(221, a, b))
        /\ Phsub(4, a, b) = Psub(4, Shufps(136, a, b), Shufps(221, a, b))

ShiftsAgree(a, b) ==
    /\ \A k \in {2, 4, 8}, c \in {0, 1, 3, 4, 7, 8, 15, 16, 20} :
          /\ ShiftReg(FALSE, TRUE, k, c, a)  = ShiftImm(6, k, c, a)
          /\ ShiftReg(FALSE, FALSE, k, c, a) = ShiftImm(2, k, c, a)
          /\ k < 8 => /\ ShiftReg(TRUE, FALSE, k, c, a) = ShiftImm(4, k, c, a)
                      /\ ShiftImm(4, k, c, a) =
                            LET s == Pcmpgt(k, Zero, a) IN Pxor(s, ShiftImm(2, k, c, Pxor(s, a)))
    /\ \A c \in 0 .. 16 : /\ ByteShift(FALSE, c, a) = Palignr(c, Zero, a)
                          /\ ByteShift(TRUE, c, a) = Palignr(16 - c, a, Zero)
                          /\ Palignr(c, a, b) = Por(ByteShift(FALSE, c, b), ByteShift(TRUE, 16 - c, a))

ShufflesAgree(imm, a, b) ==
    LET swap(x) == Shufpd(1, x, x)
    IN  /\ Pshufd(imm, b) = Pshufb(b, [n \in At |-> 4 * Sel(imm, n \div 4) + (n % 4)])
        /\ Pshufd(imm, b) = Shufps(imm, b, b)
        /\ Shufps(imm, a, b) = Unpack(8, FALSE, Pshufd(imm, a), Pshufd(imm \div 16, b))
        /\ Pshufhw(imm, b) = swap(Pshuflw(imm, swap(b)))
        /\ Pshuflw(imm, b) = Pshufb(b, [n \in At |-> IF n < 8 THEN 2 * Sel(imm, n \div 2) + (n % 2) ELSE n])
        /\ Pshufb(b, [n \in At |-> IF n < 8 THEN n + 8 ELSE NoByte]) = High(b)

BitsAgree(a, b) ==
    /\ Por(a, b) = Pxor(Pxor(a, b), Pand(a, b))
    /\ Pandn(a, b) = Pxor(b, Pand(a, b))
    /\ Ptest(a, a).zf <=> a = Zero
    /\ Ptest(a, b).cf <=> Por(a, b) = a
    /\ Ptest(a, b).zf <=> Por(a, b) = Pxor(a, b)
-----------------------------------------------------------------------------
(* Floating point: the predicates come in opposite pairs; the compares into *)
(* the integer flags, those into the x87's, and the minima agree with them. *)
ComparesAgree(x, y) ==
    LET f == Comi(x, y)
        s == Fcom(x, y)
    IN  /\ \A imm \in 0 .. 3 : Compare(imm + 4, x, y) = ~Compare(imm, x, y)
        /\ Compare(6, x, y) = (Compare(3, x, y) \/ Compare(1, y, x))
        /\ Compare(2, x, y) = (Compare(1, x, y) \/ Compare(0, x, y))
        /\ f.pf = Compare(3, x, y)
        /\ f.cf = ~Compare(5, x, y) \/ f.pf
        /\ f.zf = Compare(0, x, y) \/ f.pf
        /\ s = [c3 |-> f.zf, c2 |-> f.pf, c0 |-> f.cf]
        /\ Fmin(x, y) = IF Compare(1, x, y) THEN x ELSE y
        /\ Fmax(x, y) = IF Compare(6, x, y) /\ ~f.pf THEN x ELSE y
        /\ Lanewise(1, Fmin, << x, y >>, << y, x >>)[1] = x
        /\ Lanewise(3, Fmin, << x, y >>, << y, x >>) = << Fmin(x, y), Fmin(y, x) >>

RoundsRight(v) == ~IsNaN(v) =>
    LET r(rc) == Round(rc, v)
    IN  /\ \A rc \in 0 .. 3 : r(rc) % One = 0 /\ Round(rc, r(rc)) = r(rc) /\ AbsOf(r(rc) - v) < One
        /\ r(1) <= v /\ v <= r(2)
        /\ AbsOf(r(3)) <= AbsOf(v)
        /\ 2 * AbsOf(r(0) - v) <= One
        /\ r(0) = -Round(0, -v) /\ r(2) = -Round(1, -v)
        /\ 2 * AbsOf(r(0) - v) = One => (r(0) \div One) % 2 = 0
        /\ ToInt(v) = IntMin \/ ToInt(v) * One = r(3)
        /\ (ToInt(v) = IntMin) = (v > (-IntMin - 1) * One \/ r(3) <= IntMin * One)
-----------------------------------------------------------------------------
(* AES-128 as a program does it with these instructions.                    *)

NextKey(k, t) ==      \* word w of the next round key from its word w - 1
    Value([n \in At |-> FoldFunction(ByteXor, t[12 + (n % 4)], [i \in 0 .. n \div 4 |-> k[4 * i + (n % 4)]])])
Rcon == << 1, 2, 4, 8, 16, 32, 64, 128, 27, 54 >>

(* Round r of the encryption, the tenth of which mixes no columns.          *)
AesRound(s) ==
    LET r   == s.round + 1
        key == NextKey(s.key, AesKeygen(s.key, Rcon[r]))
    IN  [s EXCEPT !.round = r, !.key = key,
                  !.block = IF r = 10 THEN AesEncLast(s.block, key) ELSE AesEnc(s.block, key)]

(* Each instruction is undone by its inverse, with the key it was given,    *)
(* the middle ones with the key AESIMC makes of it.                         *)
AesInverse(block, key) ==
    /\ AesDecLast(XorBytes(AesEncLast(block, key), key), Zero) = block
    /\ AesDec(XorBytes(AesEncLast(block, key), key), AesImc(key)) = AesImc(XorBytes(block, key))
    /\ AesImc(XorBytes(AesEnc(block, key), key)) = AesEncLast(block, Zero)

(* A product of polynomials over GF(2), coefficient by coefficient.         *)
ClmulExact(n, a, b) ==
    LET p == Clmul(n, a, b)
        product == p.hi * 2^n + p.lo
    IN  \A k \in 0 .. 2 * n - 1 :
           Nth(product, k) = Cardinality({ i \in 0 .. n - 1 : k - i \in 0 .. n - 1
                                             /\ Nth(a, i) = 1 /\ Nth(b, k - i) = 1 }) % 2

-----------------------------------------------------------------------------
(* The samples.                                                            *)

Init == sample \in Samples /\ X87Init
Next == \/ sample.kind = "x87" /\ X87Next /\ UNCHANGED sample
        \/ sample.kind = "aes" /\ sample.round < 10 /\ sample' = AesRound(sample) /\ UNCHANGED x87vars
Spec == Init /\ [][Next]_<< sample, x87vars >>

Fits(v)   == v \in -(Size \div 2) .. (Size \div 2) - 1
Carry01   == {0, 1}
-----------------------------------------------------------------------------
(* The ALU.                                                                 *)

MulExact(a, b) ==
    /\ Wide(MulU(a, b)) = a * b
    /\ Signed2(MulS(a, b)) = Signed(a) * Signed(b)
    /\ Mul(a, b).over <=> a * b >= Size
    /\ Imul(a, b).over <=> ~Fits(Signed(a) * Signed(b))
    /\ Overflow(a, b) <=> Imul(a, b).over

(* A quotient that does not fit traps; one that does satisfies Euclid.      *)
DivExact(hi, lo, d) ==
    LET n == Pair(hi, lo)
        u == Div(n, d)
    IN  /\ u.trap <=> d = 0 \/ Wide(n) >= Size * d
        /\ ~u.trap => Wide(n) = u.q * d + u.r /\ u.r < d

(* Signed division truncates and the remainder follows the dividend.  The   *)
(* 64-bit form lets a negative quotient below the range through as long as  *)
(* its magnitude fits; of that, nothing is claimed.                         *)
IdivExact(hi, lo, d) ==
    LET n == Pair(hi, lo)
        q == Quot(Signed2(n), Signed(d))
        right(u) == Signed(u.q) = q /\ Signed(u.r) = Signed2(n) - q * Signed(d)
        w == Idiv(n, d)
        s == IdivNarrow(n, d)
    IN  IF d = 0 THEN w.trap /\ s.trap
        ELSE /\ s.trap <=> ~Fits(q)
             /\ ~s.trap => right(s)
             /\ w.trap <=> q >= Size \div 2 \/ Magnitude(q) >= Size
             /\ Fits(q) => right(w)

SumExact(a, b, c) ==
    LET add == FlagsAdd(a, b, c, (a + b + c) % Size)
        sub == FlagsSub(a, b, c, (a - b - c) % Size)
    IN  /\ add.cf <=> a + b + c >= Size
        /\ add.of <=> ~Fits(Signed(a) + Signed(b) + c)
        /\ sub.cf <=> a < b + c
        /\ sub.of <=> ~Fits(Signed(a) - Signed(b) - c)

CompareExact(a, b) ==
    LET f == AluFlags("cmp", a, b)
    IN  /\ Cond(2, f) <=> a < b
        /\ Cond(6, f) <=> a <= b
        /\ Cond(12, f) <=> Signed(a) < Signed(b)
        /\ Cond(14, f) <=> Signed(a) <= Signed(b)
        /\ Cond(4, f) <=> a = b

(* CF is the last bit shifted out; SAR's is not claimed for counts as wide  *)
(* as the operand, where the interpreter takes the bit below the sign.  A   *)
(* shift by one says in OF whether the sign has changed; one by none        *)
(* leaves every flag.                                                       *)
ShiftExact(a, n) ==
    /\ ShiftValue("shl", a, n) = (a * 2^n) % Size
    /\ ShiftValue("shr", a, n) = a \div 2^n
    /\ ShiftValue("sar", a, n) = (Signed(a) \div 2^n) % Size
    /\ n > 0 => /\ ShiftCarry("shl", a, n) <=> ((a * 2^n) \div Size) % 2 = 1
                /\ ShiftCarry("shr", a, n) <=> (a \div 2^(n - 1)) % 2 = 1
                /\ n < Width => (ShiftCarry("sar", a, n) <=> (Signed(a) \div 2^(n - 1)) % 2 = 1)
    /\ \A fn \in Shifts, before \in {AluFlags("cmp", 0, 1), AluFlags("cmp", a, a)} :
          LET f == ShiftFlags(before, fn, a, n)
              v == ShiftValue(fn, a, n)
          IN  /\ n = 0 => f = before
              /\ n = 1 => (f.of <=> Negative(a) # Negative(v))
              /\ n > 0 => (f.zf <=> v = 0) /\ (f.sf <=> Signed(v) < 0)

(* Rotating back gives operand and carry back.                              *)
RotateBack(a, n, carry) ==
    LET f == [AluFlags("and", a, a) EXCEPT !.cf = carry]
        back(there, home) == LET v == RotateValue(f, there, a, n)
                                 g == RotateFlags(f, there, a, n)
                             IN  << RotateValue(g, home, v, n), RotateFlags(g, home, v, n).cf >>
    IN  /\ back("rol", "ror")[1] = a
        /\ n \in 1 .. Width => back("rcl", "rcr") = << a, carry >>

DoubleShiftExact(a, b, n) ==
    LET f == AluFlags("and", a, a)
    IN  n \in 1 .. Width - 1 =>
            /\ DoubleShift(TRUE, a, b, n) = (((a * Size + b) * 2^n) \div Size) % Size
            /\ DoubleShift(FALSE, a, b, n) = ((b * Size + a) \div 2^n) % Size
            /\ DoubleShiftFlags(f, TRUE, a, b, n).cf <=> ((a * 2^n) \div Size) % 2 = 1
            /\ DoubleShiftFlags(f, FALSE, a, b, n).cf <=> (a \div 2^(n - 1)) % 2 = 1

ScanExact(a) == a # 0 => /\ a % 2^BitScan(TRUE, a) = 0 /\ Bit(a, BitScan(TRUE, a)) = 1
                         /\ a \div 2^BitScan(FALSE, a) = 1

(* Memory is one string of bits, and the bit tested is the one the offset   *)
(* names, whatever word it is in and on whichever side.                     *)
BitStringExact(offset, mem) ==
    LET lowest == Min(DOMAIN mem)
        whole(m) == FoldFunction(+, 0, [w \in DOMAIN m |-> m[w] * Size^(w - lowest)])
        at  == Signed(offset) - lowest * Width
        bit == (whole(mem) \div 2^at) % 2
        is(op, now) == LET t == BitTest(op, mem, offset)
                       IN  t.cf = (bit = 1) /\ whole(t.mem) = whole(mem) + (now - bit) * 2^at
    IN  is("bt", bit) /\ is("bts", 1) /\ is("btr", 0) /\ is("btc", 1 - bit)

(* A lost CMPXCHG tells what was there, so trying again succeeds; XADD      *)
(* hands the old value out.                                                 *)
ExchangeExact(acc, dst, src) ==
    LET c == CmpXchg(acc, dst, src)
    IN  /\ c.flags.zf <=> acc = dst
        /\ c.flags.zf => c.dst = src
        /\ ~c.flags.zf => c.dst = dst /\ CmpXchg(c.acc, c.dst, src).dst = src
        /\ Xadd(dst, src) = [dst |-> Result("add", dst, src), src |-> dst]
-----------------------------------------------------------------------------
(* Strings.  s is what the instruction starts from.                         *)

(* How many steps a repeated instruction takes, and where they end.         *)
StepsOf(op, rep, down, s) ==
    LET d    == IF down THEN -1 ELSE 1
        left(i) == IF op = "cmps" THEN s.mem[s.si + d * i] ELSE s.ax
        stop == IF op \in Comparing
                THEN { i \in 0 .. s.cx - 1 : (left(i) = s.mem[s.di + d * i]) = (rep = "repne") }
                ELSE {}
    IN  IF stop = {} THEN s.cx ELSE Min(stop) + 1

RepeatExact(op, rep, down, s) ==
    LET d == IF down THEN -1 ELSE 1
        k == StepsOf(op, rep, down, s)
        apart == d * (s.di - s.si)
    IN  \A e \in {DoStringOp(op, rep, down, s)} :
        /\ e.cx = s.cx - k
        /\ e.si = (IF op \in {"movs", "lods", "cmps"} THEN s.si + d * k ELSE s.si)
        /\ e.di = (IF op = "lods" THEN s.di ELSE s.di + d * k)
        /\ op = "movs" =>          \* a copy, or the pattern ahead of it repeated
              e.mem = [i \in DOMAIN s.mem |->
                         LET j == d * (i - s.di)
                         IN  IF j \in 0 .. k - 1
                             THEN s.mem[s.si + d * (IF apart > 0 THEN j % apart ELSE j)]
                             ELSE s.mem[i]]
        /\ op = "stos" => e.mem = [i \in DOMAIN s.mem |-> IF d * (i - s.di) \in 0 .. k - 1
                                                          THEN s.ax ELSE s.mem[i]]
        /\ op \in Comparing =>
              /\ e.mem = s.mem
              /\ e.flags = IF k = 0 THEN s.flags
                           ELSE AluFlags("cmp", IF op = "cmps" THEN s.mem[s.si + d * (k - 1)] ELSE s.ax,
                                                s.mem[s.di + d * (k - 1)])

(* The starts whose accesses stay in memory.                                *)
StringStarts(down, mem) ==
    { s \in [si: DOMAIN mem, di: DOMAIN mem, cx: DOMAIN mem, ax: Range(mem), mem: {mem},
             flags: {AluFlags("cmp", 0, 1)}] :
        \A p \in {s.si, s.di} : s.cx > 0 => (IF down THEN p - (s.cx - 1) ELSE p + (s.cx - 1)) \in DOMAIN mem }

(* Integer instructions compute what they are for: products and quotients   *)
(* over halves, shifts through two registers, bits anywhere in memory,      *)
(* copies that overlap, searches that end on a match or on the count.       *)
IntegerExact ==
    /\ sample.kind = "ints" =>
          /\ MulExact(sample.a, sample.b)
          /\ CompareExact(sample.a, sample.b)
          /\ ScanExact(sample.a)
          /\ \A c \in Carry01 : SumExact(sample.a, sample.b, c)
          /\ \A c \in Values : /\ DivExact(sample.a, sample.b, c)
                               /\ IdivExact(sample.a, sample.b, c)
                               /\ ExchangeExact(sample.a, sample.b, c)
          /\ \A n \in 0 .. 2 * Width : /\ ShiftExact(sample.a, n)
                                       /\ DoubleShiftExact(sample.a, sample.b, n)
                                       /\ \A carry \in BOOLEAN : RotateBack(sample.a, n, carry)
    /\ sample.kind = "bits" => BitStringExact(sample.offset, sample.mem)
    /\ sample.kind = "string" =>
          \A op \in StringOps : \A s \in StringStarts(sample.down, sample.mem) :
              /\ \A rep \in {"rep", "repne"} : RepeatExact(op, rep, sample.down, s)
              /\ s.cx = 1 => DoStringOp(op, "", sample.down, s)
                               = [DoStringOp(op, "rep", sample.down, s) EXCEPT !.cx = 1]
-----------------------------------------------------------------------------
(* Registers.                                                               *)

Aliases(rex, i, size) == IF HighByte(rex, i, size) THEN i - 4 ELSE i

WritesExactly(r, rex, i, size, v) ==
    LET w == RegWrite(r, rex, i, size, v)
        a == Aliases(rex, i, size)
    IN  /\ RegRead(w, rex, i, size) = Cut(size, v)
        /\ \A j \in DOMAIN r \ {a} : w[j] = r[j]
        /\ size = 4 => w[a] < Span(4)
        /\ HighByte(rex, i, size) => /\ Cut(1, w[a]) = Cut(1, r[a])
                                     /\ w[a] \div Span(2) = r[a] \div Span(2)
        /\ size \in {1, 2} /\ a = i => w[a] \div Span(size) = r[a] \div Span(size)

WidensExactly(r, v) ==
    /\ \A from \in {1, 2, 4}, size \in {2, 4, 8} : from < size =>
          /\ Cut(size, Movzx(r, RCX, size, v, from)[RCX]) = Cut(from, v)
          /\ Extend(size, Movsx(r, RCX, size, v, from)[RCX]) = Extend(from, v)
    /\ \A size \in {2, 4, 8} : Extend(size, Cbw(r, size)[RAX]) = Extend(size \div 2, r[RAX])
    /\ \A size \in {2, 4} :
          LET w == Cwd(r, size)
          IN  Extend(2 * size, Cut(size, w[RDX]) * Span(size) + Cut(size, w[RAX])) = Extend(size, r[RAX])
    /\ \A size \in {4, 8} : Bswap(Bswap(r, RAX, size), RAX, size)[RAX] = Cut(size, r[RAX])
    /\ \A taken \in BOOLEAN :
          Cmov(r, taken, RAX, 4, v)[RAX] = Cut(4, IF taken THEN v ELSE r[RAX])

SwapsExactly(r) == \A i, j \in {RAX, RCX}, size \in Sizes :
    LET x == Xchg(r, TRUE, i, j, size)
    IN  RegRead(x, TRUE, i, size) = RegRead(r, TRUE, j, size)
        /\ RegRead(x, TRUE, j, size) = RegRead(r, TRUE, i, size)

PairExchanges(r, half, mem) ==
    LET c == CmpxchgPair(r, half, mem)
    IN  ~c.zf => /\ c.mem = mem
                 /\ CmpxchgPair(c.r, half, c.mem) =
                       [r |-> c.r, mem |-> << Cut(half, r[RBX]), Cut(half, r[RCX]) >>, zf |-> TRUE]

AddressExact(r, disp, seg) == \A base, index \in {None, RAX, RCX}, scale \in {1, 2} :
    LET a(addrsize, s) == EffectiveAddress(r, base, index, scale, disp, addrsize, s)
    IN  \A addrsize \in {4, 8} :
           /\ Lea(a(addrsize, seg), seg) = a(addrsize, 0)
           /\ a(4, 0) = Cut(4, a(8, 0))
           /\ RipRelative(r[RAX], disp, 2, seg) = Cut(8, RipRelative(r[RAX], disp, 0, seg) + 2)

(* The number of times LOOP is taken from a count of c.                     *)
LoopExact(r, addrsize) ==
    LET c == RegRead(r, TRUE, RCX, addrsize)
        go[n \in Nat] == IF n = 0 THEN LoopCount(r, addrsize) ELSE LoopCount(go[n - 1], addrsize)
        rounds == IF c = 0 THEN Span(addrsize) ELSE c
    IN  /\ \A n \in 0 .. rounds - 2 : LoopTaken(go[n], addrsize, "loop", FALSE)
        /\ ~LoopTaken(go[rounds - 1], addrsize, "loop", TRUE)
        /\ \A zf \in BOOLEAN, kind \in {"loope", "loopne"} :
              LoopTaken(go[0], addrsize, kind, zf) =>
                  LoopTaken(go[0], addrsize, "loop", zf) /\ zf = (kind = "loope")

FlagImages(f) == /\ Sahf(f, Lahf(f)) = f
                 /\ Sahf(Popf(f), {}) \cap Arithmetics = {}
                 /\ Popf(f) = f \cap Settable

(* What is pushed comes back in the right place, frames unwind.             *)
StackBalanced(m) ==
    /\ Popad(Pushad(m)).r = m.r
    /\ \A i, j \in Names :
          LET e == PopReg(PushReg(m, i), j)
          IN  e.r = [m.r EXCEPT ![j] = m.r[i]]
    /\ \A to \in {1, 2} : Ret(Call(m, to), 0).rip = m.rip /\ Ret(Call(m, to), 0).r = m.r
    /\ \A k \in 0 .. 2 :
          /\ Leave(Enter(m, k)).r = m.r
          /\ Ret(Push(Push(m, m.rip), 5), k) = [Shift(Push(Push(m, m.rip), 5), 1 + k) EXCEPT !.rip = 5]
    /\ \A at \in DOMAIN m.mem :
          at # Shift(m, -1).r[RSP] => CallMem(m, at).rip = m.mem[at]

(* Registers have one value under all their names, and the stack gives back *)
(* what it was given.                                                       *)
RegistersCohere ==
    /\ sample.kind = "regs" =>
          LET r == [i \in Names |-> IF i % 2 = 0 THEN sample.x ELSE sample.y]
          IN  /\ \A rex \in BOOLEAN, i \in Names, size \in Sizes : WritesExactly(r, rex, i, size, sample.y)
              /\ WidensExactly(r, sample.y)
              /\ SwapsExactly(r)
              /\ \A half \in {4, 8} : PairExchanges(r, half, << Cut(half, sample.x), Cut(half, sample.y) >>)
              /\ \A seg \in {0, 3}, disp \in {-1, 0, 2} : AddressExact(r, disp, seg)
              /\ LoopExact(r, 4)
    /\ sample.kind = "flags" => FlagImages(sample.f)
    /\ sample.kind = "stack" => StackBalanced(sample.m)
-----------------------------------------------------------------------------
(* The packed instructions agree with one another, floating-point compares  *)
(* and roundings with theirs, and AES built from its instructions gives the *)
(* standard's ciphertext and takes it back.                                 *)
PackedAgree ==
    /\ sample.kind = "packed" =>
          LET a == sample.a
              b == sample.b
          IN  /\ MovesAgree(a, b) /\ WidthsAgree(a, b) /\ OrderAgrees(a, b) /\ ProductsAgree(a, b)
              /\ PairsAgree(a, b) /\ ShiftsAgree(a, b) /\ BitsAgree(a, b)
              /\ \A imm \in {0, 27, 78, 177, 201} : ShufflesAgree(imm, a, b)
    /\ sample.kind = "float" => ComparesAgree(sample.x, sample.y) /\ RoundsRight(sample.x)
    /\ sample.kind = "clmul" => ClmulExact(4, sample.a, sample.b)
    /\ sample.kind = "aes" =>
          /\ sample.round = 10 => sample.block = sample.cipher
          /\ AesInverse(sample.block, sample.key)
===============================================================================
