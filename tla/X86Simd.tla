-------------------------------- MODULE X86Simd --------------------------------
(***************************************************************************)
(* The packed instructions (sse.cpp) on the 16 bytes of an XMM register.   *)
(* The geometry is the real one (16 bytes, 8 words, 4 double words, 2      *)
(* quad words, little-endian); only the byte is narrower, ByteBits bits    *)
(* instead of 8, since no instruction here but AES depends on it.          *)
(*                                                                         *)
(* An instruction is an operator from the destination a and the source b   *)
(* to the new destination.  Floating-point numbers are X86Float's.         *)
(***************************************************************************)
EXTENDS Integers, Functions, FiniteSetsExt, TLC

CONSTANT ByteBits

\* What is taken for granted of them.
ByteBitsAssumption == ByteBits \in Nat \ {0, 1}

Byte    == 2^ByteBits
At      == 0 .. 15                  \* the bytes of a register
Xmm     == [At -> 0 .. Byte - 1]
Zero    == [n \in At |-> 0]
LastLane(k) == (16 \div k) - 1          \* the last lane of k bytes
Base(k) == Byte^k                   \* a lane of k bytes is below it
Top(k)  == Base(k) \div 2

Lane(x, k, i) == FoldFunction(+, 0, [j \in 0 .. k - 1 |-> x[i * k + j] * Byte^j])
(* TLC keeps a function an expression until it has to be a value; merging   *)
(* it with the empty function makes it one.                                 *)
Value(f)      == f @@ << >>
Lanes(k, f)   == LET v == Value(f) IN Value([n \in At |-> (v[n \div k] \div Byte^(n % k)) % Byte])
Sgn(k, v)     == IF v >= Top(k) THEN v - Base(k) ELSE v
SLane(x, k, i) == Sgn(k, Lane(x, k, i))
Ones(k)       == Base(k) - 1

Each(k, Op(_, _), a, b)  == Lanes(k, [i \in 0 .. LastLane(k) |-> Op(Lane(a, k, i), Lane(b, k, i))])
EachS(k, Op(_, _), a, b) == Lanes(k, [i \in 0 .. LastLane(k) |-> Op(SLane(a, k, i), SLane(b, k, i)) % Base(k)])

Clamp(lo, hi, v) == IF v < lo THEN lo ELSE IF v > hi THEN hi ELSE v
SatU(k, v)       == Clamp(0, Ones(k), v)
SatS(k, v)       == Clamp(-Top(k), Top(k) - 1, v)
Lesser(x, y)     == IF x < y THEN x ELSE y
Greater(x, y)    == IF x > y THEN x ELSE y
AbsOf(v)         == IF v < 0 THEN -v ELSE v
-----------------------------------------------------------------------------
(* Moves between registers, and from memory (the value b) to a register.    *)

Movs(k, a, b)    == [n \in At |-> IF n < k THEN b[n] ELSE a[n]]     \* MOVSS, MOVSD, MOVLPx
MovsLoad(k, b)   == [n \in At |-> IF n < k THEN b[n] ELSE 0]        \* MOVSS, MOVSD, MOVD, MOVQ
Movhlps(a, b)    == [n \in At |-> IF n < 8 THEN b[n + 8] ELSE a[n]]
Movlhps(a, b)    == [n \in At |-> IF n < 8 THEN a[n] ELSE b[n - 8]]
Movddup(b)       == [n \in At |-> b[n % 8]]

(* PUNPCKL and PUNPCKH, UNPCKL and UNPCKH.                                  *)
(* Mutant: the low and the high form are exchanged.                         *)
Unpack_High(k, high, a, b) ==
    LET from == IF high THEN 0 ELSE 8 \div k
    IN  Lanes(k, [i \in 0 .. LastLane(k) |-> Lane(IF i % 2 = 0 THEN a ELSE b, k, from + i \div 2)])

Unpack(k, high, a, b) ==
    LET from == IF high THEN 8 \div k ELSE 0
    IN  Lanes(k, [i \in 0 .. LastLane(k) |-> Lane(IF i % 2 = 0 THEN a ELSE b, k, from + (i \div 2))])

(* PACKSSxx and PACKUSxx: lanes of k bytes to k \div 2, signed lanes in,    *)
(* saturated as signed or unsigned ones.                                    *)
Pack(k, signed, a, b) ==
    LET h == k \div 2
        n == 16 \div k
    IN  Lanes(h, [i \in 0 .. LastLane(h) |->
            LET v == SLane(IF i < n THEN a ELSE b, k, i % n)
            IN  (IF signed THEN SatS(h, v) ELSE SatU(h, v)) % Base(h)])

(* PMOVSX and PMOVZX from lanes of k bytes to lanes of m.                   *)
Widen(k, m, signed, b) ==
    Lanes(m, [i \in 0 .. LastLane(m) |-> (IF signed THEN SLane(b, k, i) ELSE Lane(b, k, i)) % Base(m)])

(* Selectors: four two-bit fields of an immediate.                          *)
Sel(imm, i) == (imm \div 4^i) % 4

Pshufd(imm, b)    == Lanes(4, [i \in 0 .. 3 |-> Lane(b, 4, Sel(imm, i))])
Pshuflw(imm, b)   == Lanes(2, [i \in 0 .. 7 |-> Lane(b, 2, IF i < 4 THEN Sel(imm, i) ELSE i)])
Pshufhw(imm, b)   == Lanes(2, [i \in 0 .. 7 |-> Lane(b, 2, IF i < 4 THEN i ELSE 4 + Sel(imm, i - 4))])
Shufps(imm, a, b) == Lanes(4, [i \in 0 .. 3 |-> Lane(IF i < 2 THEN a ELSE b, 4, Sel(imm, i))])
Shufpd(imm, a, b) == Lanes(8, [i \in 0 .. 1 |-> Lane(IF i = 0 THEN a ELSE b, 8, (imm \div 2^i) % 2)])

(* PSHUFB.  The mask is given decoded: an index, or NoByte where the top    *)
(* bit of its byte is set.                                                  *)
NoByte       == 16
Pshufb(a, m) == [n \in At |-> IF m[n] = NoByte THEN 0 ELSE a[m[n]]]

Palignr(c, a, b) == [n \in At |-> LET j == n + c IN
                       IF j < 16 THEN b[j] ELSE IF j < 32 THEN a[j - 16] ELSE 0]

(* PSLLDQ and PSRLDQ.                                                       *)
ByteShift(left, c, a) ==
    LET s == Lesser(c, 16)
    IN  [n \in At |-> LET j == IF left THEN n - s ELSE n + s
                      IN  IF j \in At THEN a[j] ELSE 0]

Blend(k, imm, a, b) == Lanes(k, [i \in 0 .. LastLane(k) |->
                           Lane(IF (imm \div 2^i) % 2 = 1 THEN b ELSE a, k, i)])
BlendV(k, a, b, m)  == Lanes(k, [i \in 0 .. LastLane(k) |->
                           Lane(IF Lane(m, k, i) >= Top(k) THEN b ELSE a, k, i)])

Pinsr(k, imm, a, v) == Lanes(k, [i \in 0 .. LastLane(k) |-> IF i = imm % (16 \div k) THEN v ELSE Lane(a, k, i)])
Pextr(k, imm, a)    == Lane(a, k, imm % (16 \div k))

(* INSERTPS: a double word of b, put in place, then some zeroed.            *)
Insertps(from, to, zmask, a, b) ==
    Lanes(4, [i \in 0 .. 3 |-> IF (zmask \div 2^i) % 2 = 1 THEN 0
                               ELSE IF i = to THEN Lane(b, 4, from) ELSE Lane(a, 4, i)])
-----------------------------------------------------------------------------
(* Arithmetic.                                                              *)

Padd(k, a, b)   == Each(k, LAMBDA x, y : (x + y) % Base(k), a, b)
Psub(k, a, b)   == Each(k, LAMBDA x, y : (x - y) % Base(k), a, b)
Paddus(k, a, b) == Each(k, LAMBDA x, y : SatU(k, x + y), a, b)
Psubus(k, a, b) == Each(k, LAMBDA x, y : SatU(k, x - y), a, b)
Padds(k, a, b)  == EachS(k, LAMBDA x, y : SatS(k, x + y), a, b)
Psubs(k, a, b)  == EachS(k, LAMBDA x, y : SatS(k, x - y), a, b)
Pavg(k, a, b)   == Each(k, LAMBDA x, y : (x + y + 1) \div 2, a, b)
Pminu(k, a, b)  == Each(k, LAMBDA x, y : Lesser(y, x), a, b)
Pmaxu(k, a, b)  == Each(k, LAMBDA x, y : Greater(y, x), a, b)
Pmins(k, a, b)  == EachS(k, LAMBDA x, y : Lesser(y, x), a, b)
Pmaxs(k, a, b)  == EachS(k, LAMBDA x, y : Greater(y, x), a, b)
Pcmpeq(k, a, b) == Each(k, LAMBDA x, y : IF x = y THEN Ones(k) ELSE 0, a, b)
Pcmpgt(k, a, b) == EachS(k, LAMBDA x, y : IF x > y THEN Ones(k) ELSE 0, a, b)
Pabs(k, b)      == EachS(k, LAMBDA x, y : AbsOf(x), b, b)
Psign(k, a, b)  == EachS(k, LAMBDA x, s : IF s < 0 THEN -x ELSE IF s = 0 THEN 0 ELSE x, a, b)

BitAnd(x, y) == FoldFunction(+, 0, [j \in 0 .. ByteBits - 1 |->
                    2^j * ((x \div 2^j) % 2) * ((y \div 2^j) % 2)])
Pand(a, b)   == [n \in At |-> BitAnd(a[n], b[n])]
Pandn(a, b)  == [n \in At |-> BitAnd(Byte - 1 - a[n], b[n])]
Por(a, b)    == [n \in At |-> a[n] + b[n] - BitAnd(a[n], b[n])]
Pxor(a, b)   == [n \in At |-> a[n] + b[n] - 2 * BitAnd(a[n], b[n])]

Pmull(k, a, b)  == EachS(k, LAMBDA x, y : x * y, a, b)
Pmulhu(a, b)    == Each(2, LAMBDA x, y : (x * y) \div Base(2), a, b)
Pmulh(a, b)     == EachS(2, LAMBDA x, y : (x * y) \div Base(2), a, b)
(* Round to nearest: one more than the top bits that are kept, halved.      *)
Pmulhrs(a, b)   == EachS(2, LAMBDA x, y : (((x * y) \div (Base(2) \div 4)) + 1) \div 2, a, b)
Pmuludq(a, b)   == Lanes(8, [i \in 0 .. 1 |-> (Lane(a, 4, 2 * i) * Lane(b, 4, 2 * i)) % Base(8)])
Pmuldq(a, b)    == Lanes(8, [i \in 0 .. 1 |-> (SLane(a, 4, 2 * i) * SLane(b, 4, 2 * i)) % Base(8)])

(* Pairs of neighbours: within one operand, or of the products of two.      *)
Pairs(k, Op(_, _), a, b) ==
    LET n == 8 \div k
    IN  Lanes(k, [i \in 0 .. LastLane(k) |->
            LET x == IF i < n THEN a ELSE b
                j == 2 * (i % n)
            IN  Op(SLane(x, k, j), SLane(x, k, j + 1)) % Base(k)])
Phadd(k, a, b) == Pairs(k, LAMBDA x, y : x + y, a, b)
Phsub(k, a, b) == Pairs(k, LAMBDA x, y : x - y, a, b)
Phadds(a, b)   == Pairs(2, LAMBDA x, y : SatS(2, x + y), a, b)
Phsubs(a, b)   == Pairs(2, LAMBDA x, y : SatS(2, x - y), a, b)

Pmaddwd(a, b) ==
    Lanes(4, [i \in 0 .. 3 |-> (SLane(a, 2, 2 * i) * SLane(b, 2, 2 * i)
                                + SLane(a, 2, 2 * i + 1) * SLane(b, 2, 2 * i + 1)) % Base(4)])
(* The destination's bytes are unsigned, the source's signed.               *)
Pmaddubsw(a, b) ==
    Lanes(2, [i \in 0 .. 7 |-> SatS(2, Lane(a, 1, 2 * i) * SLane(b, 1, 2 * i)
                                       + Lane(a, 1, 2 * i + 1) * SLane(b, 1, 2 * i + 1)) % Base(2)])
Psadbw(a, b) ==
    Lanes(8, [h \in 0 .. 1 |-> MapThenSumSet(LAMBDA n : AbsOf(a[n] - b[n]), 8 * h .. 8 * h + 7)])

(* PHMINPOSUW: the smallest word and the first place it is found.           *)
Phminposuw(b) ==
    LET best == CHOOSE i \in 0 .. 7 : \A j \in 0 .. 7 :
                    \/ Lane(b, 2, i) < Lane(b, 2, j)
                    \/ Lane(b, 2, i) = Lane(b, 2, j) /\ i <= j
    IN  Lanes(2, [i \in 0 .. 7 |-> IF i = 0 THEN Lane(b, 2, best) ELSE IF i = 1 THEN best ELSE 0])

(* Shifts by an immediate (/2 logical right, /4 arithmetic right, /6 left), *)
(* and by a count in a register; there is no arithmetic shift of quads.     *)
Bits(k) == ByteBits * k

ShiftImm(sub, k, c, a) ==
    Lanes(k, [i \in 0 .. LastLane(k) |->
        CASE sub = 2 -> IF c >= Bits(k) THEN 0 ELSE Lane(a, k, i) \div 2^c
          [] sub = 6 -> IF c >= Bits(k) THEN 0 ELSE (Lane(a, k, i) * 2^c) % Base(k)
          [] sub = 4 -> (SLane(a, k, i) \div 2^(IF c >= Bits(k) THEN Bits(k) - 1 ELSE c)) % Base(k)])

ShiftReg(arith, left, k, c, a) ==
    IF c >= Bits(k)
    THEN Lanes(k, [i \in 0 .. LastLane(k) |-> IF arith /\ SLane(a, k, i) < 0 THEN Ones(k) ELSE 0])
    ELSE Lanes(k, [i \in 0 .. LastLane(k) |->
             IF left  THEN (Lane(a, k, i) * 2^c) % Base(k)
             ELSE IF arith THEN (SLane(a, k, i) \div 2^c) % Base(k) ELSE Lane(a, k, i) \div 2^c])

Mask(k, b)  == { i \in 0 .. LastLane(k) : Lane(b, k, i) >= Top(k) }    \* MOVMSKx, PMOVMSKB
Ptest(a, b) == [zf |-> Pand(b, a) = Zero, cf |-> Pandn(a, b) = Zero]
===============================================================================
