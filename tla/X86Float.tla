------------------------------- MODULE X86Float -------------------------------
(***************************************************************************)
(* Where floating-point numbers become something else (sse.cpp, x87.cpp,   *)
(* cpu.h): comparisons, rounding, conversion to integers; and the AES and  *)
(* carry-less arithmetic on the same registers.  A number is a count of    *)
(* quarters, or NaN; sums, products and the rest are the host's own.       *)
(***************************************************************************)
EXTENDS Integers, Functions, TLC

CONSTANTS NaN, IntBits, Sbox

\* What is taken for granted of them.
FloatAssumption ==
    /\ IntBits \in Nat \ {0}
    /\ Sbox \in [0 .. 255 -> 0 .. 255] /\ IsInjective(Sbox)

IsNaN(v)   == v = NaN
One        == 4
Unord(x, y)  == IsNaN(x) \/ IsNaN(y)
Below(x, y)  == ~Unord(x, y) /\ x < y          \* the host's <, ==, false of a NaN
Equals(x, y) == ~Unord(x, y) /\ x = y

Compare(imm, x, y) ==
    CASE imm = 0 -> Equals(x, y)
      [] imm = 1 -> Below(x, y)
      [] imm = 2 -> Below(x, y) \/ Equals(x, y)
      [] imm = 3 -> Unord(x, y)
      [] imm = 4 -> Unord(x, y) \/ ~Equals(x, y)
      [] imm = 5 -> Unord(x, y) \/ Below(y, x) \/ Equals(x, y)
      [] imm = 6 -> Unord(x, y) \/ Below(y, x)
      [] imm = 7 -> ~Unord(x, y)

(* UCOMIS and COMIS, FUCOMI and FCOMI: into the integer flags.              *)
Comi(x, y) == [zf |-> Unord(x, y) \/ Equals(x, y), pf |-> Unord(x, y),
               cf |-> Unord(x, y) \/ Below(x, y)]

(* set_compare: FCOM and FTST, into C3, C2 and C0, which FNSTSW and SAHF    *)
(* take to ZF, PF and CF.                                                   *)
Fcom(x, y) == CASE Unord(x, y)  -> [c3 |-> TRUE,  c2 |-> TRUE,  c0 |-> TRUE]
                [] Below(y, x)  -> [c3 |-> FALSE, c2 |-> FALSE, c0 |-> FALSE]
                [] Below(x, y)  -> [c3 |-> FALSE, c2 |-> FALSE, c0 |-> TRUE]
                [] Equals(x, y) -> [c3 |-> TRUE,  c2 |-> FALSE, c0 |-> FALSE]

(* MIN and MAX: a tie and a NaN give the source.                            *)
Fmin(x, y) == IF Below(x, y) THEN x ELSE y
Fmax(x, y) == IF Below(y, x) THEN x ELSE y

(* The scalar and the packed forms: the first n lanes of the destination    *)
(* are combined with the source's, the others stay.                         *)
Lanewise(n, Op(_, _), dst, src) == [i \in DOMAIN dst |-> IF i < n THEN Op(dst[i], src[i]) ELSE dst[i]]

(* round_by, round_by_mxcsr: the RC field.                                  *)
Floor(v)   == (v \div One) * One
Ceil(v)    == -Floor(-v)
Nearest(v) == LET f == Floor(v)
                  even == (f \div One) % 2 = 0
              IN  IF v - f > 2 \/ (v - f = 2 /\ ~even) THEN f + One ELSE f
Round(rc, v) ==
    IF IsNaN(v) THEN v
    ELSE CASE rc = 0 -> Nearest(v)
           [] rc = 1 -> Floor(v)
           [] rc = 2 -> Ceil(v)
           [] rc = 3 -> IF v < 0 THEN Ceil(v) ELSE Floor(v)

(* to_int32_x86 and its kin: what does not fit is the most negative value.  *)
IntMin   == -(2^(IntBits - 1))
ToInt(v) == IF IsNaN(v) \/ v < IntMin * One \/ v > (-IntMin - 1) * One THEN IntMin
            ELSE (IF v < 0 THEN Ceil(v) ELSE Floor(v)) \div One
-----------------------------------------------------------------------------
(* AES.  Byte 4c + r of a register is row r of column c.  (@@ << >> makes   *)
(* TLC evaluate a function once.)                                           *)

Nth(v, k)   == (v \div 2^k) % 2
ByteXor(x, y) == FoldFunction(+, 0, [k \in 0 .. 7 |-> 2^k * ((Nth(x, k) + Nth(y, k)) % 2)])
XorAll(f)     == FoldFunction(ByteXor, 0, f)

Doubled(v)    == IF v >= 128 THEN ByteXor((2 * v) % 256, 27) ELSE 2 * v
(* aes_gmul, by the bits of b.                                              *)
Gmul(v, b) ==
    LET power[k \in 0 .. 7] == IF k = 0 THEN v ELSE Doubled(power[k - 1])
    IN  XorAll([k \in 0 .. 7 |-> Nth(b, k) * power[k]])

InvSbox == [v \in 0 .. 255 |-> CHOOSE w \in 0 .. 255 : Sbox[w] = v]

SubShift(s, inverse) ==
    [n \in 0 .. 15 |->
        LET row == n % 4
            col == IF inverse THEN ((n \div 4) - row + 4) % 4 ELSE ((n \div 4) + row) % 4
        IN  IF inverse THEN InvSbox[s[4 * col + row]] ELSE Sbox[s[4 * col + row]]] @@ << >>

Circulant(row, s) ==     \* row is the first row of a circulant matrix
    [n \in 0 .. 15 |-> XorAll([j \in 0 .. 3 |-> Gmul(s[4 * (n \div 4) + j], row[(j - n) % 4])])] @@ << >>

MixRow    == [j \in 0 .. 3 |-> << 2, 3, 1, 1 >>[j + 1]]
InvMixRow == [j \in 0 .. 3 |-> << 14, 11, 13, 9 >>[j + 1]]

XorBytes(a, b)     == [n \in 0 .. 15 |-> ByteXor(a[n], b[n])] @@ << >>

AesImc(s)          == Circulant(InvMixRow, s)
AesEnc(d, s)       == XorBytes(Circulant(MixRow, SubShift(d, FALSE)), s)
AesEncLast(d, s)   == XorBytes(SubShift(d, FALSE), s)
AesDec(d, s)       == XorBytes(Circulant(InvMixRow, SubShift(d, TRUE)), s)
AesDecLast(d, s)   == XorBytes(SubShift(d, TRUE), s)

(* AESKEYGENASSIST: the words 1 and 3, substituted, and again rotated.      *)
AesKeygen(s, rcon) ==
    LET sub(w, j) == Sbox[s[4 * w + (j % 4)]]
    IN  << >> @@ [n \in 0 .. 15 |->
            LET w == IF n < 8 THEN 1 ELSE 3
                j == n % 4
            IN  IF (n \div 4) % 2 = 0 THEN sub(w, j)
                ELSE ByteXor(sub(w, j + 1), IF j = 0 THEN rcon ELSE 0)]

(* PCLMULQDQ over n bits: b, shifted, wherever a has a bit; low and high    *)
(* half are kept apart.                                                     *)
XorN(n, x, y) == FoldFunction(+, 0, [k \in 0 .. n - 1 |-> 2^k * ((Nth(x, k) + Nth(y, k)) % 2)])
Clmul(n, a, b) ==
    LET step[i \in 0 .. n] ==
          IF i = 0 THEN [lo |-> 0, hi |-> 0]
          ELSE LET p == step[i - 1]
               IN  IF Nth(a, i - 1) = 0 THEN p
                   ELSE [lo |-> XorN(n, p.lo, (b * 2^(i - 1)) % 2^n),
                         hi |-> XorN(n, p.hi, b \div 2^(n - (i - 1)))]
    IN  step[n]
===============================================================================
