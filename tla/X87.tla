---------------------------------- MODULE X87 ----------------------------------
(***************************************************************************)
(* The x87 register stack (x87.cpp, and FXSAVE and FXRSTOR of sse.cpp):    *)
(* eight registers addressed from a top that moves, beside the stack that  *)
(* the architecture shows to the guest.                                    *)
(*                                                                         *)
(* Numbers are members of a small ring; what matters is which registers an *)
(* instruction combines, in which order, and where the result goes.        *)
(***************************************************************************)
EXTENDS Integers, Sequences

CONSTANTS Slots, Modulus, MaxHeight

\* What is taken for granted of them.
X87Assumption ==
    /\ Slots \in Nat \ {0} /\ Modulus \in Nat \ {0} /\ MaxHeight \in 1 .. Slots

VARIABLES
    fpu,     \* st, st_used, st_top, and the TOP field inside fpu_status (the
             \* condition bits there are X86Float's)
    area,    \* what FXSAVE wrote
    stack    \* the architecture's register stack, top first, and the one in area

x87vars == << fpu, area, stack >>

Numbers  == 0 .. Modulus - 1
FpuRegister == 0 .. Slots - 1
Reset    == [st |-> [r \in FpuRegister |-> 0], used |-> [r \in FpuRegister |-> FALSE],
             top |-> 0, field |-> 0]

Phys(f, i)  == (f.top + i) % Slots
Reg(f, i)   == f.st[Phys(f, i)]
Put(f, i, v) == [f EXCEPT !.st[Phys(f, i)] = v]

FpuPush(f, v) ==
    LET t == (f.top - 1) % Slots
    IN  [f EXCEPT !.st[t] = v, !.used[t] = TRUE, !.top = t]
(* Mutant: the register popped stays in use.                                *)
FpuPop_KeepsTag(f) == [f EXCEPT !.top = (f.top + 1) % Slots]

FpuPop(f)   == [f EXCEPT !.used[f.top] = FALSE, !.top = (f.top + 1) % Slots]
PopIf(b, f) == IF b THEN FpuPop(f) ELSE f

(* The arithmetic functions by their number in the encoding; 5 and 7 are 4  *)
(* and 6 the other way round.  Any function that does not commute does for  *)
(* division.                                                                *)
Arith(fn, x, y) ==
    (CASE fn = 0 -> x + y     [] fn = 1 -> x * y
       [] fn = 4 -> x - y     [] fn = 5 -> y - x
       [] fn = 6 -> x + 2 * y [] fn = 7 -> y + 2 * x) % Modulus
Arithmetic == {0, 1, 4, 5, 6, 7}
(* The reversed encodings swap meaning when ST(i) is the destination.       *)
Reversed(fn) == CASE fn = 4 -> 5 [] fn = 5 -> 4 [] fn = 6 -> 7 [] fn = 7 -> 6 [] OTHER -> fn
-----------------------------------------------------------------------------
Height == Len(stack.now)
ST    == 0 .. Height - 1

X87Init == fpu = Reset /\ area = << >> /\ stack = [now |-> << >>, saved |-> << >>]

Becomes(f, s) == fpu' = f /\ stack' = [stack EXCEPT !.now = s] /\ UNCHANGED area
Top1          == Head(stack.now)
Rest          == Tail(stack.now)

(* FLD of a number in memory, FILD, FLD1 and the other constants.           *)
Fld(v) == Height < MaxHeight /\ Becomes(FpuPush(fpu, v), << v >> \o stack.now)

FldSt(i) == Height < MaxHeight /\ Becomes(FpuPush(fpu, Reg(fpu, i)), << stack.now[i + 1] >> \o stack.now)

(* FST and FSTP to memory, FISTP, FISTTP.                                   *)
Fst(pops) == Height > 0 /\ Becomes(PopIf(pops, fpu), IF pops THEN Rest ELSE stack.now)

(* D8, and DA to DE with a number y from memory.                            *)
ToTop(fn, i)    == Becomes(Put(fpu, 0, Arith(fn, Reg(fpu, 0), Reg(fpu, i))),
                           << Arith(fn, Top1, stack.now[i + 1]) >> \o Rest)
ToTopMem(fn, y) == Height > 0 /\ Becomes(Put(fpu, 0, Arith(fn, Reg(fpu, 0), y)),
                                        << Arith(fn, Top1, y) >> \o Rest)

(* DC and DE: the instruction numbered fn makes ST(i) fn-reversed of it.    *)
ToReg(fn, i, pops) ==
    LET f == PopIf(pops, Put(fpu, i, Arith(Reversed(fn), Reg(fpu, i), Reg(fpu, 0))))
        s == [stack.now EXCEPT ![i + 1] = Arith(fn, Top1, stack.now[i + 1])]
    IN  Becomes(f, IF pops THEN Tail(s) ELSE s)

(* One operand at the top replaced (FCHS, FSQRT...); two, popping (FYL2X,   *)
(* FPATAN); one replaced and one pushed (FPTAN, FSINCOS).                   *)
Unary  == Height > 0 /\ Becomes(Put(fpu, 0, Arith(5, Reg(fpu, 0), 0)), << Arith(5, Top1, 0) >> \o Rest)
Binary == /\ Height > 1
          /\ Becomes(Put(FpuPop(fpu), 0, Arith(6, Reg(FpuPop(fpu), 0), Reg(fpu, 0))),
                     << Arith(6, Head(Rest), Top1) >> \o Tail(Rest))
Spread == /\ Height \in 1 .. MaxHeight - 1
          /\ Becomes(FpuPush(Put(fpu, 0, Arith(0, Reg(fpu, 0), 1)), 1),
                     << 1, Arith(0, Top1, 1) >> \o Rest)

Fxch(i) == Becomes(Put(Put(fpu, 0, Reg(fpu, i)), i, Reg(fpu, 0)),
                   [stack.now EXCEPT ![1] = stack.now[i + 1], ![i + 1] = Top1])

FstReg(i, pops) == Becomes(PopIf(pops, Put(fpu, i, Reg(fpu, 0))),
                           LET s == [stack.now EXCEPT ![i + 1] = Top1] IN IF pops THEN Tail(s) ELSE s)

FcmovReg(i) == Becomes(Put(fpu, 0, Reg(fpu, i)), << stack.now[i + 1] >> \o Rest)

(* FCOMP, FCOMPP and the unordered ones; FCOM pops nothing.                 *)
Fcomp  == Height > 0 /\ Becomes(FpuPop(fpu), Rest)
Fcompp == Height > 1 /\ Becomes(FpuPop(FpuPop(fpu)), Tail(Rest))

(* FFREE touches the tag only; here of the deepest register in use.         *)
Ffree  == /\ Height > 0
          /\ Becomes([fpu EXCEPT !.used[Phys(fpu, Height - 1)] = FALSE], SubSeq(stack.now, 1, Height - 1))
Fninit == Becomes(Reset, << >>)
Fnclex == Becomes([fpu EXCEPT !.field = 0], stack.now)

(* FXSAVE masks the TOP field out of fpu_status before it puts the top      *)
(* there; FXRSTOR keeps the word as it finds it.                            *)
Fxsave  == /\ area' = [fpu EXCEPT !.field = fpu.top]
           /\ stack' = [stack EXCEPT !.saved = stack.now]
           /\ UNCHANGED fpu
Fxrstor == /\ area # << >>
           /\ fpu' = [area EXCEPT !.top = area.field]
           /\ stack' = [stack EXCEPT !.now = stack.saved]
           /\ UNCHANGED area

X87Next ==
    \/ \E v \in Numbers : Fld(v)
    \/ \E i \in ST : \/ FldSt(i) \/ Fxch(i) \/ FcmovReg(i)
                     \/ \E pops \in BOOLEAN : FstReg(i, pops)
                     \/ \E fn \in Arithmetic : \/ ToTop(fn, i)
                                               \/ \E pops \in BOOLEAN : ToReg(fn, i, pops)
    \/ \E fn \in Arithmetic, y \in Numbers : ToTopMem(fn, y)
    \/ \E pops \in BOOLEAN : Fst(pops)
    \/ Unary \/ Binary \/ Spread \/ Fcomp \/ Fcompp \/ Ffree \/ Fninit \/ Fnclex \/ Fxsave \/ Fxrstor

X87Spec == X87Init /\ [][X87Next]_x87vars
-----------------------------------------------------------------------------
(* Through any sequence of instructions that neither overflows nor reads    *)
(* below the stack, the registers show the guest the architecture's stack,  *)
(* and the tags, which FXSAVE hands out, mark just its registers.           *)
X87IsAStack ==
    /\ \A i \in ST : Reg(fpu, i) = stack.now[i + 1]
    /\ \A r \in FpuRegister : fpu.used[r] = (\E i \in ST : Phys(fpu, i) = r)

(* FNSTSW: the TOP field that the guest reads is the top.  The code puts    *)
(* the top into a word that may hold one already.                           *)
OrBits(x, y) == LET bit(v, k) == (v \div 2^k) % 2
                    or(k) == IF bit(x, k) + bit(y, k) > 0 THEN 2^k ELSE 0
                IN  or(0) + or(1) + or(2)
StatusTellsTop == OrBits(fpu.field, fpu.top) = fpu.top
===============================================================================
