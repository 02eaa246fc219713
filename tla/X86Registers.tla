----------------------------- MODULE X86Registers -----------------------------
(***************************************************************************)
(* Registers of several widths, the addresses they make, and the stack     *)
(* (cpu.h, cpu.cpp).                                                       *)
(*                                                                         *)
(* A register is 8 bytes of Unit bits, of which an instruction names the   *)
(* lowest 1, 2, 4 or 8; without a REX prefix the names 4 to 7 of one byte  *)
(* stand for the second byte of registers 0 to 3.                          *)
(***************************************************************************)
EXTENDS Integers, Sequences, SequencesExt, FiniteSets

CONSTANT Unit

\* What is taken for granted of them.
UnitAssumption == Unit \in Nat \ {0}

Span(size)    == 2^(Unit * size)
Word          == 0 .. Span(8) - 1
Cut(size, v)  == v % Span(size)
Extend(size, v) ==                      \* sign_ext
    LET w == Cut(size, v) IN IF w >= Span(size) \div 2 THEN w - Span(size) ELSE w
Byte2(v)      == (v \div Span(1)) % Span(1)
RAX == 0
RCX == 1
RDX == 2
RBX == 3
RSP == 4
RBP == 5
RDI == 7
Names == RAX .. RDI
Sizes == {1, 2, 4, 8}

HighByte(rex, i, size) == size = 1 /\ ~rex /\ i \in 4 .. 7

RegRead(r, rex, i, size) ==
    IF HighByte(rex, i, size) THEN Byte2(r[i - 4]) ELSE Cut(size, r[i])

(* A write of 4 bytes clears the upper half; of 1 or 2, keeps the rest.     *)
(* Mutant: a write of 4 bytes keeps the upper half too.                     *)
RegWrite_Keeps4(r, rex, i, size, v) ==
    IF HighByte(rex, i, size)
    THEN [r EXCEPT ![i - 4] = @ + (Cut(1, v) - Byte2(@)) * Span(1)]
    ELSE [r EXCEPT ![i] = @ - Cut(size, @) + Cut(size, v)]

RegWrite(r, rex, i, size, v) ==
    IF HighByte(rex, i, size)
    THEN [r EXCEPT ![i - 4] = @ + (Cut(1, v) - Byte2(@)) * Span(1)]
    ELSE [r EXCEPT ![i] = IF size = 4 THEN Cut(4, v) ELSE @ - Cut(size, @) + Cut(size, v)]

(* MOVZX, MOVSX and MOVSXD; CBW and its kin; CWD and its kin; BSWAP.        *)
Movzx(r, i, size, v, from) == RegWrite(r, TRUE, i, size, Cut(from, v))
Movsx(r, i, size, v, from) == RegWrite(r, TRUE, i, size, Extend(from, v))
Cbw(r, size) == RegWrite(r, TRUE, RAX, size, Extend(size \div 2, r[RAX]))
Cwd(r, size) == RegWrite(r, TRUE, RDX, size, IF Extend(size, r[RAX]) < 0 THEN -1 ELSE 0)
Bswap(r, i, size) ==
    LET byte(k) == (r[i] \div Span(k)) % Span(1)
    IN  RegWrite(r, TRUE, i, size,
                 FoldLeft(LAMBDA v, k : v * Span(1) + byte(k - 1), 0, [k \in 1 .. size |-> k]))

(* XCHG; CMOVcc, which writes a 4-byte destination even when it does not    *)
(* move; XADD.                                                              *)
Xchg(r, rex, i, j, size) ==
    RegWrite(RegWrite(r, rex, i, size, RegRead(r, rex, j, size)),
             rex, j, size, RegRead(r, rex, i, size))
Cmov(r, taken, i, size, v) ==
    IF taken THEN RegWrite(r, TRUE, i, size, v)
    ELSE IF size = 4 THEN RegWrite(r, TRUE, i, 4, RegRead(r, TRUE, i, 4)) ELSE r

(* CMPXCHG8B and 16B: half is 4 or 8, mem the operand as (low, high).       *)
CmpxchgPair(r, half, mem) ==
    IF mem = << Cut(half, r[RAX]), Cut(half, r[RDX]) >>
    THEN [r |-> r, mem |-> << Cut(half, r[RBX]), Cut(half, r[RCX]) >>, zf |-> TRUE]
    ELSE [r |-> RegWrite(RegWrite(r, TRUE, RAX, half, mem[1]), TRUE, RDX, half, mem[2]),
          mem |-> mem, zf |-> FALSE]
-----------------------------------------------------------------------------
(* decode_modrm: base and index are registers or None, disp is signed.  A   *)
(* RIP-relative operand counts from the end of the instruction, of which    *)
(* tail bytes are yet to be fetched.                                        *)
None == -1
EffectiveAddress(r, base, index, scale, disp, addrsize, seg) ==
    LET part(i) == IF i = None THEN 0 ELSE r[i]
        sum     == part(base) + scale * part(index) + disp
    IN  Cut(8, Cut(IF addrsize = 4 THEN 4 ELSE 8, sum) + seg)
RipRelative(rip, disp, tail, seg) == Cut(8, disp + rip + tail + seg)
(* LEA gives the address without the segment.                               *)
Lea(addr, seg) == Cut(8, addr - seg)

(* LAHF and SAHF copy the low byte of the flags, kept here as a set of the  *)
(* names they have; POPF takes those a program may change.                  *)
Arithmetics == {"cf", "pf", "af", "zf", "sf"}
Settable    == Arithmetics \cup {"tf", "df", "of"}
Lahf(f)     == f \cap Arithmetics
Sahf(f, ah) == (f \ Arithmetics) \cup (ah \cap Arithmetics)
Popf(image) == image \cap Settable
-----------------------------------------------------------------------------
(* The stack.  A machine m has the registers, rip, and memory, one word to  *)
(* an address and as many addresses as its domain.                          *)
Cells(m)    == Cardinality(DOMAIN m.mem)
Shift(m, k) == [m EXCEPT !.r[RSP] = (@ + k) % Cells(m)]
Push(m, v)  == LET n == Shift(m, -1) IN [n EXCEPT !.mem[n.r[RSP]] = v]
Popped(m)   == m.mem[m.r[RSP]]
To(m, i, v) == [m EXCEPT !.r[i] = v]

PushReg(m, i) == Push(m, m.r[i])
(* The value is read, the pointer moved, and only then the register written *)
(* - which may be the pointer.                                              *)
PopReg(m, i)  == To(Shift(m, 1), i, Popped(m))

Pushad(m) == FoldLeft(LAMBDA n, i : Push(n, m.r[i - 1]), m, [i \in 1 .. 8 |-> i])

Popad(m)  == FoldLeft(LAMBDA n, i : IF 8 - i = RSP THEN Shift(n, 1) ELSE PopReg(n, 8 - i),
                      m, [i \in 1 .. 8 |-> i])

Jump(m, to) == [m EXCEPT !.rip = to]
Call(m, to) == Jump(Push(m, m.rip), to)
(* CALL with an operand in memory reads it after the push.                  *)
CallMem(m, at) == LET n == Push(m, m.rip) IN Jump(n, n.mem[at])
Ret(m, k)   == Shift(Jump(Shift(m, 1), Popped(m)), k)
Enter(m, k) == LET n == PushReg(m, RBP) IN Shift(To(n, RBP, n.r[RSP]), -k)
Leave(m)    == PopReg(To(m, RSP, m.r[RBP]), RBP)

(* LOOP, LOOPE and LOOPNE: the count, of addrsize bytes, and is it taken?   *)
LoopCount(r, addrsize)    == RegWrite(r, TRUE, RCX, addrsize, RegRead(r, TRUE, RCX, addrsize) - 1)
LoopTaken(r, addrsize, kind, zf) ==
    /\ RegRead(r, TRUE, RCX, addrsize) # 0
    /\ kind = "loope"  => zf
    /\ kind = "loopne" => ~zf
===============================================================================
