------------------------------ MODULE Translator ------------------------------
(***************************************************************************)
(* The dynamic translator (src/jit): guest instructions are translated in  *)
(* blocks, and the flags an instruction writes are, in the block, skipped, *)
(* computed, recorded for later (cpu.cc_*, "pending"), or folded into the  *)
(* jump that asks for them.  Beside it runs the interpreter, one guest     *)
(* instruction at a time, on a copy of the machine: what translated code   *)
(* leaves behind has to be what the interpreter would have left, which is  *)
(* the comparison jit/verify.cpp makes at run time.                        *)
(*                                                                         *)
(* The guest is a short straight program over two registers x and y and    *)
(* one cell of memory m; a jump that is taken skips one instruction.  What *)
(* the program does not decide is chosen freely: whether a store hits a    *)
(* page with translated code on it (the block is left after the storing    *)
(* instruction), whether an access faults (the engine is left at the       *)
(* instruction), and when the engine is asked to stop (a deadline, a       *)
(* yield), which it does between blocks.                                   *)
(***************************************************************************)
EXTENDS X86Flags, Sequences, FiniteSetsExt

CONSTANTS
    Guests,         \* the programs and the registers they start with
    Pendings,       \* what an earlier block may have left pending
    MaxPlan,        \* instructions in a block at most (48 in the code)
    LeaveAnywhere   \* may a block be left while an old operation is pending?

(* An instruction: op, the function or condition it is about, and whether   *)
(* its destination (for xchg: its first operand) is m rather than x.        *)
Ins == [op: {"alu", "neg", "incdec", "shift", "rotate", "imul", "setcc", "jcc",
             "load", "store", "jmp", "carry", "xchg"},
        fn: AluFns \cup Shifts \cup Rotates \cup {""}, cc: Conds, mem: BOOLEAN]

None     == [kind |-> 0, a |-> 0, b |-> 0]
Machines == [x: Values, y: Values, m: Values, flags: AllFlags, ip: Nat]

\* What is taken for granted of them.
TranslatorAssumption ==
    /\ \A g \in Guests : g.x \in Values /\ g.y \in Values
                           /\ \A i \in DOMAIN g.code : g.code[i] \in Ins
    /\ Pendings \subseteq [kind: 1 .. 5, a: Values, b: Values]
    /\ MaxPlan \in Nat \ {0}
    /\ LeaveAnywhere \in BOOLEAN

VARIABLES
    program,  \* the guest's code
    cpu,      \* the emulated machine: registers, memory, rflags, rip
    cc,       \* the operation whose flags are pending; kind 0: none
    phase,    \* "host", "engine" (between two blocks), "block"
    block,    \* the block being run: its start, plan and ops, the op it is
              \* at, and the temporary its ops share
    machine,  \* the interpreter's copy of the machine
    whole     \* was the block left last run to its end?

vars == << program, cpu, cc, phase, block, machine, whole >>
-----------------------------------------------------------------------------
(* The interpreter.                                                         *)

Dest(ins, s)       == IF ins.mem THEN s.m ELSE s.x
Put(ins, s, v)     == IF ins.mem THEN [s EXCEPT !.m = v] ELSE [s EXCEPT !.x = v]
Skips(ins, s)      == \/ ins.op = "jmp"
                      \/ ins.op = "jcc" /\ Cond(ins.cc, s.flags)

(* What the instruction does to everything but the instruction pointer.     *)
Effect(ins, s) ==
    LET a == Dest(ins, s)
        f == s.flags
        Do(flags, v) == Put(ins, [s EXCEPT !.flags = flags], v)
    IN  CASE ins.op = "alu"    -> Do(AluFlags(ins.fn, a, s.y),
                                     IF ins.fn \in Compares THEN a ELSE Result(ins.fn, a, s.y))
          [] ins.op = "neg"    -> Do(NegFlags(a), (-a) % Size)
          [] ins.op = "carry"  -> Do(CarryFlags(f, ins.fn, a, s.y), CarryResult(f, ins.fn, a, s.y))
          [] ins.op = "incdec" -> Do(IncFlags(f, ins.fn, a), Result(ins.fn, a, 1))
          [] ins.op = "shift"  -> Do(ShiftFlags(f, ins.fn, a, s.y), ShiftValue(ins.fn, a, s.y))
          [] ins.op = "rotate" -> Do(RotateFlags(f, ins.fn, a, s.y), RotateValue(f, ins.fn, a, s.y))
          [] ins.op = "imul"   -> Do(MulFlags(a, s.y), Product(a, s.y))
          [] ins.op = "setcc"  -> Do(f, IF Cond(ins.cc, f) THEN 1 ELSE 0)
          [] ins.op = "load"   -> [s EXCEPT !.x = s.m]
          [] ins.op = "store"  -> [s EXCEPT !.m = s.x]
          [] ins.op = "xchg"   -> Put(ins, [s EXCEPT !.y = a], s.y)
          [] ins.op \in {"jcc", "jmp"} -> s

Step(s) == LET ins == program[s.ip]
           IN  [Effect(ins, s) EXCEPT !.ip = @ + (IF Skips(ins, s) THEN 2 ELSE 1)]

Steps(s, n) == LET run[k \in 0 .. n] == IF k = 0 THEN s ELSE Step(run[k - 1]) IN run[n]
-----------------------------------------------------------------------------
(* Planning a block: which instructions, and how each gets its flags out.   *)

Native(ins)    == ins.op \notin {"carry", "xchg"}
IsTerm(ins)    == ins.op \in {"jcc", "jmp"}
IsCompare(ins) == ins.op = "alu" /\ ins.fn \in Compares
Writes(ins)    == /\ ins.op \in {"alu", "neg", "incdec", "shift", "rotate", "setcc"}
                  /\ ~IsCompare(ins)

(* flag_use: an instruction it does not know to be harmless reads.          *)
WritesAll(ins) == ins.op \in {"alu", "neg"}
Reads(ins)     == ins.op \notin {"alu", "neg", "load", "store", "jmp", "xchg"}

Plan(pc) ==
    LET limit == Min({pc + MaxPlan - 1, Len(program)})
        ends  == {k \in pc .. limit : IsTerm(program[k])} \cup {limit}
    IN  SubSeq(program, pc, Min(ends))

(* The instruction after i that first has to do with flags, if there is one. *)
NextUse(b, i) == {j \in i + 1 .. Len(b) :
                    /\ Reads(b[j]) \/ WritesAll(b[j])
                    /\ \A h \in i + 1 .. j - 1 : ~Reads(b[h]) /\ ~WritesAll(b[h])}

(* Flags are seen by a reader, and by whatever follows the block.           *)
LiveAfter(b, i) == \A j \in NextUse(b, i) : Reads(b[j])

(* Mutant: only the first instruction is asked whether it reads.            *)
LiveIn_First(b) == Reads(b[1])

LiveIn(b) == \E j \in NextUse(b, 0) : Reads(b[j])

ReaderLater(b, i) == \E j \in NextUse(b, i) : Reads(b[j])

(* 0 nobody sees the flags, 1 compute them, 2 record the operation, 3 leave *)
(* it to the closing jump.                                                  *)
Mode(b, i) ==
    CASE ~LiveAfter(b, i)                       -> 0
      [] LiveAfter(b, i) /\ ~WritesAll(b[i])    -> 1
      [] LiveAfter(b, i) /\ WritesAll(b[i]) /\ ~ReaderLater(b, i) -> 2
      [] OTHER -> IF i + 1 = Len(b) /\ b[i + 1].op = "jcc" /\ IsCompare(b[i]) THEN 3 ELSE 1

LastFull(b, i) ==
    /\ WritesAll(b[i]) /\ LiveAfter(b, i)
    /\ \A j \in i + 1 .. Len(b) : ~WritesAll(b[j]) \/ ~LiveAfter(b, j)
-----------------------------------------------------------------------------
(* Emitting it.  An op carries the instruction it belongs to, by its place  *)
(* in the plan, and one flag: kFlagEager on an op that computes, kFlagChk   *)
(* on a store.                                                              *)

Op(kind, i, flag) == [kind |-> kind, i |-> i, flag |-> flag]

AluOp(b, i) ==
    LET mode == Mode(b, i)
        calc == << Op("Alu", i, mode = 1) >>
    IN  CASE mode = 3 \/ (mode = 0 /\ IsCompare(b[i])) -> << >>
          [] mode = 2 -> << Op("CcSet", i, FALSE) >> \o (IF IsCompare(b[i]) THEN << >> ELSE calc)
          [] OTHER    -> calc

(* The op that works the result out, between the load and the store of an   *)
(* instruction whose destination is in memory.                              *)
Middle(b, i) ==
    CASE WritesAll(b[i])    -> AluOp(b, i)
      [] b[i].op = "incdec" -> << Op("IncDec", i, Mode(b, i) = 1) >>
      [] b[i].op = "shift"  -> << Op("Shift", i, Mode(b, i) = 1) >>
      [] b[i].op = "rotate" -> << Op("ShiftSlow", i, FALSE) >>
      [] b[i].op = "imul"   -> << Op("Imul", i, Mode(b, i) = 1) >>
      [] b[i].op = "setcc"  -> << Op("SetFl", i, FALSE) >>
      [] OTHER              -> << >>

Emit(b, i) ==
    LET ins   == b[i]
        load  == << Op("Ld", i, FALSE) >>
        store == << Op("St", i, i # Len(b)) >>     \* flush_check
        jump  == IF i > 1 /\ Mode(b, i - 1) = 3 THEN "JccCmp" ELSE "JccFl"
    IN  CASE ~Native(ins)       -> << Op("Interp", i, FALSE) >>
          [] ins.op = "load"    -> load
          [] ins.op = "store"   -> store
          [] ins.op = "jcc"     -> << Op(jump, i, FALSE) >>
          [] ins.op = "jmp"     -> << Op("Exit", i, FALSE) >>
          [] OTHER -> (IF ins.mem /\ ins.op # "setcc" THEN load ELSE << >>)
                      \o Middle(b, i)
                      \o (IF ins.mem /\ Writes(ins) THEN store ELSE << >>)

Clear(b, i) ==
    IF Native(b[i]) /\ LastFull(b, i) /\ Mode(b, i) = 1 /\ ~LiveIn(b)
    THEN << Op("CcClear", i, FALSE) >> ELSE << >>

Translate(b) ==
    LET n == Len(b)
        ops[i \in 0 .. n] == IF i = 0 THEN << >> ELSE ops[i - 1] \o Emit(b, i) \o Clear(b, i)
    IN  (IF LiveIn(b) THEN << Op("CcMat", 0, FALSE) >> ELSE << >>)
        \o ops[n]
        \o (IF IsTerm(b[n]) THEN << >> ELSE << Op("Exit", n, FALSE) >>)
-----------------------------------------------------------------------------
(* Running it.                                                              *)

TheOp  == block.code[block.at]
TheIns == block.plan[TheOp.i]

(* The destination of instruction i is the temporary when it is in memory.  *)
(* NEG is a SUB from the slot that reads zero.                              *)
Target(i)   == IF block.plan[i].mem THEN block.t ELSE cpu.x
Function(i) == IF block.plan[i].op = "neg" THEN "sub" ELSE block.plan[i].fn
OperandA(i) == IF block.plan[i].op = "neg" THEN 0 ELSE Target(i)
OperandB(i) == IF block.plan[i].op = "neg" THEN Target(i) ELSE cpu.y

(* What rflags would be if they were settled now.                           *)
Settled(s) == IF cc.kind = 0 THEN s.flags ELSE Materialized(cc.kind, cc.a, cc.b)
Flags      == Settled(cpu)

(* Flags were computed in this block while an older operation was pending,  *)
(* and nothing has recorded or cleared one since.                           *)
OldPending ==
    /\ cc.kind # 0
    /\ \E j \in 1 .. block.at :
          /\ block.code[j].kind = "Alu" /\ block.code[j].flag
          /\ \A h \in j + 1 .. block.at : block.code[h].kind # "CcSet"

MayLeave == LeaveAnywhere \/ ~OldPending

(* Out of the block with the machine s, where the interpreter has m.        *)
Out(s, m, where, isWhole) ==
    /\ cpu' = s
    /\ machine' = m
    /\ phase' = where
    /\ whole' = isWhole
    /\ UNCHANGED << program, block >>

(* Leave at the end of instruction i, at the next one.                      *)
Flush(i, s) ==
    /\ MayLeave
    /\ Out([s EXCEPT !.ip = block.start + i], Steps(machine, i), "engine", FALSE)
    /\ UNCHANGED cc

(* The access of instruction i faults: settle, and back to its start.       *)
Fault(i, s, m) ==
    /\ MayLeave
    /\ Out([s EXCEPT !.ip = block.start + i - 1, !.flags = Settled(s)], m, "host", FALSE)
    /\ cc' = None

(* Where the interpreter would be: an instruction has not begun when its    *)
(* load faults, and has set the flags when its store does.                  *)
AtLoad(i)      == Steps(machine, i - 1)
FlagsOnly(i, s) == [s EXCEPT !.flags = Effect(block.plan[i], s).flags]
AtStore(i)     == FlagsOnly(i, AtLoad(i))

(* On to the next op, with the machine s and the temporary t.               *)
Go(s, t) ==
    /\ cpu' = s
    /\ block' = [block EXCEPT !.at = @ + 1, !.t = t]
    /\ UNCHANGED << program, phase, machine, whole >>

(* The result of a computing op goes where the instruction keeps it.        *)
GoResult(s, v) ==
    IF TheIns.mem THEN Go(s, v) ELSE Go([s EXCEPT !.x = v], block.t)

At(kind) == phase = "block" /\ TheOp.kind = kind
-----------------------------------------------------------------------------
Init ==
    /\ \E g \in Guests, f \in {AluFlags("cmp", 1, 0)}, p \in Pendings \cup {None} :
         /\ program = g.code
         /\ cc = p
         /\ cpu = [x |-> g.x, y |-> g.y, m |-> 1, flags |-> f, ip |-> 1]
         /\ machine = [cpu EXCEPT !.flags = IF p.kind = 0 THEN f
                                            ELSE Materialized(p.kind, p.a, p.b)]
    /\ phase = "engine"
    /\ block = [start |-> 1, plan |-> << >>, code |-> << >>, at |-> 1, t |-> 0]
    /\ whole = TRUE

(* lookup, translate and the start of the block.  A block of interpreted    *)
(* instructions alone is a stub: it is not translated and not run here.     *)
Enter ==
    /\ phase # "block"
    /\ cpu.ip <= Len(program)
    /\ LET b == Plan(cpu.ip)
       IN  /\ \E i \in DOMAIN b : Native(b[i])
           /\ block' = [start |-> cpu.ip, plan |-> b, code |-> Translate(b), at |-> 1, t |-> 0]
    /\ phase' = "block"
    /\ UNCHANGED << program, cpu, cc, machine, whole >>

(* The engine stops between two blocks: everything pending is settled.      *)
Leave ==
    /\ phase = "engine"
    /\ phase' = "host"
    /\ cpu' = [cpu EXCEPT !.flags = Flags]
    /\ cc' = None
    /\ UNCHANGED << program, block, machine, whole >>

(* Outside the engine the interpreter itself runs, on the emulated machine. *)
Interpret ==
    /\ phase = "host"
    /\ cpu.ip <= Len(program)
    /\ cpu' = Step(cpu)
    /\ machine' = Step(machine)
    /\ UNCHANGED << program, cc, phase, block, whole >>

CcMat ==
    /\ At("CcMat")
    /\ Go([cpu EXCEPT !.flags = Flags], block.t)
    /\ cc' = None

CcSet ==
    /\ At("CcSet")
    /\ cc' = [kind |-> KindOf(Function(TheOp.i)), a |-> OperandA(TheOp.i), b |-> OperandB(TheOp.i)]
    /\ Go(cpu, block.t)

CcClear ==
    /\ At("CcClear")
    /\ cc' = None
    /\ Go(cpu, block.t)

(* An op that computes v, and the flags f when kFlagEager asks for them.    *)
Compute(v, f) ==
    /\ GoResult(IF TheOp.flag THEN [cpu EXCEPT !.flags = f] ELSE cpu, v)
    /\ UNCHANGED cc

Alu ==
    /\ At("Alu")
    /\ LET fn == Function(TheOp.i)
           a  == OperandA(TheOp.i)
           b  == OperandB(TheOp.i)
       IN  Compute(IF IsCompare(TheIns) THEN a ELSE Result(fn, a, b), EagerFlags(fn, a, b))

IncDec ==
    /\ At("IncDec")
    /\ LET a == Target(TheOp.i)
       IN  Compute(Result(TheIns.fn, a, 1), EagerInc(cpu.flags, TheIns.fn, a))

Shift ==
    /\ At("Shift")
    /\ LET a == Target(TheOp.i)
       IN  Compute(ShiftValue(TheIns.fn, a, cpu.y), ShiftFlags(cpu.flags, TheIns.fn, a, cpu.y))

(* Rotations are the interpreter's own code, flags and all.                 *)
ShiftSlow ==
    /\ At("ShiftSlow")
    /\ LET a == Target(TheOp.i)
       IN  GoResult([cpu EXCEPT !.flags = RotateFlags(cpu.flags, TheIns.fn, a, cpu.y)],
                    RotateValue(cpu.flags, TheIns.fn, a, cpu.y))
    /\ UNCHANGED cc

Imul ==
    /\ At("Imul")
    /\ Compute(Product(cpu.x, cpu.y), MulFlags(cpu.x, cpu.y))

SetFl ==
    /\ At("SetFl")
    /\ GoResult(cpu, IF TestCc(TheIns.cc, cpu.flags) THEN 1 ELSE 0)
    /\ UNCHANGED cc

(* A load goes to the temporary, or for MOV to the register it names.       *)
Ld ==
    /\ At("Ld")
    /\ \/ /\ IF TheIns.op = "load" THEN Go([cpu EXCEPT !.x = cpu.m], block.t) ELSE Go(cpu, cpu.m)
          /\ UNCHANGED cc
       \/ Fault(TheOp.i, cpu, AtLoad(TheOp.i))

St ==
    /\ At("St")
    /\ LET s == [cpu EXCEPT !.m = IF TheIns.op = "store" THEN cpu.x ELSE block.t]
       IN  \/ Go(s, block.t) /\ UNCHANGED cc
           \/ TheOp.flag /\ Flush(TheOp.i, s)
           \/ Fault(TheOp.i, cpu, AtStore(TheOp.i))

(* One instruction through the interpreter, which may itself fault, or store *)
(* to translated code.                                                      *)
Interp ==
    /\ At("Interp")
    /\ LET i == TheOp.i IN
       \/ Go(Effect(TheIns, cpu), block.t) /\ UNCHANGED cc
       \/ TheIns.mem /\ Flush(i, Effect(TheIns, cpu))
       \/ TheIns.mem /\ Fault(i, cpu, AtLoad(i))
       \/ TheIns.mem /\ Fault(i, FlagsOnly(i, cpu), AtStore(i))

JumpTo(taken) == [cpu EXCEPT !.ip = block.start + TheOp.i + (IF taken THEN 1 ELSE 0)]

JccFl ==
    /\ At("JccFl")
    /\ Out(JumpTo(TestCc(TheIns.cc, cpu.flags)), Steps(machine, TheOp.i), "engine", TRUE)
    /\ UNCHANGED cc

(* Compare and jump at once, and leave the comparison pending.              *)
JccCmp ==
    /\ At("JccCmp")
    /\ LET c == block.plan[TheOp.i - 1]
           a == OperandA(TheOp.i - 1)
       IN  /\ cc' = [kind |-> KindOf(c.fn), a |-> a, b |-> cpu.y]   \* c is a CMP or TEST
           /\ Out(JumpTo(EvalCc(KindOf(c.fn), TheIns.cc, a, cpu.y)), Steps(machine, TheOp.i),
                  "engine", TRUE)

Exit ==
    /\ At("Exit")
    /\ Out(JumpTo(TheIns.op = "jmp"), Steps(machine, TheOp.i), "engine", TRUE)
    /\ UNCHANGED cc

Next == \/ Enter \/ Leave \/ Interpret
        \/ CcMat \/ CcSet \/ CcClear
        \/ Alu \/ IncDec \/ Shift \/ ShiftSlow \/ Imul \/ SetFl \/ Ld \/ St \/ Interp
        \/ JccFl \/ JccCmp \/ Exit

Spec == Init /\ [][Next]_vars
-----------------------------------------------------------------------------
TypeOK ==
    /\ cpu \in Machines /\ machine \in Machines
    /\ cc \in [kind: 1 .. 5, a: Values, b: Values] \cup {None}
    /\ phase \in {"host", "engine", "block"}
    /\ whole \in BOOLEAN
    /\ phase = "block" => block.at \in DOMAIN block.code

(* What the guest can see.  Whenever no block is being run, whatever was     *)
(* skipped, deferred, folded or cut short, the registers, the memory and the *)
(* program counter are those the interpreter has after the same number of    *)
(* instructions (verify.cpp:4-8).                                           *)
SameMachine ==
    phase # "block" => [cpu EXCEPT !.flags = machine.flags] = machine

(* A block that was run to its end has left the flags exact, pending or not  *)
(* (verify.cpp:7), and so has settling them.                                *)
FlagsExact == phase # "block" /\ whole => Flags = machine.flags

(* Interpreted code in the middle of a block never meets deferred flags      *)
(* (cpu.h:156): an instruction that may read rflags finds there what the     *)
(* interpreter would have.                                                   *)
InterpSeesFlags ==
    At("Interp") /\ Reads(TheIns) => cpu.flags = Steps(machine, TheOp.i - 1).flags

(* Translation cannot be told from interpretation.                           *)
RunsAsInterpreted == SameMachine /\ FlagsExact /\ InterpSeesFlags
===============================================================================
