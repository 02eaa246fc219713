------------------------------ MODULE FrameWalk ------------------------------
(***************************************************************************)
(* Finding a 64-bit Windows guest's callers (exceptions.cpp): the function *)
(* table, and RtlVirtualUnwind, which undoes the part of a prologue that   *)
(* has run.  The guest here is compiled code that keeps the conventions:   *)
(* it calls, runs its prologue an instruction at a time, overwrites what   *)
(* it has saved, moves between the fragments of a split function, returns. *)
(*                                                                         *)
(* Code addresses, stack slots (of eight bytes) and register contents are  *)
(* numbers.  An instruction is one address long.                           *)
(***************************************************************************)
EXTENDS Integers, Sequences, SequencesExt

CONSTANTS
  Table,        \* the exception directory: RUNTIME_FUNCTIONs, by address
  Leaves,       \* addresses of functions that have no entry in it
  Entries,      \* the functions that may be called: indices of Table
  Top,          \* the stack: slots 1 .. Top
  MaxDepth      \* bound on the number of calls

VARIABLES
  pc, rsp, reg, \* the processor: the registers a callee must preserve
  stack,        \* the guest's stack
  callers       \* the processor as each call left it, the latest first

vars == <<pc, rsp, reg, stack, callers>>

Regs == {"rbx", "rbp", "xmm6"}

----------------------------------------------------------------------------
(* The emulator.                                                            *)

\* lookup_function_entry: a binary search over entries lo .. hi - 1.
Search[a \in Int, lo \in 1..Len(Table) + 1, hi \in 1..Len(Table) + 1] ==
  IF lo >= hi THEN 0
  ELSE LET mid == lo + (hi - lo) \div 2
       IN  CASE a < Table[mid].begin -> Search[a, lo, mid]
             [] a >= Table[mid].end -> Search[a, mid + 1, hi]
             [] OTHER -> mid
Lookup(a) == Search[a, 1, Len(Table) + 1]

\* One code of entry e undone; base is where the locals live.
UndoCode(ctx, code, e, base) ==
  CASE code.op = "push" -> [ctx EXCEPT !.reg[code.reg] = stack[ctx.rsp], !.rsp = ctx.rsp + 1]
    [] code.op = "alloc" -> [ctx EXCEPT !.rsp = ctx.rsp + code.n]
    [] code.op = "setfp" -> [ctx EXCEPT !.rsp = ctx.reg[Table[e].frame] - Table[e].offset]
    [] code.op = "save" -> [ctx EXCEPT !.reg[code.reg] = stack[base + code.n]]

\* Mutant: a chained parent is treated as if it were the function itself.
Applies_FromParentStart(code, info, offset, chained) ==
  offset >= info.size \/ code.at <= offset
\* Codes whose offset lies beyond the instruction have not run; all of a chained
\* parent's have.
Applies(code, info, offset, chained) ==
  chained \/ offset >= info.size \/ code.at <= offset

\* An entry and the parents it is chained to.
Chain[e \in 1..Len(Table)] == <<e>> \o IF Table[e].chain = 0 THEN <<>> ELSE Chain[Table[e].chain]

\* Those of their codes that have run by the instruction at a, with their entries.
Ran(a, e) ==
  LET Of(p) == LET info == Table[p]
                   offset == IF a > info.begin THEN a - info.begin ELSE 0
                   ran == SelectSeq(info.codes, LAMBDA c : Applies(c, info, offset, p # e))
               IN  [i \in 1..Len(ran) |-> <<ran[i], p>>]
  IN  FlattenSeq([i \in 1..Len(Chain[e]) |-> Of(Chain[e][i])])

\* The frame register's base when the first entry declares one.
FrameBase(ctx, e) ==
  IF Table[e].frame = "none" THEN ctx.rsp ELSE ctx.reg[Table[e].frame] - Table[e].offset

PopReturn(ctx) == [ctx EXCEPT !.pc = stack[ctx.rsp], !.rsp = ctx.rsp + 1]

VirtualUnwind(ctx, e) ==
  LET base == FrameBase(ctx, e)
  IN  PopReturn(FoldLeft(LAMBDA c, ran : UndoCode(c, ran[1], ran[2], base), ctx, Ran(ctx.pc, e)))

\* One frame of a walk; a function without an entry is a leaf.
CallerOf(ctx) == LET e == Lookup(ctx.pc) IN IF e = 0 THEN PopReturn(ctx) ELSE VirtualUnwind(ctx, e)

\* Saved xmm registers are put back in the context and in the processor as well.
LiveAfter(ctx, e) ==
  LET back == {Ran(ctx.pc, e)[i][1].reg : i \in 1..Len(Ran(ctx.pc, e))} \cap {"xmm6"}
  IN  [r \in Regs |-> IF r \in back THEN VirtualUnwind(ctx, e).reg[r] ELSE reg[r]]

Here == [pc |-> pc, rsp |-> rsp, reg |-> reg]
Walk[n \in 0..MaxDepth] == IF n = 0 THEN Here ELSE CallerOf(Walk[n - 1])

----------------------------------------------------------------------------
(* The guest.                                                               *)

\* The entry the instruction belongs to, by its definition.
EntryAt(a) == {e \in 1..Len(Table) : Table[e].begin <= a /\ a < Table[e].end}
InEntry(e) == EntryAt(pc) = {e}
Offset(e) == pc - Table[e].begin

Parts(e) == {Chain[e][i] : i \in 1..Len(Chain[e])}
Codes(e) == {Table[e].codes[i] : i \in 1..Len(Table[e].codes)}

\* Registers whose contents the running function may change.
Saved == UNION {{c.reg : c \in {d \in UNION {Codes(p) : p \in Parts(e)} : d.op \in {"push", "save"}}} : e \in EntryAt(pc)}
Framed == {Table[e].frame : e \in EntryAt(pc)}
InBody == \A e \in EntryAt(pc) : Offset(e) >= Table[e].size

CallTo(a) ==
  /\ Len(callers) < MaxDepth /\ rsp > 1
  /\ callers' = <<[Here EXCEPT !.pc = pc + 1]>> \o callers
  /\ rsp' = rsp - 1 /\ stack' = [stack EXCEPT ![rsp - 1] = pc + 1]
  /\ pc' = a /\ UNCHANGED reg

\* A call, from a body that goes on after it.
Call ==
  /\ InBody /\ Cardinality(EntryAt(pc)) = 1 /\ EntryAt(pc + 1) = EntryAt(pc)
  /\ \/ \E e \in Entries : CallTo(Table[e].begin)
     \/ \E a \in Leaves : CallTo(a)

\* An instruction of the prologue: its code is at the offset after it.
Prologue ==
  \E e \in EntryAt(pc) :
    LET k == Offset(e) + 1
        info == Table[e]
    IN  /\ k <= info.size
        /\ pc' = pc + 1
        /\ IF \E c \in Codes(e) : c.at = k
           THEN LET c == CHOOSE d \in Codes(e) : d.at = k
                IN  CASE c.op = "push" -> /\ rsp > 1 /\ rsp' = rsp - 1
                                          /\ stack' = [stack EXCEPT ![rsp - 1] = reg[c.reg]]
                                          /\ UNCHANGED reg
                      [] c.op = "alloc" -> /\ rsp > c.n /\ rsp' = rsp - c.n /\ UNCHANGED <<stack, reg>>
                      [] c.op = "setfp" -> /\ reg' = [reg EXCEPT ![info.frame] = rsp + info.offset]
                                           /\ UNCHANGED <<rsp, stack>>
                      [] c.op = "save" -> /\ stack' = [stack EXCEPT ![FrameBase(Here, e) + c.n] = reg[c.reg]]
                                          /\ UNCHANGED <<rsp, reg>>
           ELSE UNCHANGED <<rsp, reg, stack>>
        /\ UNCHANGED callers

\* The body overwrites a register it has saved, or takes more of the stack under
\* a frame register.
Work ==
  /\ InBody
  /\ \/ \E r \in Saved \ Framed : reg' = [reg EXCEPT ![r] = 100 + Len(callers)] /\ UNCHANGED rsp
     \/ Framed # {} /\ Framed # {"none"} /\ rsp > 1 /\ rsp' = rsp - 1 /\ UNCHANGED reg
  /\ UNCHANGED <<pc, stack, callers>>

\* On to the next instruction of the body, or into a fragment of the function.
Advance ==
  /\ InBody
  /\ \/ EntryAt(pc + 1) = EntryAt(pc) /\ EntryAt(pc) # {} /\ pc' = pc + 1
     \/ \E f \in 1..Len(Table), e \in EntryAt(pc) : Table[f].chain = e /\ pc' = Table[f].begin
  /\ UNCHANGED <<rsp, reg, stack, callers>>

\* The epilogue gives everything back.
Return ==
  /\ InBody /\ callers # <<>>
  /\ pc' = Head(callers).pc /\ rsp' = Head(callers).rsp /\ reg' = Head(callers).reg
  /\ stack' = [a \in 1..Top |-> IF a < Head(callers).rsp THEN 0 ELSE stack[a]]
  /\ callers' = Tail(callers)

----------------------------------------------------------------------------
Init ==
  /\ \E e \in Entries : pc = Table[e].begin + Table[e].size /\ Table[e].codes = <<>>
  /\ rsp = Top /\ reg = [rbx |-> 71, rbp |-> 72, xmm6 |-> 73]
  /\ stack = [a \in 1..Top |-> 0] /\ callers = <<>>

Next == Call \/ Prologue \/ Work \/ Advance \/ Return
Spec == Init /\ [][Next]_vars

----------------------------------------------------------------------------
\* Wherever the guest stands, in the middle of a prologue, in a fragment of a
\* split function or with its stack pointer moved under a frame register, the walk
\* finds each caller with the registers it had when it called (virtual_unwind).
WalkFindsCallers == \A n \in 1..Len(callers) : Walk[n] = callers[n]

\* A guest that walks its own stack goes on with the registers it had: unwinding is
\* done on a context, and what is handed back is that context (exceptions.cpp:171).
WalkIsHarmless == \A e \in EntryAt(pc) : LiveAfter(Here, e) = reg

=============================================================================
