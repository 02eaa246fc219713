----------------------------- MODULE CodeCache -----------------------------
(***************************************************************************)
(* The translation cache: jit::Engine (jit/engine.cpp), the write-tracking *)
(* of Memory that keeps it honest (memory.h, memory.cpp) and the links     *)
(* between blocks of machine code (jit/backend_native.cpp, native_gen.h).  *)
(*                                                                         *)
(* The contents of a page are not modelled, only whether they have changed *)
(* since a block was translated from them (fresh, a history variable).     *)
(* Engine::epoch is only ever compared with the value a running block      *)
(* started with: each frame of run() has instead a flag, stale, that every *)
(* increment of the epoch sets.  Which blocks become hot is left open.     *)
(* The wasm tier and the verifier (journal) are left out.                  *)
(***************************************************************************)
EXTENDS Integers, Sequences, FiniteSets

CONSTANTS
    Pages,
    Pcs,            \* the addresses blocks start at
    PageOf,         \* [Pcs -> Pages]
    TlbSlot,        \* [Pages -> Nat]: the slot of the page caches
    TableSlot,      \* [Pcs -> Nat]: the slot of table_, and of ind_
    MaxBlocks,      \* bound: how many blocks are ever made
    MaxDepth,       \* bound: run() within run()
    ReclaimAt,      \* 8192 in the code: dead blocks before they are freed
    BanAfter,       \* 24 in the code: invalidations of a page before it is banned
    ArenaBlocks,    \* how many blocks' machine code the arena holds
    NativeOn,       \* Engine::native_on
    Contiguous      \* whether the embedder ever calls map_contiguous

Ids == 1 .. MaxBlocks
None == 0
TlbSlots == {TlbSlot[p] : p \in Pages}
Entries == {TableSlot[pc] : pc \in Pcs}
Indirect == 0                   \* the exit of a block that ends in a computed jump

\* What is taken for granted of them.
CodeCacheAssumption ==
    /\ PageOf \in [Pcs -> Pages] /\ Pcs \subseteq Nat \ {0}
    /\ TlbSlot \in [Pages -> Nat] /\ TableSlot \in [Pcs -> Nat]
    /\ None \notin Pages
    /\ MaxBlocks \in Nat /\ MaxDepth \in Nat
    /\ ReclaimAt \in Nat \ {0} /\ BanAfter \in Nat /\ ArenaBlocks \in Nat \ {0}
    /\ NativeOn \in BOOLEAN /\ Contiguous \in BOOLEAN

VARIABLES       \* Memory
    mapped,         \* pages_
    spans,          \* the pages of spans_
    watched,        \* code_pages_
    rtlb,           \* tlb_
    wtlb            \* tlbw_

VARIABLES       \* Engine
    made,           \* blocks made so far
    block,          \* what each was made as: its pc, and where it exits to
    stub,           \* Block::stub
    valid,          \* Block::valid
    freed,          \* the blocks no longer in all_
    nat,            \* Block::nat is set
    cell,           \* Block::ncells: the block its exit goes straight to
    linked,         \* nlinked_cells_: the owners of the cells in it
    ind,            \* ind_
    table,          \* table_
    map,            \* map_
    by_page,        \* by_page_
    dead,           \* dead_
    banned,         \* banned_
    inval_count,    \* inval_count_
    used            \* the blocks in the arena

VARIABLES       \* the calls of Engine::run on the host's stack
    frames,         \* from the outermost in
    interp,         \* the interpreter is running, not translated code
    rip

VARIABLE fresh      \* history: the blocks whose page has not changed since

memVars == <<mapped, spans, watched, rtlb, wtlb>>
blockVars == <<made, block, stub>>
codeVars == <<nat, cell, linked, ind, used>>
cacheVars == <<valid, freed, table, map, by_page, dead, banned, inval_count>>
runVars == <<frames, interp, rip>>
vars == <<memVars, blockVars, codeVars, cacheVars, runVars, fresh>>

-----------------------------------------------------------------------------
Made == 1 .. made
Living == Made \ freed
Page(b) == PageOf[block[b].pc]
Depth == Len(frames)
Top == frames[Depth]

Frame == [mode : {"loop", "in", "last"}, cur : Ids \cup {None}, stale : BOOLEAN,
          pend : Ids \cup {None}]

(* Types; and the arena is never written beyond its end. *)
TypeOK ==
    /\ mapped \subseteq Pages /\ spans \subseteq Pages /\ watched \subseteq Pages
    /\ rtlb \in [TlbSlots -> Pages \cup {None}] /\ wtlb \in [TlbSlots -> Pages \cup {None}]
    /\ made \in 0 .. MaxBlocks
    /\ block \in [Ids -> [pc : Pcs, exit : Pcs \cup {Indirect}]]
    /\ stub \in [Ids -> BOOLEAN] /\ valid \in [Ids -> BOOLEAN] /\ nat \in [Ids -> BOOLEAN]
    /\ freed \subseteq Made /\ linked \subseteq Made /\ fresh \subseteq Made
    /\ cell \in [Ids -> 0 .. made]
    /\ ind \in [Entries -> 0 .. made] /\ table \in [Entries -> 0 .. made]
    /\ map \in [Pcs -> 0 .. made]
    /\ by_page \in [Pages -> SUBSET Made]
    /\ dead \in 0 .. MaxBlocks
    /\ banned \subseteq Pages /\ inval_count \in [Pages -> Nat]
    /\ used \in 0 .. ArenaBlocks
    /\ frames \in Seq(Frame) /\ Depth <= MaxDepth
    /\ interp \in BOOLEAN /\ (Depth = 0 => interp)
    /\ rip \in Pcs

Init ==
    /\ mapped = Pages /\ spans = {} /\ watched = {}
    /\ rtlb = [s \in TlbSlots |-> None] /\ wtlb = [s \in TlbSlots |-> None]
    /\ made = 0
    /\ block = [b \in Ids |-> [pc |-> CHOOSE pc \in Pcs : TRUE, exit |-> Indirect]]
    /\ stub = [b \in Ids |-> FALSE] /\ valid = [b \in Ids |-> FALSE]
    /\ freed = {}
    /\ nat = [b \in Ids |-> FALSE] /\ cell = [b \in Ids |-> None]
    /\ linked = {} /\ ind = [s \in Entries |-> None]
    /\ table = [s \in Entries |-> None] /\ map = [pc \in Pcs |-> None]
    /\ by_page = [p \in Pages |-> {}]
    /\ dead = 0 /\ banned = {} /\ inval_count = [p \in Pages |-> 0] /\ used = 0
    /\ frames = <<>> /\ interp = TRUE /\ rip \in Pcs
    /\ fresh = {}

-----------------------------------------------------------------------------
(* What the engine does when told that code has changed.                   *)

(* unlink_all: no machine code leads to any other until linked again. *)
UnlinkAll ==
    /\ cell' = [b \in Ids |-> IF b \in linked THEN None ELSE cell[b]]
    /\ linked' = {}
    /\ ind' = [s \in Entries |-> None]
    /\ UNCHANGED <<nat, used>>

Invalidate(gone) ==
    /\ valid' = [b \in Ids |-> valid[b] /\ b \notin gone]
    /\ dead' = dead + Cardinality({b \in gone : valid[b]})
    /\ map' = [pc \in Pcs |-> IF map[pc] \in gone THEN None ELSE map[pc]]
    /\ UNCHANGED <<freed, table>>

OnCodeWrite(p) ==
    /\ UnlinkAll
    /\ Invalidate(by_page[p])
    /\ by_page' = [by_page EXCEPT ![p] = {}]
    /\ inval_count' = [inval_count EXCEPT ![p] = @ + 1]
    /\ banned' = IF inval_count[p] >= BanAfter THEN banned \cup {p} ELSE banned

OnCodeFlushAll ==
    /\ UnlinkAll
    /\ Invalidate(Living)
    /\ by_page' = [p \in Pages |-> {}]
    /\ inval_count' = [p \in Pages |-> 0]
    /\ banned' = {}

(* ++epoch, which both do. *)
Advanced == [i \in 1 .. Depth |-> [frames[i] EXCEPT !.stale = TRUE]]

-----------------------------------------------------------------------------
(* Memory.                                                                 *)

Accessible == mapped \cup spans
Change(p) == fresh' = {b \in fresh : Page(b) # p}
Forget(cache, p) == [s \in TlbSlots |-> IF cache[s] = p THEN None ELSE cache[s]]

(* mark_code_page of a page that can be watched. *)
MarkCodePage(p) ==
    /\ watched' = watched \cup {p}
    /\ wtlb' = Forget(wtlb, p)

(* A write that misses the write cache takes host_ptr_slow, and only that  *)
(* looks at code_pages_.                                                   *)
Reports(p) == wtlb[TlbSlot[p]] # p /\ p \notin spans /\ p \in watched

Write(p) ==
    /\ p \in Accessible
    /\ wtlb' = [wtlb EXCEPT ![TlbSlot[p]] = p]
    /\ IF Reports(p) THEN watched' = watched \ {p} /\ OnCodeWrite(p)
                     ELSE UNCHANGED <<watched, codeVars, cacheVars>>
    /\ Change(p)
    /\ UNCHANGED <<mapped, spans, rtlb, blockVars>>

Written(p) == IF Reports(p) THEN Advanced ELSE frames

(* unmap of page p: a contiguous mapping is dropped with everything that   *)
(* was translated, an ordinary page with what was translated from it.      *)
Drop(p) ==
    /\ mapped' = mapped \ {p}
    /\ IF p \in spans
       THEN /\ rtlb' = [s \in TlbSlots |-> None] /\ wtlb' = [s \in TlbSlots |-> None]
            /\ watched' = {} /\ OnCodeFlushAll /\ frames' = Advanced
       ELSE /\ rtlb' = Forget(rtlb, p) /\ wtlb' = Forget(wtlb, p)
            /\ IF p \in watched
               THEN watched' = watched \ {p} /\ OnCodeWrite(p) /\ frames' = Advanced
               ELSE UNCHANGED <<watched, codeVars, cacheVars, frames>>
    /\ Change(p)

-----------------------------------------------------------------------------
(* The interpreter, and the hooks and syscalls it enters, between two runs *)
(* of translated code or inside an Interp op of a block.                   *)

InterpWrite(p) ==
    /\ interp
    /\ Write(p) /\ frames' = Written(p)
    /\ UNCHANGED <<interp, rip>>

Unmap(p) ==
    /\ interp
    /\ Drop(p) /\ spans' = spans \ {p}
    /\ UNCHANGED <<blockVars, interp, rip>>

(* map leaves what is there as it is. *)
Map(p) ==
    /\ interp /\ p \notin mapped
    /\ mapped' = mapped \cup {p}
    /\ UNCHANGED <<spans, watched, rtlb, wtlb, blockVars, codeVars, cacheVars, runVars, fresh>>

MapContiguous(p) ==
    /\ interp /\ Contiguous
    /\ Drop(p) /\ spans' = spans \cup {p}
    /\ UNCHANGED <<blockVars, interp, rip>>

(* A caller outside the emulator writes through the pointer host_span gave. *)
HostWrite(p) ==
    /\ interp /\ p \in spans
    /\ Change(p)
    /\ UNCHANGED <<memVars, blockVars, codeVars, cacheVars, runVars>>

(* reclaim. *)
Reclaimable == dead >= ReclaimAt /\ Depth = 0

(* Engine::run is entered: from the scheduler's loop, from call_guest. *)
EnterRun ==
    /\ interp /\ Depth < MaxDepth
    /\ IF Reclaimable
       THEN /\ table' = [s \in Entries |-> IF table[s] \in Made /\ ~valid[table[s]]
                                           THEN None ELSE table[s]]
            /\ freed' = {b \in Made : ~valid[b]}
            /\ dead' = 0
       ELSE UNCHANGED <<table, freed, dead>>
    /\ frames' = Append(frames, [mode |-> "loop", cur |-> None, stale |-> FALSE,
                                 pend |-> None])
    /\ interp' = FALSE
    /\ rip' \in Pcs
    /\ UNCHANGED <<memVars, blockVars, codeVars, valid, map, by_page, banned,
                   inval_count, fresh>>

(* h_interp returns: the block goes on only if the instruction ended where *)
(* it was expected to and no code has been invalidated.                    *)
EndInterp ==
    /\ interp /\ Depth > 0
    /\ interp' = FALSE
    /\ \/ ~Top.stale /\ frames' = frames /\ UNCHANGED rip
       \/ /\ frames' = [frames EXCEPT ![Depth].mode = "loop"]
          /\ rip' \in Pcs
    /\ UNCHANGED <<memVars, blockVars, codeVars, cacheVars, fresh>>

-----------------------------------------------------------------------------
(* Engine::run.                                                            *)

Looping == ~interp /\ Depth > 0 /\ Top.mode = "loop"

(* lookup: the table, then the map. *)
Found(pc) ==
    LET b == table[TableSlot[pc]] IN
    IF b # None /\ block[b].pc = pc /\ valid[b] THEN b ELSE map[pc]

(* A hook, the stop address, the deadline, a halt: run returns.  A fault   *)
(* does the same from wherever the frame is.                               *)
LeaveRun ==
    /\ ~interp /\ Depth > 0
    /\ frames' = SubSeq(frames, 1, Depth - 1)
    /\ interp' = TRUE
    /\ UNCHANGED <<memVars, blockVars, codeVars, cacheVars, rip, fresh>>

(* translate: the block found at rip is entered in map_ and table_. *)
Register(b, exit, is_stub, watch) ==
    LET p == PageOf[rip] IN
    /\ made' = b
    /\ block' = [block EXCEPT ![b] = [pc |-> rip, exit |-> exit]]
    /\ stub' = [stub EXCEPT ![b] = is_stub]
    /\ valid' = [valid EXCEPT ![b] = TRUE]
    /\ map' = [map EXCEPT ![rip] = b]
    /\ table' = [table EXCEPT ![TableSlot[rip]] = b]
    /\ by_page' = IF watch THEN [by_page EXCEPT ![p] = @ \cup {b}] ELSE by_page
    /\ fresh' = fresh \cup {b}
    /\ UNCHANGED <<freed, dead, banned, inval_count, mapped, spans>>

Translate ==
    LET p == PageOf[rip] IN
    /\ Looping /\ Found(rip) = None /\ made < MaxBlocks
    /\ IF p \in banned
       THEN /\ Register(made + 1, Indirect, TRUE, FALSE)
            /\ UNCHANGED <<watched, rtlb, wtlb>>
       ELSE /\ rtlb' = IF p \in Accessible THEN [rtlb EXCEPT ![TlbSlot[p]] = p] ELSE rtlb
            /\ IF p \in spans
               THEN /\ Register(made + 1, Indirect, TRUE, FALSE)
                    /\ UNCHANGED <<watched, wtlb>>
               ELSE /\ \E exit \in Pcs \cup {Indirect}, is_stub \in BOOLEAN :
                          /\ p \notin mapped => is_stub
                          /\ Register(made + 1, IF is_stub THEN Indirect ELSE exit,
                                      is_stub, TRUE)
                    /\ MarkCodePage(p)
    /\ UNCHANGED <<codeVars, runVars>>

(* A stub: the interpreter is to step once. *)
Stub ==
    /\ Looping /\ Found(rip) # None /\ stub[Found(rip)]
    /\ frames' = SubSeq(frames, 1, Depth - 1)
    /\ interp' = TRUE
    /\ UNCHANGED <<memVars, blockVars, codeVars, cacheVars, rip, fresh>>

Begin(b) ==
    frames' = [frames EXCEPT ![Depth] = [mode |-> "in", cur |-> b, stale |-> FALSE,
                                         pend |-> None]]

(* The block's threaded handlers are run. *)
RunThreaded ==
    LET b == Found(rip) IN
    /\ Looping /\ b # None /\ ~stub[b] /\ ~nat[b]
    /\ Begin(b)
    /\ UNCHANGED <<memVars, blockVars, codeVars, cacheVars, interp, rip, fresh>>

(* Its machine code is run: the exit that was heading here is linked. *)
RunNative ==
    LET b == Found(rip)
        from == Top.pend IN
    /\ Looping /\ b # None /\ ~stub[b] /\ nat[b]
    /\ cell' = IF from # None THEN [cell EXCEPT ![from] = b] ELSE cell
    /\ linked' = IF from # None THEN linked \cup {from} ELSE linked
    /\ ind' = [ind EXCEPT ![TableSlot[rip]] = b]
    /\ Begin(b)
    /\ UNCHANGED <<memVars, blockVars, nat, used, cacheVars, interp, rip, fresh>>

(* Mutant: an exit that pointed into the old arena is linked all the same. *)
CompileFull_KeepsPending ==
    LET b == Found(rip)
        from == Top.pend IN
    /\ Looping /\ NativeOn /\ b # None /\ ~stub[b] /\ ~nat[b]
    /\ used = ArenaBlocks /\ Depth = 1
    /\ nat' = [c \in Ids |-> c = b]
    /\ used' = 1
    /\ cell' = [c \in Ids |-> IF c = from THEN b ELSE None]
    /\ linked' = IF from # None THEN {from} ELSE {}
    /\ ind' = [s \in Entries |-> IF s = TableSlot[rip] THEN b ELSE None]
    /\ Begin(b)
    /\ UNCHANGED <<memVars, blockVars, cacheVars, interp, rip, fresh>>

(* The block has become hot and the arena has room for it. *)
Compile ==
    LET b == Found(rip)
        from == Top.pend IN
    /\ Looping /\ NativeOn /\ b # None /\ ~stub[b] /\ ~nat[b]
    /\ used < ArenaBlocks
    /\ nat' = [nat EXCEPT ![b] = TRUE]
    /\ used' = used + 1
    /\ cell' = [c \in Ids |-> IF c = b THEN None ELSE IF c = from THEN b ELSE cell[c]]
    /\ linked' = IF from # None THEN linked \cup {from} ELSE linked
    /\ ind' = [ind EXCEPT ![TableSlot[rip]] = b]
    /\ Begin(b)
    /\ UNCHANGED <<memVars, blockVars, cacheVars, interp, rip, fresh>>

(* The arena is full: native_reset throws all machine code away first, and *)
(* the exit that was heading here is one of those thrown away.             *)
CompileFull ==
    LET b == Found(rip) IN
    /\ Looping /\ NativeOn /\ b # None /\ ~stub[b] /\ ~nat[b]
    /\ used = ArenaBlocks /\ Depth = 1
    /\ nat' = [c \in Ids |-> c = b]
    /\ used' = 1
    /\ cell' = [c \in Ids |-> None]
    /\ linked' = {}
    /\ ind' = [s \in Entries |-> IF s = TableSlot[rip] THEN b ELSE None]
    /\ Begin(b)
    /\ UNCHANGED <<memVars, blockVars, cacheVars, interp, rip, fresh>>

-----------------------------------------------------------------------------
(* Inside a block.  Its ops that touch neither memory nor rip are left out. *)

Running == ~interp /\ Depth > 0 /\ Top.mode \in {"in", "last"}
Leaving == [frames EXCEPT ![Depth].mode = "loop"]

(* Mutant: the check after a store is left out. *)
Store_NoCheck(p) ==
    /\ Running /\ Top.mode = "in"
    /\ Write(p)
    /\ frames' = Written(p) /\ UNCHANGED rip
    /\ UNCHANGED interp

(* A store that is not the block's last instruction: CHK_FLUSH leaves at   *)
(* the next instruction if translated code has been invalidated.           *)
Store(p) ==
    /\ Running /\ Top.mode = "in"
    /\ Write(p)
    /\ IF Written(p)[Depth].stale
       THEN /\ frames' = [Written(p) EXCEPT ![Depth].mode = "loop"]
            /\ rip' \in {pc \in Pcs : PageOf[pc] = Page(Top.cur)}
       ELSE UNCHANGED <<frames, rip>>
    /\ UNCHANGED interp

(* The store of the last instruction (a CALL's, say) is not followed by a  *)
(* check: flush_check leaves it out, the block ends anyway.                *)
LastStore(p) ==
    /\ Running /\ Top.mode = "in"
    /\ Write(p)
    /\ frames' = [Written(p) EXCEPT ![Depth].mode = "last"]
    /\ UNCHANGED <<interp, rip>>

(* An op that runs the interpreter for one instruction. *)
Interp ==
    /\ Running /\ Top.mode = "in"
    /\ interp' = TRUE
    /\ UNCHANGED <<memVars, blockVars, codeVars, cacheVars, frames, rip, fresh>>

(* exit_static of machine code within its budget: straight on to the next  *)
(* block if the exit is linked, else back to the engine to have it linked. *)
ExitStatic ==
    LET b == Top.cur IN
    /\ Running /\ block[b].exit # Indirect /\ nat[b]
    /\ rip' = block[b].exit
    /\ frames' = [frames EXCEPT ![Depth] =
                     IF cell[b] # None THEN [@ EXCEPT !.mode = "in", !.cur = cell[b]]
                                       ELSE [@ EXCEPT !.mode = "loop", !.pend = b]]
    /\ UNCHANGED <<memVars, blockVars, codeVars, cacheVars, interp, fresh>>

(* leave_indirect: through ind_, if it has the target. *)
ExitIndirect ==
    LET b == Top.cur IN
    /\ Running /\ block[b].exit = Indirect /\ nat[b]
    /\ \E pc \in Pcs :
          LET to == ind[TableSlot[pc]] IN
          /\ rip' = pc
          /\ frames' = [frames EXCEPT ![Depth] =
                           IF to # None /\ block[to].pc = pc
                           THEN [@ EXCEPT !.mode = "in", !.cur = to]
                           ELSE [@ EXCEPT !.mode = "loop"]]
    /\ UNCHANGED <<memVars, blockVars, codeVars, cacheVars, interp, fresh>>

(* The end of a threaded block, or the budget is used up. *)
ExitToLoop ==
    LET b == Top.cur IN
    /\ Running
    /\ rip' \in IF block[b].exit # Indirect THEN {block[b].exit} ELSE Pcs
    /\ frames' = [frames EXCEPT ![Depth].mode = "loop"]
    /\ UNCHANGED <<memVars, blockVars, codeVars, cacheVars, interp, fresh>>

-----------------------------------------------------------------------------
Outside == \/ \E p \in Pages : \/ InterpWrite(p) \/ Unmap(p)
                               \/ Map(p) \/ MapContiguous(p) \/ HostWrite(p)
           \/ EnterRun \/ EndInterp

Engine == LeaveRun \/ Translate \/ Stub \/ RunThreaded \/ RunNative \/ Compile \/ CompileFull

InBlock == (\E p \in Pages : Store(p) \/ LastStore(p))
           \/ Interp \/ ExitStatic \/ ExitIndirect \/ ExitToLoop

Next == Outside \/ Engine \/ InBlock

Spec == Init /\ [][Next]_vars

-----------------------------------------------------------------------------
(* Safety.                                                                 *)

(* What runs is what memory holds: no instruction of a translated block is *)
(* begun once the page it was translated from has changed, whoever wrote:  *)
(* the block itself, another, an interpreted instruction, a nested run, a  *)
(* mapping that came or went.                                              *)
RunsWhatMemoryHolds ==
    ~interp /\ Depth > 0 /\ Top.mode = "in" => Top.cur \in fresh /\ valid[Top.cur]

(* "Writes to it are reported from now on": whatever has been translated   *)
(* and may run is on a watched page that no write reaches unseen, and is   *)
(* on the list of what to drop when one comes.                             *)
TranslatedIsWatched ==
    \A b \in Made : valid[b] /\ ~stub[b] =>
        /\ b \in fresh
        /\ Page(b) \in watched \ spans /\ b \in by_page[Page(b)]
        /\ wtlb[TlbSlot[Page(b)]] # Page(b)

(* Machine code only jumps to the machine code of a block that is current, *)
(* and to the right one.                                                   *)
LinksAreCurrent ==
    /\ \A b \in Living : cell[b] # None =>
          /\ b \in linked /\ nat[b]
          /\ valid[cell[b]] /\ nat[cell[b]] /\ block[cell[b]].pc = block[b].exit
    /\ \A s \in Entries : ind[s] # None => valid[ind[s]] /\ nat[ind[s]]

(* "nothing is freed while > 0": no block that a call of run is in, or     *)
(* that the tables lead to, has been freed.                                *)
NothingInUseIsFreed ==
    /\ \A i \in 1 .. Depth : frames[i].cur \notin freed /\ frames[i].pend \notin freed
    /\ \A s \in Entries : table[s] \notin freed /\ ind[s] \notin freed
    /\ \A pc \in Pcs : map[pc] \notin freed
    /\ \A p \in Pages : by_page[p] \cap freed = {}

(* Whatever the engine can reach, by its tables or from machine code, is   *)
(* there, is current and will be told of a write.                          *)
WhatIsReachedIsCurrent == TranslatedIsWatched /\ LinksAreCurrent /\ NothingInUseIsFreed
=============================================================================
