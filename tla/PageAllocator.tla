--------------------------- MODULE PageAllocator ---------------------------
(***************************************************************************)
(* Who gets which guest address: Emulator::alloc_pages, reserve_pages,     *)
(* free_pages and set_brk (emulator.cpp), under the calls a guest makes:   *)
(* mmap, munmap and brk (syscalls.cpp) on Linux, VirtualAlloc and views of *)
(* files (hooks_win32.cpp, hooks_win32c.cpp) on Windows, and fork.         *)
(*                                                                         *)
(* Addresses and sizes are whole pages.  What is in a page is not          *)
(* modelled: Memory::map leaves the contents of a page that exists, so a   *)
(* fresh region is zero exactly if none of its pages was mapped.  The      *)
(* monotonic layout of X86EMU_QEMU_LAYOUT (mmap_no_reuse_) and the blocks  *)
(* malloc makes of the heap are left out.                                  *)
(***************************************************************************)
EXTENDS Integers, Sequences

CONSTANTS
    Systems,        \* whose calls are considered
    LastPage,       \* bound: the address space is 0 .. LastPage
    HeapBase,       \* heap_base_: the break starts here
    HeapLimit,      \* heap_limit_: the mmap window starts here
    MmapLimit,      \* mmap_limit_: and ends here
    Sizes,          \* the sizes the guest asks for
    Granule,        \* 64 KiB: VirtualAlloc's alignment
    Placed          \* the pages the guest names itself, in a hint, with MAP_FIXED
                    \* or in VirtualAlloc, that it was not given before

Pages == 0 .. LastPage

ASSUME LayoutAssumption ==
    /\ Systems \subseteq {"Linux", "Windows"}
    /\ LastPage \in Nat /\ HeapBase \in Nat /\ HeapLimit \in Nat /\ MmapLimit \in Nat
    /\ 0 < HeapBase /\ HeapBase <= HeapLimit /\ HeapLimit <= MmapLimit
    /\ MmapLimit <= LastPage + 1
    /\ Sizes \subseteq Nat \ {0}
    /\ Granule \in Nat \ {0}
    /\ Placed \subseteq Pages

VARIABLES
    os,             \* Emulator::os()
    mapped,         \* Memory::pages_: the pages that exist
    mmap_next,      \* mmap_next_: where the window has never been used
    mmap_free,      \* mmap_free_
    mmap_live,      \* mmap_live_; 0 for no entry
    brk,            \* brk_
    views,          \* the views of files that own their pages; 0 for none
    reserved,       \* history: what VirtualAlloc has reserved for the guest
    got             \* history: the fresh region the last call returned

vars == <<os, mapped, mmap_next, mmap_free, mmap_live, brk, views, reserved, got>>

-----------------------------------------------------------------------------
Span(a, n) == a .. a + n - 1
Block == [base : Pages, size : Nat \ {0}]
Blocks == 1 .. Len(mmap_free)
PagesOf(block) == Span(block.base, block.size)

Without(s, i) == [j \in 1 .. Len(s) - 1 |-> IF j < i THEN s[j] ELSE s[j + 1]]

AlignUp(a) == ((a + Granule - 1) \div Granule) * Granule

TypeOK ==
    /\ os \in {"Linux", "Windows"}
    /\ mapped \subseteq Pages /\ reserved \subseteq Pages /\ got \subseteq Pages
    /\ mmap_next \in Nat
    /\ mmap_free \in Seq(Block)
    /\ mmap_live \in [Pages -> Nat] /\ views \in [Pages -> Nat]
    /\ brk \in Pages \cup {LastPage + 1}

Init ==
    /\ os \in Systems
    /\ mapped = 0 .. HeapBase - 1                  \* the image, far below in truth
    /\ reserved = {} /\ got = {}
    /\ mmap_next = HeapLimit
    /\ mmap_free = <<>>
    /\ mmap_live = [p \in Pages |-> 0] /\ views = [p \in Pages |-> 0]
    /\ brk = HeapBase

-----------------------------------------------------------------------------
(* alloc_pages. *)

HandOut(a, n) ==
    /\ mapped' = mapped \cup Span(a, n)
    /\ mmap_live' = [mmap_live EXCEPT ![a] = n]
    /\ got' = Span(a, n)

Nothing == got' = {} /\ UNCHANGED <<mapped, mmap_live>>

Fitting(n) == {i \in Blocks : mmap_free[i].size >= n}

(* The first of the smallest. *)
IsBestFit(i, n) ==
    /\ i \in Fitting(n)
    /\ \A j \in Fitting(n) : \/ mmap_free[i].size < mmap_free[j].size
                             \/ mmap_free[i].size = mmap_free[j].size /\ i <= j

Rest(block, n) == [base |-> block.base + n, size |-> block.size - n]

Recycle(n) ==
    \E i \in Fitting(n) :
        /\ IsBestFit(i, n)
        /\ mmap_free' = IF mmap_free[i].size > n
                        THEN [mmap_free EXCEPT ![i] = Rest(mmap_free[i], n)]
                        ELSE Without(mmap_free, i)
        /\ HandOut(mmap_free[i].base, n)
        /\ UNCHANGED mmap_next

(* The frontier moves, and stays moved when there is no room behind it. *)
Extend(from, n) ==
    /\ IF from + n > MmapLimit
       THEN mmap_next' = from /\ Nothing
       ELSE mmap_next' = from + n /\ HandOut(from, n)
    /\ UNCHANGED mmap_free

AllocPages(n) == Recycle(n) \/ (Fitting(n) = {} /\ Extend(mmap_next, n))

AllocAligned(n) == Extend(AlignUp(mmap_next), n)

(* Mutant: a part of a mapping gives the whole of it back. *)
FreePages_Whole(a, n) ==
    /\ mapped' = mapped \ Span(a, n)
    /\ IF mmap_live[a] # 0
       THEN /\ mmap_free' = Append(mmap_free, [base |-> a, size |-> mmap_live[a]])
            /\ mmap_live' = [mmap_live EXCEPT ![a] = 0]
       ELSE /\ mmap_free' = IF a >= mmap_next THEN mmap_free
                            ELSE Append(mmap_free, [base |-> a, size |-> n])
            /\ UNCHANGED mmap_live

(* free_pages. *)
FreePages(a, n) ==
    /\ mapped' = mapped \ Span(a, n)
    /\ IF a >= MmapLimit
       THEN UNCHANGED <<mmap_free, mmap_live>>
       ELSE IF mmap_live[a] # 0 /\ mmap_live[a] <= n
       THEN /\ mmap_free' = Append(mmap_free, [base |-> a, size |-> mmap_live[a]])
            /\ mmap_live' = [mmap_live EXCEPT ![a] = 0]
       ELSE /\ mmap_free' = IF a >= mmap_next THEN mmap_free
                            ELSE Append(mmap_free, [base |-> a, size |-> n])
            /\ UNCHANGED mmap_live

-----------------------------------------------------------------------------
(* Linux.                                                                  *)

RangeFree(a, n) == Span(a, n) \cap mapped = {}

(* mmap without an address, or with one it does not get. *)
Mmap(n) ==
    /\ os = "Linux"
    /\ AllocPages(n)
    /\ UNCHANGED <<os, brk, views, reserved>>

(* mmap with a hint: the address is given if nothing is mapped there. *)
MmapHint(a, n) ==
    /\ os = "Linux" /\ Span(a, n) \subseteq Placed
    /\ IF RangeFree(a, n)
       THEN /\ mapped' = mapped \cup Span(a, n) /\ got' = Span(a, n)
            /\ UNCHANGED <<mmap_next, mmap_free, mmap_live>>
       ELSE AllocPages(n)
    /\ UNCHANGED <<os, brk, views, reserved>>

(* MAP_FIXED: over what the guest has, or at a place of its choice. *)
MmapFixed(a, n) ==
    /\ os = "Linux" /\ Span(a, n) \subseteq mapped \cup Placed
    /\ mapped' = (mapped \ Span(a, n)) \cup Span(a, n)
    /\ got' = {}
    /\ UNCHANGED <<os, mmap_next, mmap_free, mmap_live, brk, views, reserved>>

(* The guest unmaps what is mapped: a mapping, a part of one, or several   *)
(* that happen to lie side by side.                                        *)
Munmap(a, n) ==
    /\ os = "Linux" /\ Span(a, n) \subseteq mapped
    /\ FreePages(a, n)
    /\ got' = {}
    /\ UNCHANGED <<os, mmap_next, brk, views, reserved>>

Brk(addr) ==
    /\ os = "Linux" /\ brk < addr /\ addr <= HeapLimit
    /\ mapped' = mapped \cup brk .. addr - 1
    /\ brk' = addr
    /\ got' = brk .. addr - 1
    /\ UNCHANGED <<os, mmap_next, mmap_free, mmap_live, views, reserved>>

(* fork_clone, seen by the child: it continues from the parent's frontier, *)
(* and with empty lists.                                                   *)
Fork ==
    /\ os = "Linux"
    /\ mmap_free' = <<>> /\ mmap_live' = [p \in Pages |-> 0]
    /\ got' = {}
    /\ UNCHANGED <<os, mapped, mmap_next, brk, views, reserved>>

-----------------------------------------------------------------------------
(* Windows.                                                                *)

(* VirtualAlloc of reserved and committed pages. *)
VirtualAlloc(n) ==
    /\ os = "Windows"
    /\ AllocAligned(n)
    /\ UNCHANGED <<os, brk, views, reserved>>

(* VirtualAlloc(MEM_RESERVE): reserve_pages makes no pages. *)
VirtualReserve(n) ==
    /\ os = "Windows"
    /\ LET a == AlignUp(mmap_next) IN
       IF a + n > MmapLimit
       THEN mmap_next' = a /\ got' = {} /\ UNCHANGED reserved
       ELSE /\ mmap_next' = a + n
            /\ got' = Span(a, n)
            /\ reserved' = reserved \cup Span(a, n)
    /\ UNCHANGED <<os, mapped, mmap_free, mmap_live, brk, views>>

(* VirtualAlloc(MEM_COMMIT) at an address: what the guest has reserved or  *)
(* has already, or a place of its choice.                                  *)
VirtualCommit(a, n) ==
    /\ os = "Windows" /\ Span(a, n) \subseteq reserved \cup mapped \cup Placed
    /\ mapped' = mapped \cup Span(a, n)
    /\ got' = {}
    /\ UNCHANGED <<os, mmap_next, mmap_free, mmap_live, brk, views, reserved>>

(* MapViewOfFile, if there is room; a new thread's stack differs only in   *)
(* that it is never given back.                                            *)
MapView(n) ==
    /\ os = "Windows"
    /\ AllocPages(n) /\ got' # {}
    /\ \E a \in Pages : /\ got' = Span(a, n)
                        /\ views' = [views EXCEPT ![a] = n]
    /\ UNCHANGED <<os, brk, reserved>>

UnmapView(a) ==
    /\ os = "Windows" /\ views[a] # 0
    /\ FreePages(a, views[a])
    /\ views' = [views EXCEPT ![a] = 0]
    /\ got' = {}
    /\ UNCHANGED <<os, mmap_next, brk, reserved>>

-----------------------------------------------------------------------------
Next ==
    \/ \E n \in Sizes : Mmap(n) \/ VirtualAlloc(n) \/ VirtualReserve(n) \/ MapView(n)
    \/ \E a \in Pages, n \in Sizes :
          /\ a + n <= LastPage + 1
          /\ MmapHint(a, n) \/ MmapFixed(a, n) \/ Munmap(a, n) \/ VirtualCommit(a, n)
    \/ \E addr \in Pages : Brk(addr)
    \/ \E a \in Pages : UnmapView(a)
    \/ Fork

Spec == Init /\ [][Next]_vars

-----------------------------------------------------------------------------
(* "A fresh region": what mmap, brk, VirtualAlloc and MapViewOfFile return *)
(* is nobody's: no page of it was mapped, so it reads as zero, or reserved,*)
(* whatever was unmapped, in whole or in part, in whatever order.          *)
FreshIsFresh == [][got' \cap (mapped \cup reserved) = {}]_vars

(* Why: the ranges that wait to be used again share no page with each      *)
(* other or with what the guest has, and none of them, nor anything the    *)
(* guest has in the window, lies beyond the frontier.                      *)
RecyclableIsUnused ==
    /\ \A i \in Blocks : /\ PagesOf(mmap_free[i]) \cap (mapped \cup reserved) = {}
                         /\ \A p \in PagesOf(mmap_free[i]) : p < mmap_next
    /\ \A i, j \in Blocks : i # j => PagesOf(mmap_free[i]) \cap PagesOf(mmap_free[j]) = {}
    /\ \A p \in mapped \cup reserved : p < mmap_next \/ p >= MmapLimit
=============================================================================
