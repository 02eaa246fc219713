---------------------------- MODULE AddressSpace ----------------------------
(***************************************************************************)
(* Where everything of a guest lies: the constants of choose_layout(), the *)
(* image put there by load_elf() or map_pe(), the libraries loaded while    *)
(* it runs, and the frontiers that grow from there (malloc's heap or the    *)
(* break, mmap, the emulator's own data, the pages of hooked modules).      *)
(* Memory::map() adds pages to what is there and refuses nothing, so two    *)
(* areas that meet share their bytes and nobody is told.                    *)
(*                                                                         *)
(* Addresses and sizes are in units of 64 KiB, so that 64-bit addresses fit *)
(* TLC's integers; all sizes are whole units and the 16 KiB in the base of  *)
(* a 64-bit PIE (0x555555554000) is dropped.                                *)
(***************************************************************************)
EXTENDS Naturals, Sequences

CONSTANTS
  Kinds,         \* the kinds of program started: a subset of AllKinds
  ImageSizes,    \* sizes of executables, interpreters and libraries
  FixedBases,    \* bases asked for by libraries without relocations
  Requests,      \* sizes asked of malloc, brk, mmap and the emulator's data
  MaxLibraries,  \* bound: libraries loaded
  MaxRequests    \* bound: requests made

VARIABLES
  kind,       \* the program: its system, its width, how it was linked
  layout,     \* where the areas begin and end (choose_layout)
  image,      \* the executable's pages, as [lo, hi); none before the load
  interp,     \* the pages of the loader PT_INTERP names, if any
  libraries,  \* the modules of load_library(), in order
  leftovers,  \* pages mapped for modules that were then refused
  dllNext,    \* dll_next_base_
  frontier,   \* heap_next_ or brk_, mmap_next_, misc_next_, hooked modules
  requests    \* the number of requests made (bounded)

spaceVars == <<kind, layout, image, interp, libraries, leftovers, dllNext, frontier,
              requests>>

AllKinds == {"win32", "win64", "linux32", "linux64", "pie32", "pie64"}
Is64(k) == k \in {"win64", "linux64", "pie64"}
OnWindows(k) == k \in {"win32", "win64"}

Nowhere == [lo |-> 0, hi |-> 0]
At(base, size) == [lo |-> base, hi |-> base + size]
Extent(a) == a.hi - a.lo
Overlap(a, b) == Extent(a) > 0 /\ Extent(b) > 0 /\ a.lo < b.hi /\ b.lo < a.hi

(***************************************************************************)
(* choose_layout(): brk is the end of the image, 0 when it is not loaded.   *)
(***************************************************************************)
ChooseLayout(k, brk) ==
  LET heap  == IF ~OnWindows(k) THEN brk
               ELSE IF Is64(k) THEN 86016 ELSE 512
      limit == IF ~OnWindows(k) THEN heap + 4096
               ELSE IF Is64(k) THEN heap + 16384 ELSE 16384
  IN [heap  |-> heap,
      limit |-> limit,                                   \* mmap begins here
      mmap  |-> limit + (IF Is64(k) THEN 262144 ELSE 4096),
      stack |-> IF Is64(k) THEN At(IF OnWindows(k) THEN 48 ELSE 2147483504, 128)
                           ELSE At(IF OnWindows(k) THEN 20 ELSE 49072, 64),
      hooks |-> IF Is64(k) THEN 2146893824 ELSE 31232,
      misc  |-> IF Is64(k) THEN 2146893952 ELSE 31360,
      teb   |-> IF Is64(k) THEN At(2146828288, 1) ELSE At(32509, 2)]

Frontiers(l) == [heap |-> l.heap, mmap |-> l.limit, misc |-> l.misc,
                 hooked |-> 60928]

(***************************************************************************)
(* load_elf(): the linker's base, or the bias the caller chose for a PIE.   *)
(* map_pe() of the executable: always at its preferred base.                *)
(***************************************************************************)
ImageBase(k) ==
  CASE k = "win64"   -> 81920
    [] k = "win32"   -> 64
    [] k = "linux64" -> 64
    [] k = "linux32" -> 2052
    [] k = "pie64"   -> 1431655765
    [] k = "pie32"   -> 22101

InterpBase(k) == IF Is64(k) THEN 2130706432 ELSE 24576

RoundUp(a, unit) == ((a + unit - 1) \div unit) * unit

(* dll_next_base_ after the executable: the next 1 MB, and no lower than    *)
(* 0x60000000 in a 32-bit guest                                             *)
FirstLibraryBase(k, exe) ==
  LET above == RoundUp(exe.hi, 16)
  IN IF ~Is64(k) /\ above < 24576 THEN 24576 ELSE above

(***************************************************************************)
(* Every area in use, by what uses it.                                      *)
(***************************************************************************)
Areas ==
  {[use |-> <<"stack", 0>>,  at |-> layout.stack],
   [use |-> <<"image", 0>>,  at |-> image],
   [use |-> <<"interp", 0>>, at |-> interp],
   [use |-> <<"heap", 0>>,   at |-> [lo |-> layout.heap, hi |-> frontier.heap]],
   [use |-> <<"mmap", 0>>,   at |-> [lo |-> layout.limit, hi |-> frontier.mmap]],
   [use |-> <<"misc", 0>>,   at |-> [lo |-> layout.misc, hi |-> frontier.misc]],
   [use |-> <<"hooks", 0>>,  at |-> At(layout.hooks, 1)],
   [use |-> <<"hooked", 0>>, at |-> [lo |-> 60928, hi |-> frontier.hooked]]}
  \union (IF OnWindows(kind) THEN {[use |-> <<"teb", 0>>, at |-> layout.teb]} ELSE {})
  \union {[use |-> <<"library", i>>, at |-> libraries[i]] : i \in DOMAIN libraries}

(* Memory::is_mapped(): of one page *)
IsMapped(page) ==
  \/ \E a \in Areas : a.use[1] # "hooks" /\ page \in a.at.lo .. (a.at.hi - 1)
  \/ \E a \in leftovers : page \in a.lo .. (a.hi - 1)

-----------------------------------------------------------------------------
(***************************************************************************)
(* The beginning of load(): the layout is chosen and the stack mapped       *)
(* before the file has been read.                                           *)
(***************************************************************************)
SpaceInit ==
  /\ kind \in Kinds
  /\ layout = ChooseLayout(kind, 0)
  /\ image = Nowhere
  /\ interp = Nowhere
  /\ libraries = <<>>
  /\ leftovers = {}
  /\ dllNext = 0
  /\ frontier = Frontiers(layout)
  /\ requests = 0

(* load_bytes() for a Windows program *)
LoadWindows ==
  /\ image = Nowhere
  /\ OnWindows(kind)
  /\ \E size \in ImageSizes :
       LET exe == At(ImageBase(kind), size)
       IN /\ image' = exe
          /\ dllNext' = FirstLibraryBase(kind, exe)
  /\ UNCHANGED <<kind, layout, interp, libraries, leftovers, frontier, requests>>

(* A program laid out before it was loaded, and not again: a mutant. *)
LoadLinux_LaidOutOnce ==
  /\ image = Nowhere
  /\ ~OnWindows(kind)
  /\ \E size \in ImageSizes : image' = At(ImageBase(kind), size)
  /\ interp' \in {Nowhere} \union {At(InterpBase(kind), ld) : ld \in ImageSizes}
  /\ UNCHANGED <<kind, layout, libraries, leftovers, dllNext, frontier, requests>>

(* ... and for a Linux program: the image, its interpreter, and then the    *)
(* layout a second time, now that the end of the image is known             *)
LoadLinux ==
  /\ image = Nowhere
  /\ ~OnWindows(kind)
  /\ \E size \in ImageSizes : image' = At(ImageBase(kind), size)
  /\ interp' \in {Nowhere} \union {At(InterpBase(kind), ld) : ld \in ImageSizes}
  /\ layout' = ChooseLayout(kind, image'.hi)
  /\ frontier' = Frontiers(layout')
  /\ UNCHANGED <<kind, libraries, leftovers, dllNext, requests>>

(***************************************************************************)
(* load_library(): a library with relocations goes to dllNext; one without  *)
(* goes where it asks if its first page is free.  map_pe() maps the pages   *)
(* first and then refuses code it cannot relocate, leaving them mapped and  *)
(* dllNext as it was; what was loaded, wherever it went, sets dllNext.      *)
(***************************************************************************)
LibraryBase(fixed) ==
  IF fixed # 0 /\ ~IsMapped(fixed) THEN fixed ELSE dllNext

Loaded(lib) ==
  /\ libraries' = Append(libraries, lib)
  /\ dllNext' = lib.hi
  /\ UNCHANGED leftovers

Refused(lib) ==
  /\ leftovers' = leftovers \union {lib}
  /\ UNCHANGED <<libraries, dllNext>>

LoadLibrary ==
  /\ image # Nowhere
  /\ OnWindows(kind)
  /\ Len(libraries) < MaxLibraries
  /\ leftovers = {}
  /\ \E size \in ImageSizes, fixed \in FixedBases \union {0}, code \in BOOLEAN :
       LET lib == At(LibraryBase(fixed), size)
       IN IF fixed # 0 /\ code /\ lib.lo # fixed THEN Refused(lib) ELSE Loaded(lib)
  /\ UNCHANGED <<kind, layout, image, interp, frontier, requests>>

(***************************************************************************)
(* The frontiers.  A request that does not fit is refused.                  *)
(***************************************************************************)
Request ==
  /\ image # Nowhere
  /\ requests < MaxRequests
  /\ requests' = requests + 1
  /\ UNCHANGED <<kind, layout, image, interp, libraries, leftovers, dllNext>>

Grown(next, size, limit) == IF next + size > limit THEN next ELSE next + size

(* heap_alloc() past the freed blocks, for a Windows guest; set_brk() for a *)
(* Linux one                                                                *)
GrowHeap ==
  /\ Request
  /\ \E n \in Requests :
       frontier' = [frontier EXCEPT !.heap = Grown(@, n, layout.limit)]

(* alloc_pages() and reserve_pages() past the freed ranges *)
GrowMmap ==
  /\ Request
  /\ \E n \in Requests :
       frontier' = [frontier EXCEPT !.mmap = Grown(@, n, layout.mmap)]

(* alloc_guest_data(): has no limit *)
GrowMisc ==
  /\ Request
  /\ frontier' = [frontier EXCEPT !.misc = @ + 1]

(* hooked_module_handle() of a name asked for the first time: one page of   *)
(* each 64 KiB                                                              *)
HookedModule ==
  /\ Request
  /\ OnWindows(kind)
  /\ frontier' = [frontier EXCEPT !.hooked = @ + 1]

SpaceNext == LoadWindows \/ LoadLinux \/ LoadLibrary \/ GrowHeap \/ GrowMmap
             \/ GrowMisc \/ HookedModule

SpaceSpec == SpaceInit /\ [][SpaceNext]_spaceVars

-----------------------------------------------------------------------------
(***************************************************************************)
(* Nothing lies on top of anything else: the stack, the image, the          *)
(* interpreter, the libraries, the TEB and every window as far as it has    *)
(* been used are apart (emulator.cpp:53, "they only have to stay clear of   *)
(* the image"; emulator.cpp:91, "so the two can never collide").            *)
(***************************************************************************)
AreasApart ==
  image # Nowhere =>
    \A a, b \in Areas : a.use # b.use => ~Overlap(a.at, b.at)

(***************************************************************************)
(* There is room for images of at most m units: for the executable and the  *)
(* libraries behind it below the heap (256 MB); for a library without       *)
(* relocations and those that follow it between the mmap window and the TEB,*)
(* and below the next such base; for the emulator's data below the stack of *)
(* a 32-bit guest.  win32 and pie32 are laid out over each other.           *)
(***************************************************************************)
Extents == 1 .. 4096
RoomFor(m) ==
  /\ m \in Extents /\ ImageSizes \subseteq 1 .. m
  /\ Kinds \subseteq {"win64", "linux64", "pie64", "linux32"}
  /\ MaxLibraries \in Nat /\ (MaxLibraries + 1) * m + 15 <= 4096
  /\ MaxRequests \in 0 .. 17712 /\ Requests \subseteq Nat
  /\ FixedBases \subseteq 364544 .. (2146828288 - MaxLibraries * m)
  /\ \A f, g \in FixedBases : f < g => f + MaxLibraries * m <= g
RoomEnough == \E m \in Extents : RoomFor(m)

(* A library is mapped on pages nobody has used: its .bss is zero. *)
LibrariesAreFresh ==
  \A i \in DOMAIN libraries, r \in leftovers : ~Overlap(libraries[i], r)
=============================================================================
