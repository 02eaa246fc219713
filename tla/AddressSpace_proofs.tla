------------------------- MODULE AddressSpace_proofs -------------------------
(***************************************************************************)
(* Proofs about AddressSpace: the areas of a guest stay apart if there is  *)
(* room for what is loaded (RoomEnough).  What has a window of its own      *)
(* stays in it and the windows are apart; libraries come in rows that have  *)
(* room between the windows and between each other.                        *)
(***************************************************************************)
EXTENDS AddressSpace, SequenceTheorems, TLAPS

(* The executable and its interpreter are where they are loaded, and the    *)
(* frontiers have not left their windows. *)
Images(base, m) == {At(base, size) : size \in 1 .. m}
WindowsInv(m) ==
  /\ kind \in Kinds
  /\ layout = ChooseLayout(kind, IF OnWindows(kind) THEN 0 ELSE image.hi)
  /\ image \in {Nowhere} \cup Images(ImageBase(kind), m)
  /\ interp \in {Nowhere} \cup (IF OnWindows(kind) THEN {} ELSE Images(InterpBase(kind), m))
  /\ requests \in 0 .. MaxRequests
  /\ frontier \in [heap : layout.heap .. layout.limit, mmap : layout.limit .. layout.mmap,
                   misc : layout.misc .. (layout.misc + requests),
                   hooked : 60928 .. (60928 + requests)]
  /\ ~OnWindows(kind) => frontier.hooked = 60928

(* Libraries come in rows.  A row begins behind the executable or at a base  *)
(* a library asked for; one of the latter is begun by that library.  The row *)
(* that grows is the one dllNext ends.                                       *)
RowBases == FixedBases \cup {FirstLibraryBase(kind, image)}
InRow(lib, b, m) == b <= lib.lo /\ lib.hi <= b + MaxLibraries * m
Begun(b) == b \in FixedBases => \E j \in DOMAIN libraries : libraries[j].lo = b
Growing(b, m) ==
  /\ b <= dllNext /\ dllNext <= b + Len(libraries) * m
  /\ Begun(b)
  /\ \A i \in DOMAIN libraries : InRow(libraries[i], b, m) => libraries[i].hi <= dllNext
LibrariesInv(m) ==
  /\ libraries \in Seq([lo : Nat, hi : Nat]) /\ Len(libraries) <= MaxLibraries
  /\ \A i \in DOMAIN libraries :
       /\ libraries[i].lo < libraries[i].hi
       /\ \E b \in RowBases : InRow(libraries[i], b, m) /\ Begun(b)
  /\ \A i, j \in DOMAIN libraries : i # j => ~Overlap(libraries[i], libraries[j])
  /\ libraries # <<>> => OnWindows(kind) /\ image # Nowhere
  /\ OnWindows(kind) /\ image # Nowhere => dllNext \in Nat /\ \E b \in RowBases : Growing(b, m)

SpaceInv(m) == WindowsInv(m) /\ LibrariesInv(m)

-----------------------------------------------------------------------------
(* Products of natural numbers grow with their factors. *)
LEMMA Products ==
  ASSUME NEW m \in Nat, NEW n \in Nat, NEW k \in Nat, n <= k
  PROVE  n * m \in Nat /\ (n + 1) * m = n * m + m /\ n * m <= k * m
<1>1. PICK d \in Nat : k = n + d
  <2>1. k - n \in Nat /\ k = n + (k - n)
    OBVIOUS
  <2> QED
    BY <2>1, SMT
<1>2. k * m = n * m + d * m
  BY <1>1, SMT
<1>3. d * m \in Nat /\ n * m \in Nat
  OBVIOUS
<1> QED
  BY <1>2, <1>3, SMT

(* The bounds of what there is room for. *)
LEMMA RoomIs ==
  ASSUME NEW m, RoomFor(m)
  PROVE  /\ m \in Nat /\ 1 <= m /\ m <= 4096 /\ MaxLibraries \in Nat
         /\ MaxRequests \in Nat /\ MaxRequests <= 17712
         /\ Kinds \subseteq {"win64", "linux64", "pie64", "linux32"}
<1>1. m \in 1 .. 4096 /\ MaxRequests \in 0 .. 17712
  BY SMT DEF RoomFor, Extents
<1>2. MaxLibraries \in Nat /\ Kinds \subseteq {"win64", "linux64", "pie64", "linux32"}
  BY SMT DEF RoomFor, Extents
<1>3. m \in Nat /\ 1 <= m /\ m <= 4096
  BY <1>1, SMT
<1>4. MaxRequests \in Nat /\ MaxRequests <= 17712
  BY <1>1, SMT
<1> QED
  BY <1>2, <1>3, <1>4

(* What the invariant says of the program and its requests. *)
LEMMA KindIs ==
  ASSUME NEW m, WindowsInv(m)
  PROVE  kind \in Kinds /\ requests \in 0 .. MaxRequests
BY SMT DEF WindowsInv

(* The first row begins close behind a Windows executable. *)
LEMMA RowBasesIs ==
  ASSUME NEW m, RoomFor(m), WindowsInv(m), OnWindows(kind), image # Nowhere
  PROVE  /\ FirstLibraryBase(kind, image) \in 81920 .. (81920 + m + 15)
         /\ image.hi <= FirstLibraryBase(kind, image)
         /\ kind = "win64"
<1>1. kind = "win64"
  BY SMT DEF RoomFor, Extents, WindowsInv, OnWindows
<1>2. PICK s \in 1 .. m : image = At(81920, s)
  BY <1>1, SMT DEF WindowsInv, Images, ImageBase
<1>3. image.hi = 81920 + s
  BY <1>2, SMT DEF At
<1>4. m \in Nat
  BY SMT DEF RoomFor, Extents
<1> QED
  BY <1>1, <1>3, <1>4, SMT DEF FirstLibraryBase, RoundUp, Is64

(* The rows have room: none reaches another, and all of them lie outside of *)
(* every other area.                                                        *)
LEMMA RowsApart ==
  ASSUME NEW m, RoomFor(m), WindowsInv(m), OnWindows(kind), image # Nowhere,
         NEW b \in RowBases, NEW c \in RowBases
  PROVE  /\ b \in Nat
         /\ b < c => b + MaxLibraries * m <= c
         /\ \/ image.hi <= b /\ b + MaxLibraries * m <= 86016
            \/ 364544 <= b /\ b + MaxLibraries * m <= 2146828288
<1> DEFINE S == MaxLibraries * m
<1>1. m \in Nat /\ MaxLibraries \in Nat
  BY SMT DEF RoomFor, Extents
<1>2. S \in Nat /\ (MaxLibraries + 1) * m = S + m
  BY <1>1, Products, SMT
<1>3. S + m + 15 <= 4096
  BY <1>2, SMT DEF RoomFor, Extents
<1>4. \A f \in FixedBases : f \in Nat /\ 364544 <= f /\ f + S <= 2146828288
  BY <1>2, SMT DEF RoomFor, Extents
<1>5. \A f, g \in FixedBases : f < g => f + S <= g
  BY SMT DEF RoomFor, Extents
<1>6. /\ FirstLibraryBase(kind, image) \in 81920 .. (81920 + m + 15)
      /\ image.hi <= FirstLibraryBase(kind, image)
  BY RowBasesIs, SMT
<1> HIDE DEF S
<1>7. b \in FixedBases \/ b = FirstLibraryBase(kind, image)
  BY SMT DEF RowBases
<1>8. c \in FixedBases \/ c = FirstLibraryBase(kind, image)
  BY SMT DEF RowBases
<1>9. b \in Nat /\ b < c => b + S <= c
  BY <1>1, <1>2, <1>3, <1>4, <1>5, <1>6, <1>7, <1>8, SMT
<1>10. b \in Nat /\ \/ image.hi <= b /\ b + S <= 86016
                    \/ 364544 <= b /\ b + S <= 2146828288
  BY <1>1, <1>2, <1>3, <1>4, <1>6, <1>7, SMT
<1> QED
  BY <1>9, <1>10, SMT DEF S

-----------------------------------------------------------------------------
(* Nothing has been loaded: every frontier is at its window's beginning. *)
LEMMA InitSpace ==
  ASSUME NEW m, RoomFor(m), SpaceInit
  PROVE  SpaceInv(m)
<1>1. image = Nowhere /\ image.hi = 0 /\ interp = Nowhere /\ libraries = <<>> /\ requests = 0
  BY SMT DEF SpaceInit, Nowhere
<1>2. kind \in {"win64", "linux64", "pie64", "linux32"} /\ layout = ChooseLayout(kind, 0)
      /\ frontier = Frontiers(layout)
  BY SMT DEF SpaceInit, RoomFor
<1>3. frontier \in [heap : layout.heap .. layout.limit, mmap : layout.limit .. layout.mmap,
                    misc : layout.misc .. (layout.misc + 0), hooked : 60928 .. (60928 + 0)]
  BY <1>2, SMT DEF Frontiers, ChooseLayout, OnWindows, Is64
<1>4. frontier.hooked = 60928
  BY <1>2, SMT DEF Frontiers
<1>5. MaxRequests \in Nat /\ MaxLibraries \in Nat
  BY SMT DEF RoomFor, Extents
<1>6. WindowsInv(m)
  BY <1>1, <1>2, <1>3, <1>4, <1>5, SMT DEF WindowsInv, SpaceInit
<1>7. LibrariesInv(m)
  BY <1>1, <1>5, SMT DEF LibrariesInv
<1> QED
  BY <1>6, <1>7, SMT DEF SpaceInv

(* A Windows executable is loaded; the first row is empty. *)
LEMMA LoadWindowsKeeps ==
  ASSUME NEW m, RoomFor(m), SpaceInv(m), LoadWindows
  PROVE  SpaceInv(m)'
<1>1. PICK s \in ImageSizes : /\ image' = At(ImageBase(kind), s)
                              /\ dllNext' = FirstLibraryBase(kind, image')
  BY SMT DEF LoadWindows
<1>2. s \in 1 .. m /\ m \in Nat
  BY <1>1, SMT DEF RoomFor, Extents
<1>3. WindowsInv(m)'
  BY <1>1, <1>2, SMT DEF SpaceInv, WindowsInv, LoadWindows, Images
<1>4. libraries = <<>> /\ libraries' = libraries
  BY SMT DEF SpaceInv, LibrariesInv, LoadWindows
<1>5. image' # Nowhere /\ OnWindows(kind) /\ kind' = kind /\ RoomFor(m)'
  <2>1. image'.hi > 0 /\ Nowhere.hi = 0
    BY <1>1, <1>2, SMT DEF At, ImageBase, Nowhere, LoadWindows, OnWindows
  <2> QED
    BY <2>1, SMT DEF LoadWindows, RoomFor
<1>6. dllNext' \in Nat
  <2>1. kind = "win64" /\ ImageBase("win64") = 81920
    BY SMT DEF RoomFor, Extents, SpaceInv, WindowsInv, LoadWindows, OnWindows, ImageBase
  <2>2. image'.hi = 81920 + s
    BY <1>1, <2>1, SMT DEF At
  <2>3. dllNext' = RoundUp(image'.hi, 16)
    BY <1>1, <2>1, SMT DEF FirstLibraryBase, Is64
  <2> QED
    BY <1>2, <2>2, <2>3, SMT DEF RoundUp
<1>7. Growing(FirstLibraryBase(kind, image), m)'
  <2>1. DOMAIN libraries' = {} /\ Len(libraries') = 0
    BY <1>4, SMT
  <2>2. 0 * m = 0
    BY <1>2, SMT
  <2>3. (FirstLibraryBase(kind, image) = dllNext)'
    BY <1>1, <1>5, SMT
  <2>4. dllNext' <= dllNext' + Len(libraries') * m
    BY <1>6, <2>1, <2>2, SMT
  <2>5. Begun(dllNext)'
    <3>1. ASSUME dllNext' \in FixedBases' PROVE FALSE
      <4>1. dllNext' <= 82000 + 4096
        <5>1. kind = "win64" /\ ImageBase("win64") = 81920
          BY SMT DEF RoomFor, Extents, SpaceInv, WindowsInv, LoadWindows, OnWindows, ImageBase
        <5>2. image'.hi = 81920 + s
          BY <1>1, <5>1, SMT DEF At
        <5>3. dllNext' = RoundUp(image'.hi, 16)
          BY <1>1, <5>1, SMT DEF FirstLibraryBase, Is64
        <5>4. m <= 4096
          BY SMT DEF RoomFor, Extents
        <5> QED
          BY <1>2, <5>2, <5>3, <5>4, SMT DEF RoundUp
      <4>2. dllNext' >= 364544
        BY <3>1, SMT DEF RoomFor, Extents
      <4> QED
        BY <1>6, <4>1, <4>2, SMT
    <3> QED
      BY <3>1, SMT DEF Begun
  <2> QED
    BY <2>1, <2>3, <2>4, <2>5, <1>6, SMT DEF Growing
<1>8. LibrariesInv(m)'
  <2>1. FirstLibraryBase(kind, image)' \in RowBases'
    BY SMT DEF RowBases
  <2>2. libraries' = <<>> /\ Len(libraries') = 0 /\ 0 <= MaxLibraries
    BY <1>4, SMT DEF RoomFor, Extents
  <2>3. libraries' \in Seq([lo : Nat, hi : Nat]) /\ DOMAIN libraries' = {}
    BY <1>4, SMT
  <2> QED
    BY <1>6, <1>7, <2>1, <2>2, <2>3, SMT DEF LibrariesInv
<1> QED
  BY <1>3, <1>8, SMT DEF SpaceInv

(* A Linux program is loaded, and the layout is chosen behind it. *)
LEMMA LoadLinuxKeeps ==
  ASSUME NEW m, RoomFor(m), SpaceInv(m), LoadLinux
  PROVE  SpaceInv(m)'
<1>1. PICK s \in ImageSizes : image' = At(ImageBase(kind), s)
  BY SMT DEF LoadLinux
<1>2. s \in 1 .. m /\ m \in Nat /\ ImageSizes \subseteq 1 .. m
  BY <1>1, SMT DEF RoomFor, Extents
<1>3. kind' = kind /\ requests' = requests /\ libraries' = libraries /\ ~OnWindows(kind)
      /\ layout' = ChooseLayout(kind, image'.hi) /\ frontier' = Frontiers(layout')
      /\ kind \in {"linux64", "pie64", "linux32"} /\ requests \in 0 .. MaxRequests
  <2>1. WindowsInv(m)
    BY Zenon DEF SpaceInv
  <2>2. kind \in Kinds /\ requests \in 0 .. MaxRequests
    BY <2>1, KindIs
  <2>3. Kinds \subseteq {"win64", "linux64", "pie64", "linux32"}
    BY RoomIs
  <2>4. kind' = kind /\ requests' = requests /\ libraries' = libraries /\ ~OnWindows(kind)
        /\ layout' = ChooseLayout(kind, image'.hi) /\ frontier' = Frontiers(layout')
    BY Zenon DEF LoadLinux
  <2> QED
    BY <2>2, <2>3, <2>4, SMT DEF OnWindows
<1>4. image'.hi \in Nat
  BY <1>1, <1>2, <1>3, SMT DEF At, ImageBase
<1>5. /\ layout'.heap = image'.hi /\ layout'.limit = image'.hi + 4096
      /\ layout'.mmap \in Nat /\ layout'.misc \in Nat /\ layout'.limit <= layout'.mmap
  BY <1>3, <1>4, SMT DEF ChooseLayout, OnWindows, Is64
<1>6. frontier' \in [heap : layout'.heap .. layout'.limit, mmap : layout'.limit .. layout'.mmap,
                     misc : layout'.misc .. (layout'.misc + requests'),
                     hooked : 60928 .. (60928 + requests')]
      /\ frontier'.hooked = 60928
  BY <1>3, <1>4, <1>5, SMT DEF Frontiers
<1>7. image' \in Images(ImageBase(kind), m)
      /\ interp' \in {Nowhere} \cup Images(InterpBase(kind), m)
  BY <1>1, <1>2, SMT DEF LoadLinux, Images
<1>8. WindowsInv(m)'
  BY <1>3, <1>6, <1>7, SMT DEF WindowsInv, SpaceInv
<1>9. LibrariesInv(m)'
  <2>1. libraries = <<>>
    BY <1>3, SMT DEF SpaceInv, LibrariesInv
  <2>2. MaxLibraries \in Nat /\ ~OnWindows(kind)' /\ libraries' = <<>> /\ Len(libraries') = 0
    BY <1>3, <2>1, SMT DEF RoomFor, Extents
  <2>3. libraries' \in Seq([lo : Nat, hi : Nat]) /\ DOMAIN libraries' = {}
    BY <2>2, SMT
  <2> QED
    BY <2>2, <2>3, SMT DEF LibrariesInv
<1> QED
  BY <1>8, <1>9, SMT DEF SpaceInv

(* A request moves one frontier, within its window. *)
LEMMA RequestKeeps ==
  ASSUME NEW m, RoomFor(m), SpaceInv(m), Request, OnWindows(kind) \/ frontier'.hooked = frontier.hooked,
         \/ \E n \in Requests : frontier' = [frontier EXCEPT !.heap = Grown(@, n, layout.limit)]
         \/ \E n \in Requests : frontier' = [frontier EXCEPT !.mmap = Grown(@, n, layout.mmap)]
         \/ frontier' = [frontier EXCEPT !.misc = @ + 1]
         \/ frontier' = [frontier EXCEPT !.hooked = @ + 1]
  PROVE  SpaceInv(m)'
<1>1. /\ kind' = kind /\ layout' = layout /\ image' = image /\ interp' = interp
      /\ libraries' = libraries /\ dllNext' = dllNext /\ requests' = requests + 1
      /\ requests < MaxRequests
  BY SMT DEF Request
<1>2. MaxRequests \in Nat /\ requests \in Nat /\ requests' \in 0 .. MaxRequests
  <2>1. MaxRequests \in Nat
    BY RoomIs
  <2>2. requests \in 0 .. MaxRequests
    BY KindIs, Zenon DEF SpaceInv
  <2>3. requests' = requests + 1 /\ requests < MaxRequests
    BY <1>1, Zenon
  <2> QED
    BY <2>1, <2>2, <2>3, SMT
<1> DEFINE F(h, l, p, c, r) == [heap : h .. l, mmap : l .. p, misc : c .. (c + r), hooked : 60928 .. (60928 + r)]
<1>3. frontier \in F(layout.heap, layout.limit, layout.mmap, layout.misc, requests)
  BY SMT DEF SpaceInv, WindowsInv
<1>4. layout.heap \in Nat /\ layout.limit \in Nat /\ layout.mmap \in Nat /\ layout.misc \in Nat
  <2>1. layout = ChooseLayout(kind, IF OnWindows(kind) THEN 0 ELSE image.hi)
        /\ kind \in {"win64", "linux64", "pie64", "linux32"}
    <3>1. kind \in Kinds /\ Kinds \subseteq {"win64", "linux64", "pie64", "linux32"}
      <4>1. WindowsInv(m)
        BY Zenon DEF SpaceInv
      <4>2. kind \in Kinds
        BY <4>1, KindIs
      <4>3. Kinds \subseteq {"win64", "linux64", "pie64", "linux32"}
        BY RoomIs
      <4> QED
        BY <4>2, <4>3
    <3>2. layout = ChooseLayout(kind, IF OnWindows(kind) THEN 0 ELSE image.hi)
      BY SMT DEF SpaceInv, WindowsInv
    <3> QED
      BY <3>1, <3>2, SMT
  <2>2. image.hi \in Nat
    <3>1. image = Nowhere \/ \E s \in 1 .. m : image = At(ImageBase(kind), s)
      BY SMT DEF SpaceInv, WindowsInv, Images
    <3>2. m \in Nat /\ ImageBase(kind) \in Nat
      <4>1. m \in Nat
        BY RoomIs
      <4>2. ImageBase(kind) \in Nat
        BY <2>1, SMT DEF ImageBase
      <4> QED
        BY <4>1, <4>2
    <3> QED
      BY <3>1, <3>2, SMT DEF At, Nowhere
  <2> QED
    BY <2>1, <2>2, SMT DEF ChooseLayout, OnWindows, Is64
<1>5. \A n \in Requests : n \in Nat
  BY SMT DEF RoomFor, Extents
<1>6. frontier' \in F(layout.heap, layout.limit, layout.mmap, layout.misc, requests + 1)
  <2>1. CASE \E n \in Requests : frontier' = [frontier EXCEPT !.heap = Grown(@, n, layout.limit)]
    BY <1>2, <1>3, <1>4, <1>5, <2>1, SMT DEF Grown
  <2>2. CASE \E n \in Requests : frontier' = [frontier EXCEPT !.mmap = Grown(@, n, layout.mmap)]
    BY <1>2, <1>3, <1>4, <1>5, <2>2, SMT DEF Grown
  <2>3. CASE frontier' = [frontier EXCEPT !.misc = @ + 1]
    BY <1>2, <1>3, <1>4, <2>3, SMT
  <2>4. CASE frontier' = [frontier EXCEPT !.hooked = @ + 1]
    BY <1>2, <1>3, <1>4, <2>4, SMT
  <2> QED
    BY <2>1, <2>2, <2>3, <2>4, SMT
<1>7. WindowsInv(m)'
  BY <1>1, <1>2, <1>6, SMT DEF WindowsInv, SpaceInv
<1>8. LibrariesInv(m)'
  BY <1>1, SMT DEF SpaceInv, LibrariesInv, RowBases, InRow, Begun, Growing
<1> QED
  BY <1>7, <1>8, SMT DEF SpaceInv

(* A library begins a row of its own, or goes to the end of the one that grows. *)
LEMMA LoadedKeeps ==
  ASSUME NEW m, RoomFor(m), SpaceInv(m), OnWindows(kind), image # Nowhere, leftovers = {},
         Len(libraries) < MaxLibraries,
         NEW size \in 1 .. m, NEW b \in RowBases, NEW base,
         \/ Growing(b, m) /\ base = dllNext
         \/ base = b /\ b \in FixedBases /\ ~IsMapped(b),
         Loaded(At(base, size)), UNCHANGED <<kind, image>>
  PROVE  LibrariesInv(m)'
<1> DEFINE S == MaxLibraries * m
           lib == At(base, size)
           n == Len(libraries)
<1>1. /\ libraries \in Seq([lo : Nat, hi : Nat]) /\ n \in Nat /\ DOMAIN libraries = 1 .. n
      /\ m \in Nat /\ MaxLibraries \in Nat /\ dllNext \in Nat
  <2>1. m \in Nat /\ MaxLibraries \in Nat
    BY RoomIs
  <2>2. libraries \in Seq([lo : Nat, hi : Nat]) /\ (OnWindows(kind) /\ image # Nowhere => dllNext \in Nat)
    BY Zenon DEF SpaceInv, LibrariesInv
  <2> QED
    BY <2>1, <2>2
<1>0. /\ LibrariesInv(m)
      /\ \A i \in 1 .. n : /\ libraries[i] \in [lo : Nat, hi : Nat]
                          /\ libraries[i].lo < libraries[i].hi
                          /\ \E c \in RowBases : InRow(libraries[i], c, m) /\ Begun(c)
      /\ \A i, j \in 1 .. n : i # j => ~Overlap(libraries[i], libraries[j])
  <2>1. LibrariesInv(m)
    BY DEF SpaceInv
  <2>2. \A i \in 1 .. n : libraries[i] \in [lo : Nat, hi : Nat]
    <3>1. libraries \in Seq([lo : Nat, hi : Nat])
      BY <1>1
    <3> QED
      BY <3>1, ElementOfSeq
  <2>3. \A i \in DOMAIN libraries :
          /\ libraries[i].lo < libraries[i].hi
          /\ \E c \in RowBases : InRow(libraries[i], c, m) /\ Begun(c)
    BY <2>1, Zenon DEF LibrariesInv
  <2>4. \A i, j \in DOMAIN libraries : i # j => ~Overlap(libraries[i], libraries[j])
    BY <2>1, Zenon DEF LibrariesInv
  <2> HIDE DEF n
  <2> QED
    BY <1>1, <2>1, <2>2, <2>3, <2>4, Zenon
<1>2. S \in Nat /\ n * m \in Nat /\ (n + 1) * m = n * m + m /\ (n + 1) * m <= S /\ m <= (n + 1) * m
  <2>1. n + 1 \in Nat /\ n + 1 <= MaxLibraries /\ n <= n
    BY <1>1, SMT
  <2>2. (n + 1) * m <= S /\ n * m \in Nat /\ (n + 1) * m = n * m + m
    <3> HIDE DEF n, S
    <3>1. (n + 1) * m <= MaxLibraries * m
      BY <1>1, <2>1, Products, SMT
    <3>2. n * m \in Nat /\ (n + 1) * m = n * m + m
      BY <1>1, <2>1, Products, SMT
    <3> QED
      BY <3>1, <3>2 DEF S
  <2>3. S \in Nat
    BY <1>1, Products, SMT
  <2> QED
    BY <1>1, <2>2, <2>3, SMT
<1> DEFINE later == (n + 1) * m
<1>3. b \in Nat /\ \A c \in RowBases : c \in Nat /\ (b < c => b + S <= c) /\ (c < b => c + S <= b)
  BY RowsApart, SMT DEF SpaceInv
<1>4. base \in Nat /\ b <= base /\ base + size <= b + later
  <2>1. CASE Growing(b, m) /\ base = dllNext
    <3>1. b <= dllNext /\ dllNext <= b + n * m
      BY <2>1, SMT DEF Growing
    <3> QED
      BY <1>1, <1>2, <1>3, <2>1, <3>1, SMT
  <2>2. CASE base = b
    <3> HIDE DEF S, later
    <3>1. later \in Nat /\ m <= later
      BY <1>1, <1>2, SMT DEF later
    <3> QED
      BY <1>1, <1>3, <2>2, <3>1, SMT
  <2> QED
    BY <2>1, <2>2, SMT
<1>5. lib.lo = base /\ lib.hi = base + size /\ lib \in [lo : Nat, hi : Nat] /\ lib.lo < lib.hi
  BY <1>1, <1>4, SMT DEF At
<1>6. /\ libraries' = Append(libraries, lib) /\ dllNext' = lib.hi
      /\ Len(libraries') = n + 1 /\ DOMAIN libraries' = 1 .. (n + 1)
      /\ libraries' \in Seq([lo : Nat, hi : Nat])
      /\ \A i \in 1 .. n : libraries'[i] = libraries[i]
      /\ libraries'[n + 1] = lib
  BY <1>1, <1>5, SMT DEF Loaded
<1>7. RowBases' = RowBases /\ OnWindows(kind)' /\ (image # Nowhere)'
  BY SMT DEF RowBases
<1>8. \A c : Begun(c) => Begun(c)'
  BY <1>1, <1>6, SMT DEF Begun
<1>9. \A i \in 1 .. n : libraries[i] \in [lo : Nat, hi : Nat] /\ libraries[i].lo < libraries[i].hi
  BY <1>0
<1> HIDE DEF S, n, later
\* What is in the row already lies below the library.
<1>10. \A i \in 1 .. n : InRow(libraries[i], b, m) => libraries[i].hi <= base
  <2> SUFFICES ASSUME NEW i \in 1 .. n, InRow(libraries[i], b, m)
               PROVE  libraries[i].hi <= base
    OBVIOUS
  <2>1. CASE Growing(b, m) /\ base = dllNext
    <3>1. \A k \in DOMAIN libraries : InRow(libraries[k], b, m) => libraries[k].hi <= dllNext
      BY <2>1, Zenon DEF Growing
    <3> QED
      BY <1>1, <2>1, <3>1, Zenon
  <2>2. CASE base = b /\ b \in FixedBases /\ ~IsMapped(b)
    <3>1. PICK c \in RowBases : InRow(libraries[i], c, m) /\ Begun(c)
      BY <1>0, Zenon
    <3>2. b <= libraries[i].lo /\ libraries[i].hi <= b + S /\ c <= libraries[i].lo /\ libraries[i].hi <= c + S
      BY <3>1, SMT DEF InRow, S
    <3>3. c = b
      BY <1>2, <1>3, <1>9, <3>2, SMT
    <3>4. PICK j \in 1 .. n : libraries[j].lo = b
      BY <1>1, <2>2, <3>1, <3>3, SMT DEF Begun
    <3>5. libraries[j].lo \in Nat /\ libraries[j].hi \in Nat /\ libraries[j].lo < libraries[j].hi
      BY <1>9, SMT
    <3>6. b \in libraries[j].lo .. (libraries[j].hi - 1)
      BY <3>4, <3>5, SMT
    <3>7. [use |-> <<"library", j>>, at |-> libraries[j]] \in Areas
      <4>1. j \in DOMAIN libraries
        BY <1>1
      <4> QED
        BY <4>1, SMT DEF Areas
    <3>8. IsMapped(b)
      BY <3>6, <3>7, SMT DEF IsMapped
    <3> QED
      BY <2>2, <3>8, SMT
  <2> QED
    BY <2>1, <2>2, SMT
\* What is in another row is apart from it.
<1>11. \A i \in 1 .. n : ~Overlap(libraries[i], lib) /\ ~Overlap(lib, libraries[i])
  <2> SUFFICES ASSUME NEW i \in 1 .. n
               PROVE  libraries[i].hi <= base \/ base + size <= libraries[i].lo
    BY <1>5, <1>9, SMT DEF Overlap
  <2>1. PICK c \in RowBases : InRow(libraries[i], c, m)
    BY <1>0, Zenon
  <2>2. c <= libraries[i].lo /\ libraries[i].hi <= c + S
    BY <2>1, SMT DEF InRow, S
  <2>3. CASE c = b
    BY <1>10, <2>1, <2>3, SMT
  <2>4. CASE c # b
    <3>1. c \in Nat /\ (b < c => b + S <= c) /\ (c < b => c + S <= b) /\ b \in Nat
      BY <1>3, <2>1
    <3>2. base + size <= b + S
      BY <1>1, <1>2, <1>3, <1>4, SMT DEF later
    <3>3. libraries[i].lo \in Nat /\ libraries[i].hi \in Nat
      BY <1>9
    <3> QED
      <4> HIDE DEF InRow
      <4>1. size \in Nat /\ base \in Nat /\ b <= base /\ S \in Nat
        BY <1>1, <1>2, <1>4
      <4>2. CASE b < c
        BY <2>2, <3>1, <3>2, <3>3, <4>1, <4>2, SMT
      <4>3. CASE c < b
        BY <2>2, <3>1, <3>2, <3>3, <4>1, <4>3, SMT
      <4> QED
        BY <2>4, <3>1, <4>2, <4>3, SMT
  <2> QED
    BY <2>3, <2>4, SMT
<1>12. InRow(lib, b, m)
  <2>1. base + size <= b + S
    BY <1>1, <1>2, <1>3, <1>4, SMT DEF later
  <2> QED
    BY <1>4, <1>5, <2>1 DEF InRow, S
<1>13. Begun(b)'
  <2>1. CASE Growing(b, m)
    BY <1>8, <2>1, SMT DEF Growing
  <2>2. CASE base = b
    <3>1. n + 1 \in DOMAIN libraries' /\ libraries'[n + 1].lo = b
      BY <1>1, <1>5, <1>6, <2>2
    <3> QED
      BY <3>1, Zenon DEF Begun
  <2> QED
    BY <2>1, <2>2, SMT
<1>14. Growing(b, m)'
  <2>1. b <= dllNext' /\ dllNext' <= b + Len(libraries') * m
    BY <1>1, <1>3, <1>4, <1>5, <1>6, SMT DEF later
  <2>2. \A i \in 1 .. (n + 1) : InRow(libraries'[i], b, m) => libraries'[i].hi <= dllNext'
    <3>1. \A i \in 1 .. n : InRow(libraries'[i], b, m) => libraries'[i].hi <= dllNext'
      BY <1>1, <1>4, <1>5, <1>6, <1>9, <1>10, SMT
    <3>2. libraries'[n + 1].hi <= dllNext'
      BY <1>5, <1>6, SMT
    <3>3. \A i \in 1 .. (n + 1) : i \in 1 .. n \/ i = n + 1
      BY <1>1, SMT
    <3> QED
      BY <3>1, <3>2, <3>3, Zenon
  <2> QED
    BY <1>6, <1>13, <2>1, <2>2, SMT DEF Growing, InRow
<1>15. \A i \in 1 .. (n + 1) : /\ libraries'[i].lo < libraries'[i].hi
                               /\ \E c \in RowBases : InRow(libraries'[i], c, m) /\ Begun(c)'
  <2>1. ASSUME NEW i \in 1 .. n
        PROVE  /\ libraries'[i].lo < libraries'[i].hi
               /\ \E c \in RowBases : InRow(libraries'[i], c, m) /\ Begun(c)'
    <3>1. PICK c \in RowBases : InRow(libraries[i], c, m) /\ Begun(c)
      BY <1>0, Zenon
    <3>2. Begun(c)' /\ libraries'[i] = libraries[i]
      BY <1>6, <1>8, <3>1, Zenon
    <3> QED
      BY <1>9, <3>1, <3>2, Zenon
  <2>2. \E c \in RowBases : InRow(libraries'[n + 1], c, m) /\ Begun(c)'
    BY <1>6, <1>12, <1>13, Zenon
  <2>3. libraries'[n + 1].lo < libraries'[n + 1].hi
    BY <1>5, <1>6, Zenon
  <2>4. \A i \in 1 .. (n + 1) : i \in 1 .. n \/ i = n + 1
    BY <1>1, SMT
  <2> QED
    BY <2>1, <2>2, <2>3, <2>4, Zenon
<1>16. \A i, j \in 1 .. (n + 1) : i # j => ~Overlap(libraries'[i], libraries'[j])
  <2>1. \A i, j \in 1 .. n : i # j => ~Overlap(libraries[i], libraries[j])
    BY <1>0, Zenon
  <2>2. \A i \in 1 .. (n + 1) : i \in 1 .. n \/ i = n + 1
    BY <1>1, SMT DEF n
  <2> QED
    <3> SUFFICES ASSUME NEW i \in 1 .. (n + 1), NEW j \in 1 .. (n + 1), i # j
                 PROVE  ~Overlap(libraries'[i], libraries'[j])
      BY Zenon
    <3>1. CASE i \in 1 .. n /\ j \in 1 .. n
      BY <1>6, <2>1, <3>1, Zenon
    <3>2. CASE i = n + 1 /\ j \in 1 .. n
      BY <1>6, <1>11, <3>2, Zenon
    <3>3. CASE i \in 1 .. n /\ j = n + 1
      BY <1>6, <1>11, <3>3, Zenon
    <3> QED
      BY <2>2, <3>1, <3>2, <3>3
<1>17. dllNext' \in Nat /\ Len(libraries') <= MaxLibraries
  BY <1>1, <1>5, <1>6, SMT DEF n
<1>18. \A i \in DOMAIN libraries' :
         /\ libraries'[i].lo < libraries'[i].hi
         /\ \E c \in RowBases' : InRow(libraries[i], c, m)' /\ Begun(c)'
  BY <1>6, <1>7, <1>15, Zenon DEF InRow
<1>19. \A i, j \in DOMAIN libraries' : i # j => ~Overlap(libraries'[i], libraries'[j])
  BY <1>6, <1>16, Zenon
<1>20. \E c \in RowBases' : Growing(c, m)'
  BY <1>7, <1>14, Zenon
<1> QED
  BY <1>6, <1>7, <1>17, <1>18, <1>19, <1>20, Zenon DEF LibrariesInv

(* A library is loaded, or refused. *)
LEMMA LoadLibraryKeeps ==
  ASSUME NEW m, RoomFor(m), SpaceInv(m), LoadLibrary
  PROVE  SpaceInv(m)'
<1>1. PICK size \in ImageSizes, fixed \in FixedBases \cup {0}, code \in BOOLEAN :
        IF fixed # 0 /\ code /\ At(LibraryBase(fixed), size).lo # fixed
        THEN Refused(At(LibraryBase(fixed), size))
        ELSE Loaded(At(LibraryBase(fixed), size))
  BY Zenon DEF LoadLibrary
<1>2. /\ UNCHANGED <<kind, layout, image, interp, frontier, requests>>
      /\ OnWindows(kind) /\ image # Nowhere /\ leftovers = {} /\ Len(libraries) < MaxLibraries
  BY Zenon DEF LoadLibrary
<1>3. size \in 1 .. m
  <2>1. ImageSizes \subseteq 1 .. m
    BY SMT DEF RoomFor, Extents
  <2> QED
    BY <2>1
<1>4. WindowsInv(m)'
  BY <1>2, SMT DEF SpaceInv, WindowsInv
<1>5. WindowsInv(m) /\ LibrariesInv(m)
  BY Zenon DEF SpaceInv
<1>6. LibrariesInv(m)'
  <2>1. CASE Refused(At(LibraryBase(fixed), size))
    <3>1. UNCHANGED <<libraries, dllNext>>
      BY <2>1, Zenon DEF Refused
    <3> QED
      BY <1>2, <1>5, <3>1, SMT DEF LibrariesInv, RowBases, InRow, Begun, Growing
  <2>2. CASE Loaded(At(LibraryBase(fixed), size))
    <3>1. CASE fixed # 0 /\ ~IsMapped(fixed)
      <4>1. fixed \in RowBases /\ fixed \in FixedBases
        BY <3>1, Zenon DEF RowBases
      <4>2. LibraryBase(fixed) = fixed
        BY <3>1, Zenon DEF LibraryBase
      <4> QED
        BY <1>2, <1>3, <2>2, <3>1, <4>1, <4>2, LoadedKeeps, Zenon
    <3>2. CASE ~(fixed # 0 /\ ~IsMapped(fixed))
      <4>1. PICK b \in RowBases : Growing(b, m)
        BY <1>2, <1>5, Zenon DEF LibrariesInv
      <4>2. LibraryBase(fixed) = dllNext
        BY <3>2, Zenon DEF LibraryBase
      <4> QED
        BY <1>2, <1>3, <2>2, <4>1, <4>2, LoadedKeeps, Zenon
    <3> QED
      BY <3>1, <3>2
  <2> QED
    BY <1>1, <2>1, <2>2, Zenon
<1> QED
  BY <1>4, <1>6, Zenon DEF SpaceInv

(* Every step keeps the invariant. *)
LEMMA SpaceNextKeeps ==
  ASSUME NEW m, RoomFor(m), SpaceInv(m), [SpaceNext]_spaceVars
  PROVE  SpaceInv(m)'
<1>1. CASE LoadWindows
  BY <1>1, LoadWindowsKeeps
<1>2. CASE LoadLinux
  BY <1>2, LoadLinuxKeeps
<1>3. CASE LoadLibrary
  BY <1>3, LoadLibraryKeeps
<1>4. WindowsInv(m)
  BY Zenon DEF SpaceInv
<1>5. frontier \in [heap : layout.heap .. layout.limit, mmap : layout.limit .. layout.mmap,
                    misc : layout.misc .. (layout.misc + requests),
                    hooked : 60928 .. (60928 + requests)]
  BY <1>4, SMT DEF WindowsInv
<1>6. CASE GrowHeap
  <2>1. Request /\ \E n \in Requests : frontier' = [frontier EXCEPT !.heap = Grown(@, n, layout.limit)]
    BY <1>6, Zenon DEF GrowHeap
  <2>2. frontier'.hooked = frontier.hooked
    BY <1>5, <2>1, SMT
  <2> QED
    BY <2>1, <2>2, RequestKeeps, Zenon
<1>7. CASE GrowMmap
  <2>1. Request /\ \E n \in Requests : frontier' = [frontier EXCEPT !.mmap = Grown(@, n, layout.mmap)]
    BY <1>7, Zenon DEF GrowMmap
  <2>2. frontier'.hooked = frontier.hooked
    BY <1>5, <2>1, SMT
  <2> QED
    BY <2>1, <2>2, RequestKeeps, Zenon
<1>8. CASE GrowMisc
  <2>1. Request /\ frontier' = [frontier EXCEPT !.misc = @ + 1]
    BY <1>8, Zenon DEF GrowMisc
  <2>2. frontier'.hooked = frontier.hooked
    BY <1>5, <2>1, SMT
  <2> QED
    BY <2>1, <2>2, RequestKeeps, Zenon
<1>9. CASE HookedModule
  <2>1. Request /\ OnWindows(kind) /\ frontier' = [frontier EXCEPT !.hooked = @ + 1]
    BY <1>9, Zenon DEF HookedModule
  <2> QED
    BY <2>1, RequestKeeps, Zenon
<1>10. CASE UNCHANGED spaceVars
  BY <1>10, SMT DEF spaceVars, SpaceInv, WindowsInv, LibrariesInv, RowBases, InRow, Begun, Growing
<1> QED
  BY <1>1, <1>2, <1>3, <1>6, <1>7, <1>8, <1>9, <1>10, Zenon DEF SpaceNext

-----------------------------------------------------------------------------
(* The window of a use that has one, as large as it can become. *)
Uses == {"stack", "image", "heap", "mmap", "misc", "hooks"}
        \cup (IF OnWindows(kind) THEN {"hooked", "teb"} ELSE {"interp"})
Window(u, m) ==
  CASE u = "stack"  -> layout.stack
    [] u = "image"  -> image
    [] u = "interp" -> At(InterpBase(kind), m)
    [] u = "heap"   -> [lo |-> layout.heap, hi |-> layout.limit]
    [] u = "mmap"   -> [lo |-> layout.limit, hi |-> layout.mmap]
    [] u = "misc"   -> At(layout.misc, 17712)
    [] u = "hooks"  -> At(layout.hooks, 1)
    [] u = "hooked" -> At(60928, 17712)
    [] u = "teb"    -> layout.teb

Fixed(a) == a.use[1] # "library"
Before(a, b) == a.lo \in Nat /\ a.hi \in Nat /\ b.lo \in Nat /\ b.hi \in Nat /\ a.hi <= b.lo

(* What the layout says of each kind of program. *)
LEMMA LayoutIs ==
  ASSUME NEW m, RoomFor(m), WindowsInv(m), image # Nowhere
  PROVE  \E s \in 1 .. m :
    /\ image.lo = ImageBase(kind) /\ image.hi = ImageBase(kind) + s
    /\ \/ /\ kind = "win64" /\ image.lo = 81920
          /\ layout.stack.lo = 48 /\ layout.stack.hi = 176
          /\ layout.heap = 86016 /\ layout.limit = 102400 /\ layout.mmap = 364544
          /\ layout.hooks = 2146893824 /\ layout.misc = 2146893952
          /\ layout.teb.lo = 2146828288 /\ layout.teb.hi = 2146828289
       \/ /\ kind \in {"linux64", "pie64"} /\ image.lo \in {64, 1431655765}
          /\ layout.stack.lo = 2147483504 /\ layout.stack.hi = 2147483632
          /\ layout.heap = image.hi /\ layout.limit = image.hi + 4096
          /\ layout.mmap = image.hi + 266240
          /\ layout.hooks = 2146893824 /\ layout.misc = 2146893952
          /\ InterpBase(kind) = 2130706432
       \/ /\ kind = "linux32" /\ image.lo = 2052
          /\ layout.stack.lo = 49072 /\ layout.stack.hi = 49136
          /\ layout.heap = image.hi /\ layout.limit = image.hi + 4096
          /\ layout.mmap = image.hi + 8192
          /\ layout.hooks = 31232 /\ layout.misc = 31360
          /\ InterpBase(kind) = 24576
<1>1. PICK s \in 1 .. m : image = At(ImageBase(kind), s)
  BY SMT DEF WindowsInv, Images
<1>2. layout = ChooseLayout(kind, IF OnWindows(kind) THEN 0 ELSE image.hi)
  BY SMT DEF WindowsInv
<1>3. kind \in {"win64", "linux64", "pie64", "linux32"}
  BY RoomIs, KindIs
<1>4. m \in Nat
  BY RoomIs
<1>5. image.lo = ImageBase(kind) /\ image.hi = ImageBase(kind) + s
  BY <1>1, SMT DEF At
<1>6. CASE kind = "win64"
  BY <1>1, <1>2, <1>5, <1>6, SMT DEF ChooseLayout, OnWindows, Is64, ImageBase, At
<1>7. CASE kind \in {"linux64", "pie64"}
  <2>1. ImageBase(kind) \in {64, 1431655765} /\ InterpBase(kind) = 2130706432
    BY <1>7, SMT DEF ImageBase, InterpBase, Is64
  <2>2. image.hi \in Nat
    BY <1>4, <1>5, <2>1, SMT
  <2> QED
    BY <1>2, <1>5, <1>7, <2>1, <2>2, SMT DEF ChooseLayout, OnWindows, Is64, At
<1>8. CASE kind = "linux32"
  <2>1. ImageBase(kind) = 2052 /\ InterpBase(kind) = 24576
    BY <1>8, SMT DEF ImageBase, InterpBase, Is64
  <2>2. image.hi \in Nat
    BY <1>4, <1>5, <2>1, SMT
  <2> QED
    BY <1>2, <1>5, <1>8, <2>1, <2>2, SMT DEF ChooseLayout, OnWindows, Is64, At
<1> QED
  BY <1>3, <1>6, <1>7, <1>8, SMT

(* The window of each use. *)
LEMMA WindowIs ==
  ASSUME NEW m
  PROVE  /\ Window("stack", m) = layout.stack /\ Window("image", m) = image
         /\ Window("interp", m).lo = InterpBase(kind) /\ Window("interp", m).hi = InterpBase(kind) + m
         /\ Window("heap", m).lo = layout.heap /\ Window("heap", m).hi = layout.limit
         /\ Window("mmap", m).lo = layout.limit /\ Window("mmap", m).hi = layout.mmap
         /\ Window("misc", m).lo = layout.misc /\ Window("misc", m).hi = layout.misc + 17712
         /\ Window("hooks", m) = At(layout.hooks, 1)
         /\ Window("hooks", m).lo = layout.hooks /\ Window("hooks", m).hi = layout.hooks + 1
         /\ Window("hooked", m).lo = 60928 /\ Window("hooked", m).hi = 78640
         /\ Window("teb", m) = layout.teb
BY SMT DEF Window, At

(* The windows are apart. *)
LEMMA WindowsApart ==
  ASSUME NEW m, RoomFor(m), WindowsInv(m), image # Nowhere,
         NEW u \in Uses, NEW v \in Uses, u # v
  PROVE  Before(Window(u, m), Window(v, m)) \/ Before(Window(v, m), Window(u, m))
<1>1. m \in Nat /\ 1 <= m /\ m <= 4096
  BY RoomIs
<1>3. CASE OnWindows(kind)
  <2>1. /\ kind = "win64" /\ image.lo = 81920 /\ image.hi \in Nat /\ image.hi <= 86016
        /\ layout.stack.lo = 48 /\ layout.stack.hi = 176
        /\ layout.heap = 86016 /\ layout.limit = 102400 /\ layout.mmap = 364544
        /\ layout.hooks = 2146893824 /\ layout.misc = 2146893952
        /\ layout.teb.lo = 2146828288 /\ layout.teb.hi = 2146828289
    BY LayoutIs, <1>1, <1>3, SMT DEF OnWindows
  <2>2. {u, v} \subseteq {"stack", "image", "heap", "mmap", "misc", "hooks", "hooked", "teb"}
    BY <1>3, SMT DEF Uses
  <2> QED
    BY WindowIs, <2>1, <2>2, SMT DEF Before
<1>4. CASE ~OnWindows(kind)
  <2>1. u \in {"stack", "image", "heap", "mmap", "misc", "hooks", "interp"}
        /\ v \in {"stack", "image", "heap", "mmap", "misc", "hooks", "interp"}
    BY <1>4, SMT DEF Uses
  <2> QED
    BY LayoutIs, WindowIs, <1>1, <1>4, <2>1, SMT DEF Before, OnWindows
<1> QED
  BY <1>3, <1>4

(* An area that is not a library's lies within the window of its use. *)
Inside(a, w) ==
  \/ a = w
  \/ a.lo \in Nat /\ a.hi \in Nat /\ w.lo <= a.lo /\ a.hi <= w.hi
LEMMA FixedIsWithin ==
  ASSUME NEW m, RoomFor(m), WindowsInv(m), image # Nowhere, NEW a \in Areas, Fixed(a)
  PROVE  \E u :
           /\ a.use = <<u, 0>>
           /\ Extent(a.at) = 0 \/ (u \in Uses /\ Inside(a.at, Window(u, m)))
<1>1. m \in Nat /\ MaxRequests <= 17712 /\ MaxRequests \in Nat /\ requests \in 0 .. MaxRequests
  BY RoomIs, KindIs
<1>2. /\ frontier.heap \in layout.heap .. layout.limit
      /\ frontier.mmap \in layout.limit .. layout.mmap
      /\ frontier.misc \in layout.misc .. (layout.misc + requests)
      /\ frontier.hooked \in 60928 .. (60928 + requests)
      /\ ~OnWindows(kind) => frontier.hooked = 60928
      /\ \/ interp = Nowhere
         \/ ~OnWindows(kind) /\ \E s \in 1 .. m : interp = At(InterpBase(kind), s)
  BY SMT DEF WindowsInv, Images
<1>3. /\ "stack" \in Uses /\ "image" \in Uses /\ "heap" \in Uses /\ "mmap" \in Uses /\ "misc" \in Uses
      /\ "hooks" \in Uses /\ (OnWindows(kind) => "hooked" \in Uses /\ "teb" \in Uses)
      /\ (~OnWindows(kind) => "interp" \in Uses)
  BY SMT DEF Uses
<1>5. layout.misc \in Nat /\ InterpBase(kind) \in Nat
      /\ layout.heap \in Nat /\ layout.limit \in Nat /\ layout.mmap \in Nat
  <2>1. layout.misc \in Nat /\ layout.heap \in Nat /\ layout.limit \in Nat /\ layout.mmap \in Nat
    BY LayoutIs, <1>1, SMT
  <2>2. InterpBase(kind) \in Nat
    BY SMT DEF InterpBase
  <2> QED
    BY <2>1, <2>2
<1> DEFINE Is(use, place) == a.use = <<use, 0>> /\ a.at = place
           Ok(u) == a.use = <<u, 0>> /\ (Extent(a.at) = 0 \/ (u \in Uses /\ Inside(a.at, Window(u, m))))
<1>6. \/ Is("stack", layout.stack)
      \/ Is("image", image)
      \/ Is("interp", interp)
      \/ Is("heap", [lo |-> layout.heap, hi |-> frontier.heap])
      \/ Is("mmap", [lo |-> layout.limit, hi |-> frontier.mmap])
      \/ Is("misc", [lo |-> layout.misc, hi |-> frontier.misc])
      \/ Is("hooks", At(layout.hooks, 1))
      \/ Is("hooked", [lo |-> 60928, hi |-> frontier.hooked])
      \/ OnWindows(kind) /\ Is("teb", layout.teb)
  BY SMT DEF Areas, Fixed
<1> HIDE DEF Is
<1>7. ASSUME Is("interp", interp) PROVE Ok("interp")
  <2>0. a.use = <<"interp", 0>> /\ a.at = interp
    BY <1>7, Zenon DEF Is
  <2>1. CASE interp = Nowhere
    <3>1. Extent(interp) = 0
      BY <2>1, SMT DEF Extent, Nowhere
    <3> QED
      BY <2>0, <3>1, Zenon
  <2>2. CASE ~OnWindows(kind) /\ \E s \in 1 .. m : interp = At(InterpBase(kind), s)
    <3>1. interp.lo \in Nat /\ interp.hi \in Nat /\ InterpBase(kind) <= interp.lo
          /\ interp.hi <= InterpBase(kind) + m
      BY <1>1, <1>5, <2>2, SMT DEF At
    <3>2. Inside(interp, Window("interp", m))
      BY WindowIs, <3>1, SMT DEF Inside
    <3> QED
      BY <1>3, <2>0, <2>2, <3>2, Zenon
  <2> QED
    BY <1>2, <2>1, <2>2, SMT
<1>8. ASSUME Is("hooked", [lo |-> 60928, hi |-> frontier.hooked]) PROVE Ok("hooked")
  <2>0. a.use = <<"hooked", 0>> /\ a.at = [lo |-> 60928, hi |-> frontier.hooked]
    BY <1>8, SMT DEF Is
  <2>1. CASE ~OnWindows(kind)
    <3>1. Extent(a.at) = 0
      BY <1>2, <2>0, <2>1, SMT DEF Extent
    <3> QED
      BY <2>0, <3>1, SMT
  <2>2. CASE OnWindows(kind)
    <3>1. Inside([lo |-> 60928, hi |-> frontier.hooked], Window("hooked", m))
      BY WindowIs, <1>1, <1>2, SMT DEF Inside
    <3>2. Inside(a.at, Window("hooked", m))
      BY <2>0, <3>1, SMT
    <3> QED
      BY <1>3, <2>0, <2>2, <3>2, SMT
  <2> QED
    BY <2>1, <2>2
<1>9. Inside([lo |-> layout.heap, hi |-> frontier.heap], Window("heap", m))
  BY WindowIs, <1>2, <1>5, SMT DEF Inside
<1>10. Inside([lo |-> layout.limit, hi |-> frontier.mmap], Window("mmap", m))
  BY WindowIs, <1>2, <1>5, SMT DEF Inside
<1>11. Inside([lo |-> layout.misc, hi |-> frontier.misc], Window("misc", m))
  BY WindowIs, <1>1, <1>2, <1>5, SMT DEF Inside
<1>12. \A u : Inside(Window(u, m), Window(u, m))
  BY Zenon DEF Inside
<1>13. /\ Inside(layout.stack, Window("stack", m)) /\ Inside(image, Window("image", m))
       /\ Inside(At(layout.hooks, 1), Window("hooks", m)) /\ Inside(layout.teb, Window("teb", m))
  BY WindowIs, <1>12, SMT
<1>14. \A u, w : Is(u, w) /\ Inside(w, Window(u, m)) /\ u \in Uses => Ok(u)
  BY Zenon DEF Is
<1> HIDE DEF Ok
<1>15. \E u : Ok(u)
  BY <1>3, <1>6, <1>7, <1>8, <1>9, <1>10, <1>11, <1>13, <1>14, SMT
<1> QED
  BY <1>15, Zenon DEF Ok

(* A library is apart from every area that is not a library's. *)
LEMMA RowsOutside ==
  ASSUME NEW m, RoomFor(m), WindowsInv(m), OnWindows(kind), image # Nowhere,
         NEW b \in RowBases, NEW lib \in [lo : Nat, hi : Nat], InRow(lib, b, m), lib.lo < lib.hi,
         NEW u \in Uses
  PROVE  Before(Window(u, m), lib) \/ Before(lib, Window(u, m))
<1> DEFINE S == MaxLibraries * m
<1>1. m \in Nat /\ 1 <= m /\ m <= 4096 /\ MaxLibraries \in Nat
  BY RoomIs
<1>2. /\ b \in Nat
      /\ \/ image.hi <= b /\ b + S <= 86016
         \/ 364544 <= b /\ b + S <= 2146828288
  BY RowsApart
<1>3. b <= lib.lo /\ lib.hi <= b + S /\ S \in Nat
  BY <1>1, Products DEF InRow
<1> HIDE DEF S
<1>4. /\ image.lo = 81920 /\ image.hi \in Nat /\ image.lo <= image.hi /\ image.hi <= 86016
      /\ layout.stack.lo = 48 /\ layout.stack.hi = 176
      /\ layout.heap = 86016 /\ layout.limit = 102400 /\ layout.mmap = 364544
      /\ layout.hooks = 2146893824 /\ layout.misc = 2146893952
      /\ layout.teb.lo = 2146828288 /\ layout.teb.hi = 2146828289
  BY LayoutIs, <1>1, SMT DEF OnWindows
<1>5. \/ image.hi <= lib.lo /\ lib.hi <= 86016
      \/ 364544 <= lib.lo /\ lib.hi <= 2146828288
  BY <1>2, <1>3, <1>4, SMT
<1>6. u \in {"stack", "image", "heap", "mmap", "misc", "hooks", "hooked", "teb"}
  BY SMT DEF Uses
<1> QED
  BY WindowIs, <1>4, <1>5, <1>6, SMT DEF Before

(* Areas inside of windows that are apart do not overlap. *)
LEMMA BeforeIsApart ==
  ASSUME NEW a, NEW b, NEW v, NEW w, Inside(a, v), Inside(b, w), Before(v, w) \/ Before(w, v)
  PROVE  ~Overlap(a, b) /\ ~Overlap(b, a)
BY SMT DEF Inside, Before, Overlap, Extent

(* The invariant keeps the areas apart. *)
LEMMA AreasAreApart ==
  ASSUME NEW m, RoomFor(m), SpaceInv(m)
  PROVE  AreasApart
<1> SUFFICES ASSUME image # Nowhere, NEW a \in Areas, NEW b \in Areas, a.use # b.use
             PROVE  ~Overlap(a.at, b.at)
  BY DEF AreasApart
<1>1. WindowsInv(m) /\ LibrariesInv(m)
  BY Zenon DEF SpaceInv
<1>2. \A x, y : Extent(x) = 0 => ~Overlap(x, y) /\ ~Overlap(y, x)
  BY SMT DEF Overlap
<1>3. \A x \in Areas : ~Fixed(x) => \E i \in DOMAIN libraries : x.use = <<"library", i>> /\ x.at = libraries[i]
  BY SMT DEF Areas, Fixed
<1>4. \A i \in DOMAIN libraries :
        /\ OnWindows(kind) /\ libraries[i] \in [lo : Nat, hi : Nat] /\ libraries[i].lo < libraries[i].hi
        /\ \E c \in RowBases : InRow(libraries[i], c, m)
  <2> TAKE i \in DOMAIN libraries
  <2>1. libraries \in Seq([lo : Nat, hi : Nat]) /\ libraries # <<>>
    BY <1>1, SMT DEF LibrariesInv
  <2>2. libraries[i] \in [lo : Nat, hi : Nat]
    <3>1. i \in 1 .. Len(libraries)
      BY <2>1
    <3> QED
      BY <2>1, <3>1, ElementOfSeq
  <2> QED
    BY <1>1, <2>1, <2>2, Zenon DEF LibrariesInv
\* One is a library's and the other is not.
<1>5. \A x, y \in Areas : Fixed(x) /\ ~Fixed(y) => ~Overlap(x.at, y.at) /\ ~Overlap(y.at, x.at)
  <2> SUFFICES ASSUME NEW x \in Areas, NEW y \in Areas, Fixed(x), ~Fixed(y)
               PROVE  ~Overlap(x.at, y.at) /\ ~Overlap(y.at, x.at)
    OBVIOUS
  <2>1. PICK i \in DOMAIN libraries : y.at = libraries[i]
    BY <1>3, Zenon
  <2>2. PICK u : Extent(x.at) = 0 \/ (u \in Uses /\ Inside(x.at, Window(u, m)))
    BY <1>1, FixedIsWithin
  <2>3. CASE Extent(x.at) = 0
    BY <1>2, <2>3
  <2>4. CASE u \in Uses /\ Inside(x.at, Window(u, m))
    <3>1. PICK c \in RowBases : InRow(libraries[i], c, m)
      BY <1>4
    <3>2. Before(Window(u, m), libraries[i]) \/ Before(libraries[i], Window(u, m))
      BY <1>1, <1>4, <2>4, <3>1, RowsOutside
    <3>3. Inside(y.at, libraries[i])
      BY <2>1, Zenon DEF Inside
    <3> QED
      BY <2>4, <3>2, <3>3, BeforeIsApart
  <2> QED
    BY <2>2, <2>3, <2>4
<1>6. CASE Fixed(a) /\ Fixed(b)
  <2>1. PICK u : a.use = <<u, 0>> /\ (Extent(a.at) = 0 \/ (u \in Uses /\ Inside(a.at, Window(u, m))))
    BY <1>1, <1>6, FixedIsWithin
  <2>2. PICK v : b.use = <<v, 0>> /\ (Extent(b.at) = 0 \/ (v \in Uses /\ Inside(b.at, Window(v, m))))
    BY <1>1, <1>6, FixedIsWithin
  <2>3. u # v
    BY <2>1, <2>2
  <2>4. CASE u \in Uses /\ Inside(a.at, Window(u, m)) /\ v \in Uses /\ Inside(b.at, Window(v, m))
    <3>1. Before(Window(u, m), Window(v, m)) \/ Before(Window(v, m), Window(u, m))
      BY <1>1, <2>3, <2>4, WindowsApart
    <3> QED
      BY <2>4, <3>1, BeforeIsApart
  <2> QED
    BY <1>2, <2>1, <2>2, <2>4
<1>7. CASE ~Fixed(a) /\ ~Fixed(b)
  <2>1. PICK i \in DOMAIN libraries : a.use = <<"library", i>> /\ a.at = libraries[i]
    BY <1>3, <1>7
  <2>2. PICK j \in DOMAIN libraries : b.use = <<"library", j>> /\ b.at = libraries[j]
    BY <1>3, <1>7
  <2>3. i # j
    BY <2>1, <2>2
  <2>4. ~Overlap(libraries[i], libraries[j])
    BY <1>1, <2>3, Zenon DEF LibrariesInv
  <2> QED
    BY <2>1, <2>2, <2>4
<1> QED
  BY <1>5, <1>6, <1>7

(* Wherever what is loaded fits, the places of what a guest has stay apart:  *)
(* no library, window or frontier ever reaches into another area, whatever  *)
(* is loaded and asked for and in whatever order.                           *)
THEOREM AreasStayApart == ASSUME RoomEnough PROVE SpaceSpec => []AreasApart
<1>1. PICK m \in Extents : RoomFor(m)
  BY Zenon DEF RoomEnough
<1>2. SpaceInit => SpaceInv(m)
  BY <1>1, InitSpace
<1>3. SpaceInv(m) /\ [SpaceNext]_spaceVars => SpaceInv(m)'
  BY <1>1, SpaceNextKeeps
<1>4. SpaceInv(m) => AreasApart
  BY <1>1, AreasAreApart
<1> QED
  BY <1>2, <1>3, <1>4, PTL DEF SpaceSpec
=============================================================================
