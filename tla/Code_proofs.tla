----------------------------- MODULE Code_proofs -----------------------------
(***************************************************************************)
(* Proofs about what executes the guest's code: the translation cache, for *)
(* any pages, any addresses and any way they fall into the slots of the    *)
(* caches, any number of blocks, any depth of nested runs and any capacity *)
(* of the arena; then the x87 register stack, for any number of registers. *)
(***************************************************************************)
EXTENDS CodeCache, X87, SequenceTheorems, TLAPS

-----------------------------------------------------------------------------
(* The inductive invariant.  First the cache, that is everything but the   *)
(* calls of run.                                                           *)

Shape ==
    /\ wtlb \in [TlbSlots -> Pages \cup {None}]
    /\ made \in Nat /\ made <= MaxBlocks
    /\ block \in [Ids -> [pc : Pcs, exit : Pcs \cup {Indirect}]]
    /\ stub \in [Ids -> BOOLEAN] /\ valid \in [Ids -> BOOLEAN] /\ nat \in [Ids -> BOOLEAN]
    /\ freed \subseteq Made /\ linked \subseteq Made
    /\ cell \in [Ids -> 0 .. made] /\ ind \in [Entries -> 0 .. made]
    /\ table \in [Entries -> 0 .. made] /\ map \in [Pcs -> 0 .. made]
    /\ by_page \in [Pages -> SUBSET Made]

\* What the tables hold: blocks in force are made and not freed, only real blocks
\* have machine code, map_ and by_page_ list blocks in force under their own
\* address and page, and table_ may be out of date but not by more than that.
Registered ==
    /\ \A b \in Ids : valid[b] => b \in Made \ freed
    /\ \A b \in Ids : nat[b] => b \in Made /\ ~stub[b]
    /\ \A pc \in Pcs : map[pc] # None => valid[map[pc]] /\ block[map[pc]].pc = pc
    /\ \A s \in Entries : table[s] \notin freed
    /\ \A p \in Pages : \A b \in by_page[p] : valid[b] /\ Page(b) = p

\* LinksAreCurrent, of the blocks that have been freed as well.
Links ==
    /\ \A b \in Ids : cell[b] # None =>
          /\ b \in linked /\ nat[b]
          /\ valid[cell[b]] /\ nat[cell[b]] /\ block[cell[b]].pc = block[b].exit
    /\ \A s \in Entries : ind[s] # None => valid[ind[s]] /\ nat[ind[s]]

CacheInv == Shape /\ Registered /\ TranslatedIsWatched /\ Links

\* Then the calls of run.  A block that is being executed is there, and in force
\* unless its frame is stale, which the frame that executes finds out before its
\* next instruction.  An exit waits to be linked only in a frame that is about to
\* look up where it leads.
FrameSound(i) ==
    LET f == frames[i] IN
    /\ f.cur # None => f.cur \in Made \ freed
    /\ f.mode \in {"in", "last"} => f.cur # None /\ ~stub[f.cur]
    /\ f.mode = "in" /\ ~f.stale => valid[f.cur]
    /\ f.mode = "in" /\ f.stale => interp \/ i # Depth
    /\ f.mode = "last" => i = Depth /\ ~interp
    /\ f.pend # None => /\ i = Depth /\ ~interp /\ f.mode = "loop"
                        /\ f.pend \in Made \ freed /\ nat[f.pend]
                        /\ block[f.pend].exit = rip

\* After the store of a block's last instruction nobody looks whether the frame is
\* stale: if it is, no exit leads anywhere.
Unlinked == (\A b \in Ids : cell[b] = None) /\ (\A s \in Entries : ind[s] = None)

FramesInv ==
    /\ frames \in Seq(Frame) /\ rip \in Pcs
    /\ \A i \in 1 .. Depth : FrameSound(i)
    /\ Depth > 0 /\ Top.mode = "last" /\ Top.stale => Unlinked

CodeInv == CacheInv /\ FramesInv
-----------------------------------------------------------------------------
(* Facts about names, slots and frames.                                    *)

LEMMA SlotsAre ==
  ASSUME CodeCacheAssumption
  PROVE  /\ \A p \in Pages : TlbSlot[p] \in TlbSlots
         /\ \A pc \in Pcs : TableSlot[pc] \in Entries /\ PageOf[pc] \in Pages /\ pc # Indirect
         /\ None \notin Pages /\ None \notin Ids
BY DEF CodeCacheAssumption, TlbSlots, Entries, Indirect, None, Ids

LEMMA PageType ==
  ASSUME CodeCacheAssumption, Shape, NEW b \in Ids
  PROVE  Page(b) \in Pages /\ block[b].pc \in Pcs
BY DEF CodeCacheAssumption, Shape, Page

LEMMA MadeAreIds ==
  ASSUME CodeCacheAssumption, Shape
  PROVE  Made \subseteq Ids /\ None \notin Made /\ \A b \in 0 .. made : b # None => b \in Made
BY DEF CodeCacheAssumption, Shape, Made, Ids, None

(* The innermost frame is replaced; another is put on top; it is taken off; *)
(* every frame is told that code has changed.                              *)
LEMMA SetTop ==
  ASSUME frames \in Seq(Frame), Depth > 0, NEW f \in Frame,
         frames' = [frames EXCEPT ![Depth] = f]
  PROVE  /\ frames' \in Seq(Frame) /\ Len(frames') = Depth /\ frames'[Depth] = f
         /\ \A i \in 1 .. Depth : i # Depth => frames'[i] = frames[i]
BY DEF Depth

LEMMA PushFrame ==
  ASSUME frames \in Seq(Frame), NEW f \in Frame, frames' = Append(frames, f)
  PROVE  /\ frames' \in Seq(Frame) /\ Len(frames') = Depth + 1 /\ frames'[Depth + 1] = f
         /\ \A i \in 1 .. Depth : frames'[i] = frames[i]
BY DEF Depth

LEMMA PopFrame ==
  ASSUME frames \in Seq(Frame), Depth > 0, frames' = SubSeq(frames, 1, Depth - 1)
  PROVE  /\ frames' \in Seq(Frame) /\ Len(frames') = Depth - 1
         /\ \A i \in 1 .. Depth - 1 : frames'[i] = frames[i]
<1>1. Depth \in Nat /\ Depth = Len(frames)
  BY DEF Depth
<1>2. \A i \in 1 .. Depth - 1 : frames[i] \in Frame
  BY <1>1
<1> QED
  BY <1>1, <1>2, SubSeqProperties

LEMMA FrameType ==
  ASSUME frames \in Seq(Frame), NEW i \in 1 .. Depth
  PROVE  frames[i] \in Frame
BY DEF Depth

LEMMA AdvancedFrames ==
  ASSUME frames \in Seq(Frame)
  PROVE  /\ Advanced \in Seq(Frame) /\ Len(Advanced) = Depth
         /\ \A i \in 1 .. Depth : Advanced[i] = [frames[i] EXCEPT !.stale = TRUE]
<1>1. Depth \in Nat
  BY DEF Depth
<1>2. \A i \in 1 .. Depth : [frames[i] EXCEPT !.stale = TRUE] \in Frame
  BY FrameType DEF Frame
<1> QED
  BY <1>1, <1>2 DEF Advanced

-----------------------------------------------------------------------------
(* Code has changed: a page is written or dropped, or a span goes.         *)

(* Nothing leads anywhere any more. *)
LEMMA UnlinkedAll ==
  ASSUME Shape, Links, UnlinkAll
  PROVE  /\ cell' = [b \in Ids |-> None] /\ ind' = [s \in Entries |-> None]
         /\ linked' = {} /\ UNCHANGED nat
<1>1. \A b \in Ids : b \notin linked => cell[b] = None
  BY DEF Links
<1> QED
  BY <1>1 DEF UnlinkAll, Shape

(* What is invalidated leaves the map; the rest stays as it is. *)
LEMMA Invalidated ==
  ASSUME CodeCacheAssumption, Shape, Registered, NEW gone, Invalidate(gone)
  PROVE  /\ valid' \in [Ids -> BOOLEAN] /\ map' \in [Pcs -> 0 .. made]
         /\ \A b \in Ids : valid'[b] <=> valid[b] /\ b \notin gone
         /\ \A pc \in Pcs : map'[pc] # None => valid'[map'[pc]] /\ map'[pc] = map[pc]
         /\ UNCHANGED <<freed, table>>
<1>1. valid' \in [Ids -> BOOLEAN] /\ \A b \in Ids : valid'[b] <=> valid[b] /\ b \notin gone
  BY DEF Invalidate, Shape
<1>2. map' \in [Pcs -> 0 .. made]
  BY DEF Invalidate, Shape, None
<1>3. ASSUME NEW pc \in Pcs, map'[pc] # None
      PROVE  valid'[map'[pc]] /\ map'[pc] = map[pc]
  <2>1. map'[pc] = map[pc] /\ map[pc] \notin gone
    BY <1>3 DEF Invalidate
  <2>2. map[pc] \in Ids
    BY <1>3, <2>1, MadeAreIds DEF Shape
  <2> QED
    BY <1>1, <1>3, <2>1, <2>2 DEF Registered
<1> QED
  BY <1>1, <1>2, <1>3 DEF Invalidate

\* What a change of page p does to the cache: blocks made and their code stay, the
\* blocks of the page are out of force, and if any was, nothing is linked.
ChangeKeeps(told) ==
  /\ CacheInv'
  /\ UNCHANGED <<made, block, stub, freed, nat>>
  /\ told => cell' = [b \in Ids |-> None] /\ ind' = [s \in Entries |-> None]
  /\ ~told => UNCHANGED <<valid, cell, ind>>

(* A page that is watched is reported: its blocks go, the others stay      *)
(* watched.                                                                *)
LEMMA ReportKeeps ==
  ASSUME CodeCacheAssumption, CacheInv, NEW p \in Pages, OnCodeWrite(p), Change(p),
         UNCHANGED blockVars,
         watched' = watched \ {p}, wtlb' \in [TlbSlots -> Pages \cup {None}],
         spans' \subseteq spans \cup {p},
         \A q \in Pages \ {p} : wtlb[TlbSlot[q]] # q => wtlb'[TlbSlot[q]] # q
  PROVE  ChangeKeeps(TRUE)
<1> USE DEF CacheInv
<1>1. UNCHANGED <<made, block, stub>> /\ Made' = Made /\ \A b \in Ids : Page(b)' = Page(b)
  BY DEF blockVars, Made, Page
<1>2. /\ cell' = [b \in Ids |-> None] /\ ind' = [s \in Entries |-> None]
      /\ linked' = {} /\ UNCHANGED nat
  BY UnlinkedAll DEF OnCodeWrite
<1>3. /\ valid' \in [Ids -> BOOLEAN] /\ map' \in [Pcs -> 0 .. made]
      /\ \A b \in Ids : valid'[b] <=> valid[b] /\ b \notin by_page[p]
      /\ \A pc \in Pcs : map'[pc] # None => valid'[map'[pc]] /\ map'[pc] = map[pc]
      /\ UNCHANGED <<freed, table>>
  BY Invalidated DEF OnCodeWrite
<1>4. by_page' = [by_page EXCEPT ![p] = {}]
  BY DEF OnCodeWrite
<1>5. Shape'
  <2>1. cell' \in [Ids -> 0 .. made] /\ ind' \in [Entries -> 0 .. made]
    BY <1>2 DEF Shape, None
  <2>2. by_page' \in [Pages -> SUBSET Made]
    BY <1>4 DEF Shape
  <2> QED
    BY <1>1, <1>2, <1>3, <2>1, <2>2 DEF Shape, Made
<1>6. Registered'
  <2>1. \A q \in Pages : \A b \in by_page'[q] : valid'[b] /\ Page(b) = q
    <3> SUFFICES ASSUME NEW q \in Pages, NEW b \in by_page'[q]
                 PROVE  valid'[b] /\ Page(b) = q
      OBVIOUS
    <3>1. q # p /\ b \in by_page[q]
      BY <1>4 DEF Shape
    <3>2. valid[b] /\ Page(b) = q /\ b \in Ids
      BY <3>1, MadeAreIds DEF Registered, Shape
    <3>3. b \notin by_page[p]
      BY <3>1, <3>2 DEF Registered
    <3> QED
      BY <1>3, <3>2, <3>3
  <2>2. \A b \in Ids : valid'[b] => b \in Made' \ freed'
    BY <1>1, <1>3 DEF Registered
  <2>3. \A b \in Ids : nat'[b] => b \in Made' /\ ~stub'[b]
    BY <1>1, <1>2 DEF Registered
  <2>4. \A pc \in Pcs : map'[pc] # None => valid'[map'[pc]] /\ block'[map'[pc]].pc = pc
    BY <1>1, <1>3 DEF Registered
  <2>5. \A s \in Entries : table'[s] \notin freed'
    BY <1>3 DEF Registered
  <2>6. \A q \in Pages : \A b \in by_page'[q] : valid'[b] /\ Page(b)' = q
    BY <1>1, <1>5, <2>1, MadeAreIds DEF Shape
  <2> QED
    BY <2>2, <2>3, <2>4, <2>5, <2>6 DEF Registered
<1>7. TranslatedIsWatched'
  <2> SUFFICES ASSUME NEW b \in Made, valid'[b], ~stub[b]
               PROVE  /\ b \in fresh'
                      /\ Page(b) \in watched' \ spans' /\ b \in by_page'[Page(b)]
                      /\ wtlb'[TlbSlot[Page(b)]] # Page(b)
    BY <1>1, MadeAreIds DEF TranslatedIsWatched
  <2>1. b \in Ids /\ Page(b) \in Pages
    BY MadeAreIds, PageType
  <2>2. valid[b] /\ b \notin by_page[p]
    BY <1>3, <2>1
  <2>3. /\ b \in fresh /\ Page(b) \in watched \ spans /\ b \in by_page[Page(b)]
        /\ wtlb[TlbSlot[Page(b)]] # Page(b)
    BY <2>2 DEF TranslatedIsWatched
  <2>4. Page(b) # p
    BY <2>2, <2>3
  <2> QED
    BY <1>1, <1>4, <2>1, <2>3, <2>4 DEF Change, Shape
<1>8. Links'
  BY <1>2 DEF Links
<1> QED
  BY <1>1, <1>2, <1>3, <1>5, <1>6, <1>7, <1>8 DEF ChangeKeeps

(* When a span goes, so does everything that was translated. *)
LEMMA FlushKeeps ==
  ASSUME CodeCacheAssumption, CacheInv, NEW p \in Pages, OnCodeFlushAll, UNCHANGED blockVars,
         wtlb' \in [TlbSlots -> Pages \cup {None}]
  PROVE  ChangeKeeps(TRUE)
<1> USE DEF CacheInv
<1>1. UNCHANGED <<made, block, stub>> /\ Made' = Made
  BY DEF blockVars, Made
<1>2. /\ cell' = [b \in Ids |-> None] /\ ind' = [s \in Entries |-> None]
      /\ linked' = {} /\ UNCHANGED nat
  BY UnlinkedAll DEF OnCodeFlushAll
<1>3. /\ valid' \in [Ids -> BOOLEAN] /\ map' \in [Pcs -> 0 .. made]
      /\ \A b \in Ids : valid'[b] <=> valid[b] /\ b \notin Living
      /\ \A pc \in Pcs : map'[pc] # None => valid'[map'[pc]] /\ map'[pc] = map[pc]
      /\ UNCHANGED <<freed, table>>
  BY Invalidated DEF OnCodeFlushAll
<1>4. \A b \in Ids : ~valid'[b]
  BY <1>3 DEF Registered, Living
<1>5. by_page' = [q \in Pages |-> {}]
  BY DEF OnCodeFlushAll
<1>6. Shape'
  <2>1. cell' \in [Ids -> 0 .. made] /\ ind' \in [Entries -> 0 .. made]
    BY <1>2 DEF Shape, None
  <2>2. by_page' \in [Pages -> SUBSET Made]
    BY <1>5
  <2> QED
    BY <1>1, <1>2, <1>3, <2>1, <2>2 DEF Shape, Made
<1>7. \A pc \in Pcs : map'[pc] = None
  <2> SUFFICES ASSUME NEW pc \in Pcs, map'[pc] # None PROVE FALSE
    OBVIOUS
  <2>1. map'[pc] \in Ids
    BY <1>3, MadeAreIds
  <2> QED
    BY <1>3, <1>4, <2>1
<1>8. Registered'
  BY <1>1, <1>2, <1>3, <1>4, <1>5, <1>7 DEF Registered
<1>9. TranslatedIsWatched'
  BY <1>1, <1>4, MadeAreIds DEF TranslatedIsWatched
<1>10. Links'
  BY <1>2 DEF Links
<1> QED
  BY <1>1, <1>2, <1>3, <1>6, <1>8, <1>9, <1>10 DEF ChangeKeeps

(* A write that is not reported is to a page no block in force is on.      *)
LEMMA SilentKeeps ==
  ASSUME CodeCacheAssumption, CacheInv, NEW p \in Pages, Change(p),
         UNCHANGED <<blockVars, codeVars, cacheVars, watched>>,
         \/ wtlb[TlbSlot[p]] = p \/ p \in spans \/ p \notin watched,
         wtlb' \in [TlbSlots -> Pages \cup {None}],
         spans' \subseteq spans \cup {p},
         \A q \in Pages \ {p} : wtlb[TlbSlot[q]] # q => wtlb'[TlbSlot[q]] # q
  PROVE  ChangeKeeps(FALSE)
<1> USE DEF CacheInv
<1>1. /\ UNCHANGED <<made, block, stub, nat, cell, linked, ind, valid, freed, table, map, by_page>>
      /\ Made' = Made /\ \A b \in Ids : Page(b)' = Page(b)
  BY DEF blockVars, codeVars, cacheVars, Made, Page
<1>2. Shape' /\ Registered' /\ Links'
  BY <1>1, MadeAreIds DEF Shape, Registered, Links
<1>3. TranslatedIsWatched'
  <2> SUFFICES ASSUME NEW b \in Made, valid[b], ~stub[b]
               PROVE  /\ b \in fresh'
                      /\ Page(b) \in watched' \ spans' /\ b \in by_page'[Page(b)]
                      /\ wtlb'[TlbSlot[Page(b)]] # Page(b)
    BY <1>1, MadeAreIds DEF TranslatedIsWatched
  <2>1. b \in Ids /\ Page(b) \in Pages
    BY MadeAreIds, PageType
  <2>2. /\ b \in fresh /\ Page(b) \in watched \ spans /\ b \in by_page[Page(b)]
        /\ wtlb[TlbSlot[Page(b)]] # Page(b)
    BY DEF TranslatedIsWatched
  <2>3. Page(b) # p
    BY <2>2
  <2> QED
    BY <1>1, <2>1, <2>2, <2>3 DEF Change
<1> QED
  BY <1>1, <1>2, <1>3 DEF ChangeKeeps

LEMMA WriteKeeps ==
  ASSUME CodeCacheAssumption, CacheInv, NEW p \in Pages, Write(p)
  PROVE  ChangeKeeps(Reports(p))
<1>1. /\ wtlb' = [wtlb EXCEPT ![TlbSlot[p]] = p] /\ Change(p)
      /\ UNCHANGED <<spans, blockVars>>
  BY DEF Write
<1>2. /\ wtlb' \in [TlbSlots -> Pages \cup {None}]
      /\ \A q \in Pages \ {p} : wtlb[TlbSlot[q]] # q => wtlb'[TlbSlot[q]] # q
  BY <1>1, SlotsAre DEF CacheInv, Shape
<1>3. CASE Reports(p)
  <2>1. watched' = watched \ {p} /\ OnCodeWrite(p)
    BY <1>3 DEF Write
  <2>2. ChangeKeeps(TRUE)
    BY <1>1, <1>2, <2>1, ReportKeeps
  <2> QED
    BY <1>3, <2>2 DEF ChangeKeeps
<1>4. CASE ~Reports(p)
  <2>1. UNCHANGED <<blockVars, codeVars, cacheVars, watched>>
    BY <1>1, <1>4 DEF Write
  <2>2. ChangeKeeps(FALSE)
    BY <1>1, <1>2, <1>4, <2>1, SilentKeeps DEF Reports
  <2> QED
    BY <1>4, <2>2 DEF ChangeKeeps
<1> QED
  BY <1>3, <1>4

LEMMA ForgetKeeps ==
  ASSUME CodeCacheAssumption, Shape, NEW p \in Pages
  PROVE  /\ Forget(wtlb, p) \in [TlbSlots -> Pages \cup {None}]
         /\ Forget(wtlb, p)[TlbSlot[p]] # p
         /\ \A q \in Pages : wtlb[TlbSlot[q]] # q => Forget(wtlb, p)[TlbSlot[q]] # q
BY SlotsAre DEF Forget, Shape

LEMMA DropKeeps ==
  ASSUME CodeCacheAssumption, CacheInv, NEW p \in Pages, Drop(p), UNCHANGED blockVars,
         spans' \subseteq spans \cup {p}
  PROVE  ChangeKeeps(p \in spans \/ p \in watched)
<1>1. CASE p \in spans
  <2>1. OnCodeFlushAll /\ wtlb' = [s \in TlbSlots |-> None]
    BY <1>1 DEF Drop
  <2>2. ChangeKeeps(TRUE)
    BY <2>1, FlushKeeps
  <2> QED
    BY <1>1, <2>2 DEF ChangeKeeps
<1>2. CASE p \notin spans
  <2>1. wtlb' = Forget(wtlb, p) /\ Change(p)
    BY <1>2 DEF Drop
  <2>2. /\ wtlb' \in [TlbSlots -> Pages \cup {None}]
        /\ \A q \in Pages \ {p} : wtlb[TlbSlot[q]] # q => wtlb'[TlbSlot[q]] # q
    BY <2>1, ForgetKeeps DEF CacheInv
  <2>3. CASE p \in watched
    <3>1. watched' = watched \ {p} /\ OnCodeWrite(p)
      BY <1>2, <2>3 DEF Drop
    <3>2. ChangeKeeps(TRUE)
      BY <2>1, <2>2, <3>1, ReportKeeps
    <3> QED
      BY <2>3, <3>2 DEF ChangeKeeps
  <2>4. CASE p \notin watched
    <3>1. UNCHANGED <<blockVars, codeVars, cacheVars, watched>>
      BY <1>2, <2>4 DEF Drop
    <3>2. ChangeKeeps(FALSE)
      BY <2>1, <2>2, <2>4, <3>1, SilentKeeps
    <3> QED
      BY <1>2, <2>4, <3>2 DEF ChangeKeeps
  <2> QED
    BY <2>3, <2>4
<1> QED
  BY <1>1, <1>2

-----------------------------------------------------------------------------
(* The cache while the engine runs.                                        *)

(* What lookup finds is in force and is at that address. *)
LEMMA FoundBlock ==
  ASSUME CodeCacheAssumption, CacheInv, NEW pc \in Pcs, Found(pc) # None
  PROVE  Found(pc) \in Made \ freed /\ Found(pc) \in Ids
         /\ valid[Found(pc)] /\ block[Found(pc)].pc = pc
<1> USE DEF CacheInv
<1>1. TableSlot[pc] \in Entries
  BY SlotsAre
<1> DEFINE b == table[TableSlot[pc]]
<1>2. CASE b # None /\ block[b].pc = pc /\ valid[b]
  <2>1. b \in Made /\ b \in Ids
    BY <1>1, <1>2, MadeAreIds DEF Shape
  <2> QED
    BY <1>2, <2>1 DEF Found, Registered
<1>3. CASE ~(b # None /\ block[b].pc = pc /\ valid[b])
  <2>1. Found(pc) = map[pc]
    BY <1>3 DEF Found
  <2>2. map[pc] \in Made /\ map[pc] \in Ids
    BY <2>1, MadeAreIds DEF Shape
  <2> QED
    BY <2>1, <2>2 DEF Registered
<1> QED
  BY <1>2, <1>3

(* A block is made: it is in force, watched unless it is a stub, and        *)
(* nothing leads to it yet.                                                *)
LEMMA TranslateKeeps ==
  ASSUME CodeCacheAssumption, CodeInv, Translate
  PROVE  /\ CacheInv'
         /\ made' = made + 1 /\ UNCHANGED <<freed, nat, cell, ind, frames, interp, rip>>
         /\ \A b \in Made : valid'[b] = valid[b] /\ stub'[b] = stub[b] /\ block'[b] = block[b]
<1> USE DEF CodeInv, CacheInv
<1> DEFINE n == made + 1
           p == PageOf[rip]
<1>1. n \in Ids /\ n \notin Made /\ rip \in Pcs /\ p \in Pages
  BY SlotsAre DEF Translate, CodeCacheAssumption, Ids, Made, Shape, FramesInv
<1>2. PICK exit \in Pcs \cup {Indirect}, is_stub \in BOOLEAN, watch \in BOOLEAN :
        /\ Register(n, exit, is_stub, watch)
        /\ ~is_stub => watch /\ p \notin spans
        /\ watch => watched' = watched \cup {p} /\ wtlb' = Forget(wtlb, p)
        /\ ~watch => UNCHANGED <<watched, wtlb>>
  <2>1. CASE p \in banned
    <3>1. Register(n, Indirect, TRUE, FALSE) /\ UNCHANGED <<watched, wtlb>>
      BY <2>1 DEF Translate
    <3> QED
      BY <3>1
  <2>2. CASE p \notin banned /\ p \in spans
    <3>1. Register(n, Indirect, TRUE, FALSE) /\ UNCHANGED <<watched, wtlb>>
      BY <2>2 DEF Translate
    <3> QED
      BY <3>1
  <2>3. CASE p \notin banned /\ p \notin spans
    <3>1. PICK exit \in Pcs \cup {Indirect}, is_stub \in BOOLEAN :
            Register(n, IF is_stub THEN Indirect ELSE exit, is_stub, TRUE)
      BY <2>3 DEF Translate
    <3>2. watched' = watched \cup {p} /\ wtlb' = Forget(wtlb, p)
      BY <2>3 DEF Translate, MarkCodePage
    <3>3. CASE is_stub
      <4>1. Register(n, Indirect, is_stub, TRUE)
        BY <3>1, <3>3
      <4> QED
        BY <2>3, <3>2, <3>3, <4>1
    <3>4. CASE ~is_stub
      <4>1. Register(n, exit, is_stub, TRUE)
        BY <3>1, <3>4
      <4> QED
        BY <2>3, <3>2, <3>4, <4>1
    <3> QED
      BY <3>3, <3>4
  <2> QED
    BY <2>1, <2>2, <2>3
<1>3. /\ made' = n /\ block' = [block EXCEPT ![n] = [pc |-> rip, exit |-> exit]]
      /\ stub' = [stub EXCEPT ![n] = is_stub] /\ valid' = [valid EXCEPT ![n] = TRUE]
      /\ map' = [map EXCEPT ![rip] = n] /\ table' = [table EXCEPT ![TableSlot[rip]] = n]
      /\ by_page' = IF watch THEN [by_page EXCEPT ![p] = @ \cup {n}] ELSE by_page
      /\ fresh' = fresh \cup {n}
      /\ UNCHANGED <<freed, spans>>
  BY <1>2 DEF Register
<1>4. UNCHANGED <<nat, cell, linked, ind, frames, interp, rip>>
  BY DEF Translate, codeVars, runVars
<1>5. Made' = Made \cup {n} /\ Made \subseteq Ids
  <2>1. made \in Nat /\ made' = made + 1
    BY <1>3 DEF Shape
  <2>2. Made' = Made \cup {n}
    BY <2>1 DEF Made
  <2> QED
    BY <2>2, MadeAreIds
<1>6. /\ \A b \in Ids : b # n => /\ valid'[b] = valid[b] /\ stub'[b] = stub[b]
                                 /\ block'[b] = block[b] /\ Page(b)' = Page(b)
      /\ valid'[n] /\ stub'[n] = is_stub /\ block'[n] = [pc |-> rip, exit |-> exit]
      /\ PageOf[block'[n].pc] = p
  <2>1. \A b \in Ids : b # n => valid'[b] = valid[b] /\ stub'[b] = stub[b] /\ block'[b] = block[b]
    BY <1>3 DEF Shape
  <2>2. valid'[n] /\ stub'[n] = is_stub /\ block'[n] = [pc |-> rip, exit |-> exit]
    BY <1>1, <1>3 DEF Shape
  <2>3. \A b \in Ids : b # n => Page(b)' = Page(b)
    BY <2>1 DEF Page
  <2>4. PageOf[block'[n].pc] = p
    BY <2>2
  <2> QED
    BY <2>1, <2>2, <2>3, <2>4
<1>7. /\ wtlb' \in [TlbSlots -> Pages \cup {None}]
      /\ \A q \in Pages : wtlb[TlbSlot[q]] # q => wtlb'[TlbSlot[q]] # q
      /\ watch => wtlb'[TlbSlot[p]] # p
  BY <1>1, <1>2, ForgetKeeps DEF Shape
<1>8. Shape'
  <2>1. block' \in [Ids -> [pc : Pcs, exit : Pcs \cup {Indirect}]]
    BY <1>1, <1>3 DEF Shape
  <2>2. stub' \in [Ids -> BOOLEAN] /\ valid' \in [Ids -> BOOLEAN] /\ nat' \in [Ids -> BOOLEAN]
    BY <1>1, <1>3, <1>4 DEF Shape
  <2>3. made' \in Nat /\ made' <= MaxBlocks
    BY <1>3, MadeAreIds DEF Shape, Translate, CodeCacheAssumption
  <2>4. freed' \subseteq Made' /\ linked' \subseteq Made'
    BY <1>3, <1>4, <1>5 DEF Shape
  <2>5. /\ cell' \in [Ids -> 0 .. made'] /\ ind' \in [Entries -> 0 .. made']
        /\ table' \in [Entries -> 0 .. made'] /\ map' \in [Pcs -> 0 .. made']
    BY <1>1, <1>3, <1>4, SlotsAre DEF Shape
  <2>6. by_page' \in [Pages -> SUBSET Made']
    <3>1. CASE watch
      BY <1>3, <1>5, <3>1 DEF Shape
    <3>2. CASE ~watch
      BY <1>3, <1>5, <3>2 DEF Shape
    <3> QED
      BY <3>1, <3>2
  <2> QED
    BY <1>7, <2>1, <2>2, <2>3, <2>4, <2>5, <2>6 DEF Shape
<1>9. Registered'
  <2>1. \A b \in Ids : valid'[b] => b \in Made' \ freed'
    BY <1>1, <1>3, <1>5, <1>6 DEF Registered, Shape
  <2>2. \A b \in Ids : nat'[b] => b \in Made' /\ ~stub'[b]
    BY <1>1, <1>4, <1>5, <1>6 DEF Registered
  <2>3. \A pc \in Pcs : map'[pc] # None => valid'[map'[pc]] /\ block'[map'[pc]].pc = pc
    <3> SUFFICES ASSUME NEW pc \in Pcs, map'[pc] # None
                 PROVE  valid'[map'[pc]] /\ block'[map'[pc]].pc = pc
      OBVIOUS
    <3>1. CASE pc = rip
      BY <1>3, <1>6, <3>1 DEF Shape
    <3>2. CASE pc # rip
      <4>1. map'[pc] = map[pc] /\ map[pc] \in Made
        BY <1>3, <3>2, MadeAreIds DEF Shape
      <4> QED
        BY <1>1, <1>5, <1>6, <4>1 DEF Registered
    <3> QED
      BY <3>1, <3>2
  <2>4. \A s \in Entries : table'[s] \notin freed'
    BY <1>1, <1>3, SlotsAre DEF Registered, Shape
  <2>5. \A q \in Pages : \A b \in by_page'[q] : valid'[b] /\ Page(b)' = q
    <3> SUFFICES ASSUME NEW q \in Pages, NEW b \in by_page'[q]
                 PROVE  valid'[b] /\ Page(b)' = q
      OBVIOUS
    <3>1. b \in by_page[q] \/ (b = n /\ q = p)
      BY <1>3 DEF Shape
    <3>2. CASE b \in by_page[q]
      BY <1>1, <1>5, <1>6, <3>2 DEF Registered, Shape
    <3>3. CASE b = n /\ q = p
      BY <1>6, <3>3 DEF Page
    <3> QED
      BY <3>1, <3>2, <3>3
  <2> QED
    BY <2>1, <2>2, <2>3, <2>4, <2>5 DEF Registered
<1>10. TranslatedIsWatched'
  <2> SUFFICES ASSUME NEW b \in Made', valid'[b], ~stub'[b]
               PROVE  /\ b \in fresh'
                      /\ Page(b)' \in watched' \ spans' /\ b \in by_page'[Page(b)']
                      /\ wtlb'[TlbSlot[Page(b)']] # Page(b)'
    BY DEF TranslatedIsWatched
  <2>1. CASE b = n
    <3>1. watch /\ p \notin spans
      BY <1>2, <1>6, <2>1
    <3>2. Page(b)' = p
      BY <1>6, <2>1 DEF Page
    <3>3. p \in watched' \ spans' /\ n \in by_page'[p]
      BY <1>1, <1>2, <1>3, <3>1 DEF Shape
    <3> QED
      BY <1>3, <1>7, <2>1, <3>1, <3>2, <3>3
  <2>2. CASE b # n
    <3>1. b \in Made /\ b \in Ids /\ valid[b] /\ ~stub[b] /\ Page(b)' = Page(b) /\ Page(b) \in Pages
      BY <1>5, <1>6, <2>2, PageType
    <3>2. /\ b \in fresh /\ Page(b) \in watched \ spans /\ b \in by_page[Page(b)]
          /\ wtlb[TlbSlot[Page(b)]] # Page(b)
      BY <3>1 DEF TranslatedIsWatched
    <3>3. Page(b) \in watched' \ spans'
      BY <1>2, <1>3, <3>2
    <3>4. b \in by_page'[Page(b)]
      BY <1>1, <1>3, <3>1, <3>2 DEF Shape
    <3> QED
      BY <1>3, <1>7, <3>1, <3>2, <3>3, <3>4
  <2> QED
    BY <2>1, <2>2
<1>11. Links'
  <2>1. ASSUME NEW b \in Ids, cell[b] # None
        PROVE  /\ b \in linked' /\ nat'[b]
               /\ valid'[cell[b]] /\ nat'[cell[b]] /\ block'[cell[b]].pc = block'[b].exit
    <3>1. cell[b] \in Made
      BY <2>1, MadeAreIds DEF Shape
    <3>2. nat[b] /\ b \in Made
      BY <2>1 DEF Links, Registered
    <3> QED
      BY <1>1, <1>4, <1>5, <1>6, <2>1, <3>1, <3>2 DEF Links
  <2>2. ASSUME NEW s \in Entries, ind[s] # None
        PROVE  valid'[ind[s]] /\ nat'[ind[s]]
    <3>1. ind[s] \in Made
      BY <2>2, MadeAreIds DEF Shape
    <3> QED
      BY <1>1, <1>4, <1>5, <1>6, <2>2, <3>1 DEF Links
  <2> QED
    BY <1>4, <2>1, <2>2 DEF Links
<1> QED
  BY <1>1, <1>3, <1>4, <1>5, <1>6, <1>8, <1>9, <1>10, <1>11

(* A block gets its machine code, or has it, and the exit that was heading  *)
(* there is linked to it.                                                  *)
LEMMA LinkKeeps ==
  ASSUME CodeCacheAssumption, CacheInv, UNCHANGED <<memVars, blockVars, cacheVars, fresh>>,
         NEW b \in Ids, valid[b], ~stub[b],
         NEW from \in Made \cup {None}, from # None => nat[from] /\ block[from].exit = block[b].pc,
         nat' \in [Ids -> BOOLEAN], nat'[b],
         \A c \in Ids : nat'[c] => nat[c] \/ c = b,
         cell' \in [Ids -> 0 .. made], ind' \in [Entries -> 0 .. made],
         linked' \subseteq Made,
         \A c \in Ids : cell'[c] # None =>
            \/ cell'[c] = cell[c] /\ c \in linked' /\ nat'[c] /\ nat'[cell[c]]
            \/ cell'[c] = b /\ c = from /\ c \in linked' /\ nat'[c],
         \A s \in Entries : ind'[s] # None => ind'[s] = b \/ (ind'[s] = ind[s] /\ nat'[ind[s]])
  PROVE  CacheInv'
<1> USE DEF CacheInv
<1>1. /\ UNCHANGED <<made, block, stub, valid, freed, table, map, by_page, watched, spans, wtlb, fresh>>
      /\ Made' = Made /\ \A c \in Ids : Page(c)' = Page(c)
  BY DEF memVars, blockVars, cacheVars, Made, Page
<1>2. Shape'
  BY <1>1 DEF Shape
<1>3. Registered'
  <2>1. \A c \in Ids : nat'[c] => c \in Made /\ ~stub[c]
    BY DEF Registered
  <2>2. \A p \in Pages : \A c \in by_page[p] : valid[c] /\ Page(c)' = p
    BY <1>1, MadeAreIds DEF Registered, Shape
  <2> QED
    BY <1>1, <2>1, <2>2 DEF Registered
<1>4. TranslatedIsWatched'
  BY <1>1, MadeAreIds DEF TranslatedIsWatched
<1>5. Links'
  <2>1. ASSUME NEW c \in Ids, cell'[c] # None
        PROVE  /\ c \in linked' /\ nat'[c]
               /\ valid[cell'[c]] /\ nat'[cell'[c]] /\ block[cell'[c]].pc = block[c].exit
    <3>1. CASE cell'[c] = cell[c] /\ c \in linked' /\ nat'[c] /\ nat'[cell[c]]
      BY <2>1, <3>1 DEF Links
    <3>2. CASE cell'[c] = b /\ c = from /\ c \in linked' /\ nat'[c]
      BY <2>1, <3>2, MadeAreIds
    <3> QED
      BY <2>1, <3>1, <3>2
  <2>2. ASSUME NEW s \in Entries, ind'[s] # None
        PROVE  valid[ind'[s]] /\ nat'[ind'[s]]
    BY <2>2 DEF Links
  <2> QED
    BY <1>1, <2>1, <2>2 DEF Links
<1> QED
  BY <1>2, <1>3, <1>4, <1>5

(* The exit that waits to be linked when a run looks up where to go. *)
LEMMA Pending ==
  ASSUME CodeCacheAssumption, CodeInv, Looping
  PROVE  /\ rip \in Pcs /\ Depth \in 1 .. Depth
         /\ Top.pend \in Made \cup {None}
         /\ Top.pend # None => nat[Top.pend] /\ block[Top.pend].exit = rip /\ Top.pend \in Ids
<1>1. Depth \in 1 .. Depth
  BY DEF Looping, Depth, CodeInv, FramesInv
<1>2. FrameSound(Depth)
  BY <1>1 DEF CodeInv, FramesInv
<1> QED
  BY <1>1, <1>2, MadeAreIds DEF FrameSound, Top, CodeInv, CacheInv, FramesInv, Looping

LEMMA RunNativeKeeps ==
  ASSUME CodeCacheAssumption, CodeInv, RunNative
  PROVE  CacheInv'
<1> DEFINE b == Found(rip)
           from == Top.pend
<1>1. /\ Looping /\ b # None /\ ~stub[b] /\ nat[b]
      /\ cell' = (IF from # None THEN [cell EXCEPT ![from] = b] ELSE cell)
      /\ linked' = (IF from # None THEN linked \cup {from} ELSE linked)
      /\ ind' = [ind EXCEPT ![TableSlot[rip]] = b]
      /\ UNCHANGED <<memVars, blockVars, cacheVars, fresh, nat>>
  BY DEF RunNative
<1>2. /\ rip \in Pcs /\ from \in Made \cup {None}
      /\ from # None => nat[from] /\ block[from].exit = rip /\ from \in Ids
  BY <1>1, Pending
<1>3. b \in Made /\ b \in Ids /\ valid[b] /\ block[b].pc = rip
  BY <1>1, <1>2, FoundBlock DEF CodeInv
<1>4. /\ cell \in [Ids -> 0 .. made] /\ ind \in [Entries -> 0 .. made] /\ linked \subseteq Made
      /\ nat \in [Ids -> BOOLEAN] /\ b \in 0 .. made /\ TableSlot[rip] \in Entries
      /\ \A c \in Ids : cell[c] # None => c \in linked /\ nat[c] /\ nat[cell[c]]
      /\ \A s \in Entries : ind[s] # None => nat[ind[s]]
  BY <1>2, <1>3, SlotsAre DEF CodeInv, CacheInv, Shape, Made, Links
<1>5. cell' \in [Ids -> 0 .. made] /\ ind' \in [Entries -> 0 .. made] /\ linked' \subseteq Made
  BY <1>1, <1>2, <1>4
<1>6. \A c \in Ids : cell'[c] # None =>
        \/ cell'[c] = cell[c] /\ c \in linked' /\ nat'[c] /\ nat'[cell[c]]
        \/ cell'[c] = b /\ c = from /\ c \in linked' /\ nat'[c]
  BY <1>1, <1>2, <1>4
<1>7. \A s \in Entries : ind'[s] # None => ind'[s] = b \/ (ind'[s] = ind[s] /\ nat'[ind[s]])
  BY <1>1, <1>4
<1> QED
  BY <1>1, <1>2, <1>3, <1>4, <1>5, <1>6, <1>7, LinkKeeps DEF CodeInv

LEMMA CompileKeeps ==
  ASSUME CodeCacheAssumption, CodeInv, Compile
  PROVE  CacheInv'
<1> DEFINE b == Found(rip)
           from == Top.pend
<1>1. /\ Looping /\ b # None /\ ~stub[b] /\ ~nat[b]
      /\ nat' = [nat EXCEPT ![b] = TRUE]
      /\ cell' = [c \in Ids |-> IF c = b THEN None ELSE IF c = from THEN b ELSE cell[c]]
      /\ linked' = (IF from # None THEN linked \cup {from} ELSE linked)
      /\ ind' = [ind EXCEPT ![TableSlot[rip]] = b]
      /\ UNCHANGED <<memVars, blockVars, cacheVars, fresh>>
  BY DEF Compile
<1>2. /\ rip \in Pcs /\ from \in Made \cup {None}
      /\ from # None => nat[from] /\ block[from].exit = rip /\ from \in Ids
  BY <1>1, Pending
<1>3. b \in Made /\ b \in Ids /\ valid[b] /\ block[b].pc = rip
  BY <1>1, <1>2, FoundBlock DEF CodeInv
<1>4. /\ cell \in [Ids -> 0 .. made] /\ ind \in [Entries -> 0 .. made] /\ linked \subseteq Made
      /\ nat \in [Ids -> BOOLEAN] /\ b \in 0 .. made /\ TableSlot[rip] \in Entries /\ None \in 0 .. made
      /\ \A c \in Ids : cell[c] # None => c \in linked /\ nat[c] /\ nat[cell[c]] /\ cell[c] \in Ids
      /\ \A s \in Entries : ind[s] # None => nat[ind[s]] /\ ind[s] \in Ids
      /\ None \notin Ids
  <2>1. \A c \in Ids : cell[c] # None => cell[c] \in Ids
    BY MadeAreIds DEF CodeInv, CacheInv, Shape
  <2>2. \A s \in Entries : ind[s] # None => ind[s] \in Ids
    BY MadeAreIds DEF CodeInv, CacheInv, Shape
  <2> QED
    BY <1>2, <1>3, <2>1, <2>2, SlotsAre DEF CodeInv, CacheInv, Shape, Made, Links, None
<1>5. /\ cell' \in [Ids -> 0 .. made] /\ ind' \in [Entries -> 0 .. made] /\ linked' \subseteq Made
      /\ nat' \in [Ids -> BOOLEAN] /\ nat'[b]
  BY <1>1, <1>2, <1>3, <1>4
<1>6. \A c \in Ids : nat'[c] => nat[c] \/ c = b
  BY <1>1, <1>4
<1>7. \A c \in Ids : nat[c] => nat'[c]
  BY <1>1, <1>4
<1>8. \A c \in Ids : cell'[c] # None =>
        \/ cell'[c] = cell[c] /\ c \in linked' /\ nat'[c] /\ nat'[cell[c]]
        \/ cell'[c] = b /\ c = from /\ c \in linked' /\ nat'[c]
  <2> SUFFICES ASSUME NEW c \in Ids, cell'[c] # None
               PROVE  \/ cell'[c] = cell[c] /\ c \in linked' /\ nat'[c] /\ nat'[cell[c]]
                      \/ cell'[c] = b /\ c = from /\ c \in linked' /\ nat'[c]
    OBVIOUS
  <2>1. CASE c = from
    BY <1>1, <1>2, <1>4, <1>7, <2>1
  <2>2. CASE c # from
    BY <1>1, <1>4, <1>7, <2>2
  <2> QED
    BY <2>1, <2>2
<1>9. \A s \in Entries : ind'[s] # None => ind'[s] = b \/ (ind'[s] = ind[s] /\ nat'[ind[s]])
  BY <1>1, <1>4, <1>7
<1> QED
  BY <1>1, <1>2, <1>3, <1>5, <1>6, <1>8, <1>9, LinkKeeps DEF CodeInv

LEMMA CompileFullKeeps ==
  ASSUME CodeCacheAssumption, CodeInv, CompileFull
  PROVE  CacheInv'
<1> DEFINE b == Found(rip)
<1>1. /\ Looping /\ b # None /\ ~stub[b]
      /\ nat' = [c \in Ids |-> c = b]
      /\ cell' = [c \in Ids |-> None] /\ linked' = {}
      /\ ind' = [s \in Entries |-> IF s = TableSlot[rip] THEN b ELSE None]
      /\ UNCHANGED <<memVars, blockVars, cacheVars, fresh>>
  BY DEF CompileFull
<1>2. rip \in Pcs
  BY <1>1, Pending
<1>3. b \in Made /\ b \in Ids /\ valid[b] /\ block[b].pc = rip
  BY <1>1, <1>2, FoundBlock DEF CodeInv
<1>4. b \in 0 .. made /\ None \in 0 .. made
  BY <1>3 DEF CodeInv, CacheInv, Shape, Made, None
<1>5. /\ cell' \in [Ids -> 0 .. made] /\ ind' \in [Entries -> 0 .. made] /\ linked' \subseteq Made
      /\ nat' \in [Ids -> BOOLEAN] /\ nat'[b]
      /\ \A c \in Ids : nat'[c] => nat[c] \/ c = b
      /\ \A c \in Ids : cell'[c] = None
      /\ \A s \in Entries : ind'[s] # None => ind'[s] = b
  BY <1>1, <1>3, <1>4
<1> QED
  BY <1>1, <1>3, <1>5, LinkKeeps DEF CodeInv

(* reclaim frees what is not in force, which only table_ may still list.   *)
LEMMA EnterRunKeeps ==
  ASSUME CodeCacheAssumption, CacheInv, EnterRun
  PROVE  CacheInv'
<1> USE DEF CacheInv
<1>1. /\ UNCHANGED <<made, block, stub, nat, cell, linked, ind, valid, map, by_page, fresh, watched, spans, wtlb>>
      /\ Made' = Made /\ \A c \in Ids : Page(c)' = Page(c)
  BY DEF EnterRun, memVars, blockVars, codeVars, Made, Page
<1>2. /\ freed' \subseteq Made /\ table' \in [Entries -> 0 .. made]
      /\ \A b \in Ids : valid[b] => b \notin freed'
      /\ \A s \in Entries : table'[s] \notin freed'
  <2>1. CASE Reclaimable
    <3>1. /\ freed' = {b \in Made : ~valid[b]}
          /\ table' = [s \in Entries |-> IF table[s] \in Made /\ ~valid[table[s]]
                                         THEN None ELSE table[s]]
      BY <2>1 DEF EnterRun
    <3>2. None \in 0 .. made /\ None \notin Made
      BY MadeAreIds DEF Shape, None
    <3> QED
      BY <3>1, <3>2 DEF Shape
  <2>2. CASE ~Reclaimable
    BY <2>2 DEF EnterRun, Shape, Registered
  <2> QED
    BY <2>1, <2>2
<1>3. Shape'
  BY <1>1, <1>2 DEF Shape
<1>4. Registered'
  BY <1>1, <1>2, MadeAreIds DEF Registered, Shape
<1>5. TranslatedIsWatched'
  BY <1>1, MadeAreIds DEF TranslatedIsWatched
<1>6. Links'
  BY <1>1 DEF Links
<1> QED
  BY <1>3, <1>4, <1>5, <1>6

(* What leaves the cache alone, and may write a span. *)
LEMMA StillKeeps ==
  ASSUME CodeCacheAssumption, CacheInv,
         UNCHANGED <<spans, watched, wtlb, blockVars, codeVars, cacheVars>>,
         fresh' = fresh \/ \E p \in spans : Change(p)
  PROVE  CacheInv'
<1> USE DEF CacheInv
<1>1. /\ UNCHANGED <<made, block, stub, nat, cell, linked, ind, valid, freed, table, map, by_page>>
      /\ Made' = Made /\ \A c \in Ids : Page(c)' = Page(c)
  BY DEF blockVars, codeVars, cacheVars, Made, Page
<1>2. Shape' /\ Registered' /\ Links'
  BY <1>1, MadeAreIds DEF Shape, Registered, Links
<1>3. TranslatedIsWatched'
  <2> SUFFICES ASSUME NEW b \in Made, valid[b], ~stub[b]
               PROVE  b \in fresh'
    BY <1>1, MadeAreIds DEF TranslatedIsWatched
  <2> QED
    BY DEF TranslatedIsWatched, Change
<1> QED
  BY <1>2, <1>3

-----------------------------------------------------------------------------
(* The calls of run.                                                       *)

\* No block has gone, been freed or put out of force.
Grows == /\ Made \subseteq Made' /\ UNCHANGED freed
         /\ \A b \in Made : stub'[b] = stub[b] /\ valid'[b] = valid[b]

(* What the innermost frame is replaced by is all that must be looked at.  *)
LEMMA TopFrames ==
  ASSUME CodeCacheAssumption, CodeInv, Grows, Depth > 0, NEW f \in Frame,
         frames' = [frames EXCEPT ![Depth] = f], rip' \in Pcs,
         f.cur # None => f.cur \in Made' \ freed,
         f.mode \in {"in", "last"} => f.cur # None /\ ~stub'[f.cur],
         f.mode = "in" /\ ~f.stale => valid'[f.cur],
         f.mode = "in" /\ f.stale => interp',
         f.mode = "last" => ~interp',
         f.pend # None => /\ ~interp' /\ f.mode = "loop"
                          /\ f.pend \in Made' \ freed /\ nat'[f.pend]
                          /\ block'[f.pend].exit = rip',
         f.mode = "last" /\ f.stale => Unlinked'
  PROVE  FramesInv'
<1>1. frames \in Seq(Frame)
  BY DEF CodeInv, FramesInv
<1>2. /\ frames' \in Seq(Frame) /\ Len(frames') = Depth /\ frames'[Depth] = f
      /\ \A i \in 1 .. Depth : i # Depth => frames'[i] = frames[i]
  BY <1>1, SetTop
<1>3. Depth' = Depth /\ Depth \in Nat
  <2>1. Len(frames) \in Nat
    BY <1>1
  <2> QED
    BY <1>2, <2>1 DEF Depth
<1>4. ASSUME NEW i \in 1 .. Depth
      PROVE  FrameSound(i)'
  <2>1. CASE i = Depth
    BY <1>2, <1>3, <2>1 DEF FrameSound, Grows
  <2>2. CASE i # Depth
    <3>1. FrameSound(i) /\ frames'[i] = frames[i]
      BY <1>2, <2>2 DEF CodeInv, FramesInv
    <3> QED
      BY <1>3, <2>2, <3>1 DEF FrameSound, Grows
  <2> QED
    BY <2>1, <2>2
<1>5. Top' = f
  BY <1>2, <1>3 DEF Top
<1> QED
  BY <1>2, <1>3, <1>4, <1>5 DEF FramesInv

(* A frame that executes is not stale before its block's last store. *)
LEMMA TopSound ==
  ASSUME CodeCacheAssumption, CodeInv, Depth > 0
  PROVE  /\ Depth \in Nat /\ Top \in Frame
         /\ Top.cur # None => Top.cur \in Made \ freed
         /\ Top.mode \in {"in", "last"} => Top.cur # None /\ ~stub[Top.cur] /\ Top.pend = None
         /\ Top.mode = "in" /\ ~Top.stale => valid[Top.cur]
         /\ Top.mode = "in" /\ ~interp => ~Top.stale
         /\ Top.mode = "last" => ~interp
         /\ interp => Top.pend = None
         /\ Top.mode = "last" /\ Top.stale => Unlinked
<1>1. Depth \in 1 .. Depth /\ Depth \in Nat
  BY DEF Depth, CodeInv, FramesInv
<1>2. FrameSound(Depth) /\ frames[Depth] \in Frame
  BY <1>1, FrameType DEF CodeInv, FramesInv
<1> QED
  BY <1>1, <1>2 DEF FrameSound, Top, CodeInv, FramesInv

(* From outside the engine, every frame hears of changed code. *)
LEMMA OutsideFrames ==
  ASSUME CodeCacheAssumption, CodeInv, interp, NEW told \in BOOLEAN, ChangeKeeps(told),
         frames' = IF told THEN Advanced ELSE frames, UNCHANGED <<interp, rip>>
  PROVE  CodeInv'
<1>1. frames \in Seq(Frame) /\ Depth \in Nat
  BY DEF CodeInv, FramesInv, Depth
<1>2. /\ CacheInv' /\ Made' = Made /\ UNCHANGED <<block, stub, freed, nat>>
      /\ ~told => UNCHANGED <<valid, cell, ind>>
  BY DEF ChangeKeeps, Made
<1>3. /\ frames' \in Seq(Frame) /\ Len(frames') = Depth
      /\ \A i \in 1 .. Depth : /\ frames'[i].mode = frames[i].mode /\ frames'[i].cur = frames[i].cur
                               /\ frames'[i].pend = frames[i].pend
                               /\ ~told => frames'[i] = frames[i]
                               /\ told => frames'[i].stale
  <2>1. CASE told
    <3>1. /\ frames' \in Seq(Frame) /\ Len(frames') = Depth
          /\ \A i \in 1 .. Depth : frames'[i] = [frames[i] EXCEPT !.stale = TRUE]
      BY <1>1, <2>1, AdvancedFrames
    <3>2. \A i \in 1 .. Depth : frames[i] \in Frame
      BY <1>1, FrameType
    <3> QED
      BY <2>1, <3>1, <3>2 DEF Frame
  <2>2. CASE ~told
    BY <1>1, <2>2 DEF Depth
  <2> QED
    BY <2>1, <2>2
<1>4. Depth' = Depth
  BY <1>3 DEF Depth
<1>5. ASSUME NEW i \in 1 .. Depth
      PROVE  FrameSound(i)'
  <2>1. FrameSound(i)
    BY DEF CodeInv, FramesInv
  <2> QED
    BY <1>2, <1>3, <1>4, <2>1 DEF FrameSound
<1>6. Depth > 0 => Top'.mode # "last"
  BY <1>1, <1>3, <1>4, TopSound DEF Top
<1> QED
  BY <1>2, <1>3, <1>4, <1>5, <1>6 DEF CodeInv, FramesInv

LEMMA HeadOfAdvanced ==
  ASSUME CodeCacheAssumption, CodeInv, NEW p \in Pages, Depth > 0
  PROVE  /\ Written(p) \in Seq(Frame) /\ Len(Written(p)) = Depth
         /\ Reports(p) => Written(p)[Depth] = [Top EXCEPT !.stale = TRUE]
         /\ ~Reports(p) => Written(p) = frames
         /\ \A i \in 1 .. Depth : /\ Written(p)[i].mode = frames[i].mode
                                  /\ Written(p)[i].cur = frames[i].cur
                                  /\ Written(p)[i].pend = frames[i].pend
                                  /\ Reports(p) => Written(p)[i].stale
<1>1. frames \in Seq(Frame) /\ Depth \in 1 .. Depth
  BY DEF CodeInv, FramesInv, Depth
<1>2. \A i \in 1 .. Depth : frames[i] \in Frame
  BY <1>1, FrameType
<1>3. /\ Advanced \in Seq(Frame) /\ Len(Advanced) = Depth
      /\ \A i \in 1 .. Depth : Advanced[i] = [frames[i] EXCEPT !.stale = TRUE]
  BY <1>1, AdvancedFrames
<1>4. CASE Reports(p)
  BY <1>1, <1>2, <1>3, <1>4 DEF Written, Top, Frame
<1>5. CASE ~Reports(p)
  BY <1>1, <1>2, <1>5 DEF Written, Depth
<1> QED
  BY <1>4, <1>5

(* A store inside a block: if it was reported, the block is left, or was at *)
(* its end and leads nowhere.                                              *)
LEMMA StoreKeeps ==
  ASSUME CodeCacheAssumption, CodeInv, NEW p \in Pages, Store(p) \/ LastStore(p)
  PROVE  CodeInv'
<1>1. /\ ~interp /\ Depth > 0 /\ Top.mode = "in" /\ Write(p) /\ interp' = interp
      /\ rip' \in Pcs
  BY DEF Store, LastStore, Running, CodeInv, FramesInv
<1>2. ChangeKeeps(Reports(p)) /\ CacheInv'
  BY <1>1, WriteKeeps DEF CodeInv, ChangeKeeps
<1>3. /\ Made' = Made /\ UNCHANGED <<block, stub, freed, nat>>
      /\ Reports(p) => Unlinked'
      /\ ~Reports(p) => UNCHANGED <<valid, cell, ind>>
  BY <1>2 DEF ChangeKeeps, Made, Unlinked
<1>4. /\ Depth \in Nat /\ Top \in Frame /\ Top.pend = None /\ ~Top.stale
      /\ Top.cur \in Made \ freed /\ Top.cur # None /\ ~stub[Top.cur] /\ valid[Top.cur]
  BY <1>1, TopSound
<1>5. /\ Written(p) \in Seq(Frame) /\ Len(Written(p)) = Depth
      /\ Reports(p) => Written(p)[Depth] = [Top EXCEPT !.stale = TRUE]
      /\ ~Reports(p) => Written(p) = frames
      /\ \A i \in 1 .. Depth : /\ Written(p)[i].mode = frames[i].mode
                               /\ Written(p)[i].cur = frames[i].cur
                               /\ Written(p)[i].pend = frames[i].pend
                               /\ Reports(p) => Written(p)[i].stale
  BY <1>1, HeadOfAdvanced
<1>6. CASE ~Reports(p) /\ frames' = frames
  <2>1. Depth' = Depth /\ Top' = Top
    BY <1>6 DEF Depth, Top
  <2>2. rip' = rip
    <3>1. CASE Store(p)
      BY <1>4, <1>5, <1>6, <3>1 DEF Store, Top
    <3>2. CASE LastStore(p)
      BY <3>2 DEF LastStore
    <3> QED
      BY <3>1, <3>2
  <2>3. \A i \in 1 .. Depth : FrameSound(i)'
    BY <1>1, <1>3, <1>6, <2>1, <2>2 DEF FrameSound, CodeInv, FramesInv
  <2> QED
    BY <1>1, <1>2, <1>6, <2>1, <2>3 DEF CodeInv, FramesInv
<1>7. ASSUME NEW mode \in {"loop", "last"}, mode = "loop" => Reports(p),
             frames' = [Written(p) EXCEPT ![Depth] = [Written(p)[Depth] EXCEPT !.mode = mode]]
      PROVE  CodeInv'
  <2> DEFINE f == [Written(p)[Depth] EXCEPT !.mode = mode]
  <2>1. Written(p)[Depth] \in Frame /\ Depth \in 1 .. Depth
    BY <1>1, <1>4, <1>5
  <2>2. /\ f \in Frame /\ f.mode = mode /\ f.pend = None /\ f.cur = Top.cur
        /\ f.stale => Reports(p)
    BY <1>4, <1>5, <2>1 DEF Frame, Top
  <2>3. /\ frames' \in Seq(Frame) /\ Len(frames') = Depth /\ frames'[Depth] = f
        /\ \A i \in 1 .. Depth : i # Depth => frames'[i] = Written(p)[i]
    BY <1>4, <1>5, <1>7, <2>1, <2>2
  <2>4. Depth' = Depth /\ Top' = f
    BY <2>3 DEF Depth, Top
  <2>5. ASSUME NEW i \in 1 .. Depth
        PROVE  FrameSound(i)'
    <3>1. CASE i = Depth
      BY <1>1, <1>3, <1>4, <2>2, <2>3, <2>4, <3>1 DEF FrameSound
    <3>2. CASE i # Depth
      <4>1. FrameSound(i) /\ frames'[i] = Written(p)[i]
        BY <2>3, <3>2 DEF CodeInv, FramesInv
      <4> QED
        BY <1>3, <1>5, <2>4, <3>2, <4>1 DEF FrameSound
    <3> QED
      BY <3>1, <3>2
  <2>6. Top'.mode = "last" /\ Top'.stale => Unlinked'
    BY <1>3, <2>2, <2>4
  <2> QED
    BY <1>1, <1>2, <2>3, <2>4, <2>5, <2>6 DEF CodeInv, FramesInv
<1>8. CASE Store(p)
  <2>1. CASE Reports(p)
    <3>1. Written(p)[Depth].stale
      <4>1. [Top EXCEPT !.stale = TRUE].stale
        BY <1>4 DEF Frame
      <4> QED
        BY <1>5, <2>1, <4>1
    <3>2. frames' = [Written(p) EXCEPT ![Depth] = [Written(p)[Depth] EXCEPT !.mode = "loop"]]
      BY <1>8, <3>1 DEF Store
    <3> QED
      BY <1>7, <2>1, <3>2
  <2>2. CASE ~Reports(p)
    <3>1. ~Written(p)[Depth].stale
      BY <1>4, <1>5, <2>2 DEF Top
    <3> QED
      BY <1>6, <1>8, <2>2, <3>1 DEF Store
  <2> QED
    BY <2>1, <2>2
<1>9. CASE LastStore(p)
  <2>1. frames' = [Written(p) EXCEPT ![Depth] = [Written(p)[Depth] EXCEPT !.mode = "last"]]
    BY <1>9 DEF LastStore
  <2> QED
    BY <1>7, <2>1
<1> QED
  BY <1>8, <1>9

(* run is entered: only from outside translated code, and with nothing to  *)
(* free while any other call is in it.                                     *)
LEMMA EnterRunFrames ==
  ASSUME CodeCacheAssumption, CodeInv, EnterRun
  PROVE  CodeInv'
<1> DEFINE f == [mode |-> "loop", cur |-> None, stale |-> FALSE, pend |-> None]
<1>1. /\ interp /\ ~interp' /\ rip' \in Pcs /\ frames' = Append(frames, f)
      /\ UNCHANGED <<made, block, stub, valid, nat>> /\ Made' = Made
      /\ Depth > 0 => UNCHANGED freed
  BY DEF EnterRun, Reclaimable, blockVars, codeVars, Made
<1>2. CacheInv'
  BY EnterRunKeeps DEF CodeInv
<1>3. f \in Frame /\ frames \in Seq(Frame) /\ Depth \in Nat
  BY DEF Frame, CodeInv, FramesInv, Depth
<1>4. /\ frames' \in Seq(Frame) /\ Len(frames') = Depth + 1 /\ frames'[Depth + 1] = f
      /\ \A i \in 1 .. Depth : frames'[i] = frames[i]
  BY <1>1, <1>3, PushFrame
<1>5. Depth' = Depth + 1 /\ Top' = f
  BY <1>4 DEF Depth, Top
<1>6. ASSUME NEW i \in 1 .. Depth + 1
      PROVE  FrameSound(i)'
  <2>1. CASE i = Depth + 1
    BY <1>4, <2>1 DEF FrameSound
  <2>2. CASE i # Depth + 1
    <3>1. i \in 1 .. Depth /\ Depth > 0
      BY <1>3, <2>2
    <3>2. FrameSound(i) /\ frames'[i] = frames[i]
      BY <1>4, <3>1 DEF CodeInv, FramesInv
    <3> QED
      BY <1>1, <1>5, <2>2, <3>1, <3>2 DEF FrameSound
  <2> QED
    BY <2>1, <2>2
<1> QED
  BY <1>1, <1>2, <1>4, <1>5, <1>6 DEF CodeInv, FramesInv

(* run returns. *)
LEMMA ReturnFrames ==
  ASSUME CodeCacheAssumption, CodeInv, ~interp, Depth > 0, CacheInv', interp',
         frames' = SubSeq(frames, 1, Depth - 1),
         UNCHANGED <<blockVars, codeVars, cacheVars, rip>>
  PROVE  CodeInv'
<1>1. UNCHANGED <<made, block, stub, valid, nat, freed, cell, ind>> /\ Made' = Made
  BY DEF blockVars, codeVars, cacheVars, Made
<1>2. frames \in Seq(Frame) /\ Depth \in Nat /\ rip \in Pcs
  BY DEF CodeInv, FramesInv, Depth
<1>3. /\ frames' \in Seq(Frame) /\ Len(frames') = Depth - 1
      /\ \A i \in 1 .. Depth - 1 : frames'[i] = frames[i]
  BY <1>2, PopFrame
<1>4. Depth' = Depth - 1
  BY <1>3 DEF Depth
<1>5. ASSUME NEW i \in 1 .. Depth - 1
      PROVE  FrameSound(i)' /\ frames'[i].mode # "last"
  <2>1. FrameSound(i) /\ frames'[i] = frames[i] /\ i # Depth
    BY <1>2, <1>3 DEF CodeInv, FramesInv
  <2> QED
    BY <1>1, <2>1 DEF FrameSound
<1>6. Depth' > 0 => Top'.mode # "last"
  <2>1. Depth' > 0 => Depth' \in 1 .. Depth - 1
    BY <1>2, <1>4
  <2> QED
    BY <1>5, <2>1 DEF Top
<1> QED
  BY <1>2, <1>3, <1>4, <1>5, <1>6 DEF CodeInv, FramesInv

(* The interpreter returns into a block: it goes on if nothing changed. *)
LEMMA EndInterpFrames ==
  ASSUME CodeCacheAssumption, CodeInv, EndInterp
  PROVE  CodeInv'
<1>1. /\ interp /\ Depth > 0 /\ ~interp'
      /\ UNCHANGED <<spans, watched, wtlb, blockVars, codeVars, cacheVars, fresh>>
  BY DEF EndInterp, memVars
<1>2. CacheInv'
  BY <1>1, StillKeeps DEF CodeInv
<1>3. Grows /\ UNCHANGED <<block, nat>>
  BY <1>1 DEF Grows, blockVars, codeVars, cacheVars, Made
<1>4. /\ Depth \in Nat /\ Top \in Frame /\ Top.pend = None /\ Top.mode # "last"
      /\ Top.cur # None => Top.cur \in Made \ freed
      /\ Top.mode = "in" => Top.cur # None /\ ~stub[Top.cur]
      /\ Top.mode = "in" /\ ~Top.stale => valid[Top.cur]
  BY <1>1, TopSound
<1>5. frames \in Seq(Frame) /\ Depth \in 1 .. Depth
  BY <1>1, <1>4 DEF CodeInv, FramesInv
<1>6. CASE ~Top.stale /\ frames' = frames /\ UNCHANGED rip
  <2>1. frames' = [frames EXCEPT ![Depth] = Top]
    BY <1>5, <1>6 DEF Top, Depth
  <2>2. rip' \in Pcs
    BY <1>6 DEF CodeInv, FramesInv
  <2>3. FramesInv'
    BY <1>1, <1>3, <1>4, <1>6, <2>1, <2>2, TopFrames DEF Grows
  <2> QED
    BY <1>2, <2>3 DEF CodeInv
<1>7. CASE frames' = [frames EXCEPT ![Depth].mode = "loop"] /\ rip' \in Pcs
  <2> DEFINE f == [Top EXCEPT !.mode = "loop"]
  <2>1. frames' = [frames EXCEPT ![Depth] = f]
    BY <1>7 DEF Top
  <2>2. f \in Frame /\ f.mode = "loop" /\ f.cur = Top.cur /\ f.pend = None
    BY <1>4 DEF Frame
  <2>3. FramesInv'
    BY <1>1, <1>3, <1>4, <1>7, <2>1, <2>2, TopFrames DEF Grows
  <2> QED
    BY <1>2, <2>3 DEF CodeInv
<1> QED
  BY <1>6, <1>7 DEF EndInterp

(* A block is begun. *)
LEMMA BeginFrames ==
  ASSUME CodeCacheAssumption, CodeInv, CacheInv', Looping, Begin(Found(rip)),
         Found(rip) # None, ~stub[Found(rip)],
         UNCHANGED <<blockVars, cacheVars, interp, rip>>
  PROVE  CodeInv'
<1> DEFINE b == Found(rip)
           f == [mode |-> "in", cur |-> b, stale |-> FALSE, pend |-> None]
<1>1. rip \in Pcs
  BY DEF CodeInv, FramesInv
<1>2. b \in Made \ freed /\ b \in Ids /\ valid[b]
  BY <1>1, FoundBlock DEF CodeInv
<1>3. f \in Frame /\ frames' = [frames EXCEPT ![Depth] = f] /\ Depth > 0
  BY <1>2 DEF Frame, Begin, Looping
<1>4. Grows
  BY DEF Grows, blockVars, cacheVars, Made
<1>5. f.cur = b /\ f.mode = "in" /\ ~f.stale /\ f.pend = None /\ b # None
  OBVIOUS
<1>6. b \in Made' \ freed /\ ~stub'[b] /\ valid'[b] /\ rip' \in Pcs
  BY <1>1, <1>2, <1>4 DEF Grows
<1>7. FramesInv'
  BY <1>3, <1>4, <1>5, <1>6, TopFrames
<1> QED
  BY <1>7 DEF CodeInv

(* A block is left, for the engine's loop or straight for another block.   *)
LEMMA LeaveFrames ==
  ASSUME CodeCacheAssumption, CodeInv, Running,
         UNCHANGED <<memVars, blockVars, codeVars, cacheVars, interp, fresh>>, rip' \in Pcs,
         \/ frames' = [frames EXCEPT ![Depth] = [Top EXCEPT !.mode = "loop"]]
         \/ /\ frames' = [frames EXCEPT ![Depth] = [Top EXCEPT !.mode = "loop", !.pend = Top.cur]]
            /\ nat[Top.cur] /\ block[Top.cur].exit = rip'
         \/ \E to \in Made : /\ frames' = [frames EXCEPT ![Depth] = [Top EXCEPT !.mode = "in", !.cur = to]]
                             /\ valid[to] /\ nat[to] /\ ~Unlinked
  PROVE  CodeInv'
<1>1. /\ UNCHANGED <<made, block, stub, valid, nat, freed, cell, ind>> /\ Made' = Made
      /\ CacheInv'
  BY StillKeeps DEF CodeInv, memVars, blockVars, codeVars, cacheVars, Made
<1>2. Grows
  BY <1>1 DEF Grows
<1>3. /\ ~interp /\ Depth > 0 /\ Depth \in Nat /\ Top \in Frame /\ Top.pend = None
      /\ Top.mode \in {"in", "last"}
      /\ Top.cur \in Made \ freed /\ Top.cur # None /\ ~stub[Top.cur] /\ Top.cur \in Ids
      /\ Top.mode = "in" => ~Top.stale
      /\ Top.mode = "last" /\ Top.stale => Unlinked
  BY TopSound, MadeAreIds DEF Running, CodeInv, CacheInv
<1>4. CASE frames' = [frames EXCEPT ![Depth] = [Top EXCEPT !.mode = "loop"]]
  <2> DEFINE f == [Top EXCEPT !.mode = "loop"]
  <2>1. f \in Frame /\ f.mode = "loop" /\ f.cur = Top.cur /\ f.pend = None
    BY <1>3 DEF Frame
  <2>2. FramesInv'
    BY <1>1, <1>2, <1>3, <1>4, <2>1, TopFrames
  <2> QED
    BY <1>1, <2>2 DEF CodeInv
<1>5. CASE /\ frames' = [frames EXCEPT ![Depth] = [Top EXCEPT !.mode = "loop", !.pend = Top.cur]]
           /\ nat[Top.cur] /\ block[Top.cur].exit = rip'
  <2> DEFINE f == [Top EXCEPT !.mode = "loop", !.pend = Top.cur]
  <2>1. f \in Frame /\ f.mode = "loop" /\ f.cur = Top.cur /\ f.pend = Top.cur
    BY <1>3 DEF Frame
  <2>2. FramesInv'
    BY <1>1, <1>2, <1>3, <1>5, <2>1, TopFrames
  <2> QED
    BY <1>1, <2>2 DEF CodeInv
<1>6. ASSUME NEW to \in Made, valid[to], nat[to], ~Unlinked,
             frames' = [frames EXCEPT ![Depth] = [Top EXCEPT !.mode = "in", !.cur = to]]
      PROVE  CodeInv'
  <2> DEFINE f == [Top EXCEPT !.mode = "in", !.cur = to]
  <2>1. to \in Ids /\ to # None /\ to \notin freed /\ ~stub[to]
    BY <1>6, MadeAreIds DEF CodeInv, CacheInv, Registered
  <2>2. f \in Frame /\ f.mode = "in" /\ f.cur = to /\ f.pend = None /\ ~f.stale
    BY <1>3, <1>6, <2>1 DEF Frame
  <2>3. to \in Made' \ freed /\ ~stub'[to] /\ valid'[to]
    BY <1>1, <1>6, <2>1
  <2>4. frames' = [frames EXCEPT ![Depth] = f]
    BY <1>6
  <2> HIDE DEF f
  <2>5. f.cur \in Made' \ freed /\ ~stub'[f.cur] /\ valid'[f.cur]
    BY <2>2, <2>3
  <2>6. FramesInv'
    BY <1>2, <1>3, <2>1, <2>2, <2>4, <2>5, TopFrames
  <2> QED
    BY <1>1, <2>6 DEF CodeInv
<1> QED
  BY <1>4, <1>5, <1>6


-----------------------------------------------------------------------------
(* The invariant and the theorems.                                         *)

LEMMA InitInv ==
  ASSUME CodeCacheAssumption, Init
  PROVE  CodeInv
<1>1. \A pc \in Pcs : (CHOOSE q \in Pcs : TRUE) \in Pcs
  OBVIOUS
<1>2. Made = {} /\ None \notin Pages
  BY DEF Init, Made, CodeCacheAssumption
<1>3. Shape
  BY <1>1, <1>2 DEF Init, Shape, CodeCacheAssumption, Ids, None, Indirect
<1>4. Registered /\ TranslatedIsWatched /\ Links
  BY <1>2 DEF Init, Registered, TranslatedIsWatched, Links
<1>5. FramesInv
  BY DEF Init, FramesInv, Depth
<1> QED
  BY <1>3, <1>4, <1>5 DEF CodeInv, CacheInv

(* Nothing in the calls of run has to do with what only grows the cache.   *)
LEMMA TranslateFrames ==
  ASSUME CodeCacheAssumption, CodeInv, Translate
  PROVE  CodeInv'
<1>1. /\ CacheInv'
      /\ made' = made + 1 /\ UNCHANGED <<freed, nat, cell, ind, frames, interp, rip>>
      /\ \A b \in Made : valid'[b] = valid[b] /\ stub'[b] = stub[b] /\ block'[b] = block[b]
  BY TranslateKeeps
<1>2. Made \subseteq Made'
  BY <1>1 DEF CodeInv, CacheInv, Shape, Made
<1>3. Depth' = Depth /\ Top' = Top
  BY <1>1 DEF Depth, Top
<1>4. ASSUME NEW i \in 1 .. Depth
      PROVE  FrameSound(i)'
  <2>1. FrameSound(i)
    BY DEF CodeInv, FramesInv
  <2> QED
    BY <1>1, <1>2, <1>3, <2>1 DEF FrameSound
<1>5. Unlinked => Unlinked'
  BY <1>1 DEF Unlinked
<1> QED
  BY <1>1, <1>3, <1>4, <1>5 DEF CodeInv, FramesInv

(* What leaves the calls of run alone, and the blocks.                     *)
LEMMA SameFrames ==
  ASSUME CodeInv, CacheInv', UNCHANGED <<blockVars, codeVars, cacheVars, runVars>>
  PROVE  CodeInv'
<1>1. UNCHANGED <<made, block, stub, valid, nat, freed, cell, ind, frames, interp, rip>>
  BY DEF blockVars, codeVars, cacheVars, runVars
<1> QED
  BY <1>1 DEF CodeInv, FramesInv, FrameSound, Depth, Top, Unlinked, Made

LEMMA OutsideKeeps ==
  ASSUME CodeCacheAssumption, CodeInv, Outside
  PROVE  CodeInv'
<1>1. ASSUME NEW p \in Pages, InterpWrite(p)
      PROVE  CodeInv'
  <2>1. /\ interp /\ Write(p) /\ UNCHANGED <<interp, rip>>
        /\ frames' = IF Reports(p) THEN Advanced ELSE frames
    BY <1>1 DEF InterpWrite, Written
  <2>2. ChangeKeeps(Reports(p)) /\ Reports(p) \in BOOLEAN
    BY <2>1, WriteKeeps DEF CodeInv, Reports
  <2> QED
    BY <2>1, <2>2, OutsideFrames
<1>2. ASSUME NEW p \in Pages, Unmap(p) \/ MapContiguous(p)
      PROVE  CodeInv'
  <2> DEFINE told == p \in spans \/ p \in watched
  <2>1. /\ interp /\ Drop(p) /\ spans' \subseteq spans \cup {p}
        /\ UNCHANGED <<interp, rip, blockVars>>
    BY <1>2 DEF Unmap, MapContiguous
  <2>2. ChangeKeeps(told)
    BY <2>1, DropKeeps DEF CodeInv
  <2>3. frames' = IF told THEN Advanced ELSE frames
    BY <2>1 DEF Drop
  <2>4. told \in BOOLEAN
    OBVIOUS
  <2> HIDE DEF told
  <2> QED
    BY <2>1, <2>2, <2>3, <2>4, OutsideFrames
<1>3. ASSUME NEW p \in Pages, Map(p) \/ HostWrite(p)
      PROVE  CodeInv'
  <2>1. /\ UNCHANGED <<spans, watched, wtlb, blockVars, codeVars, cacheVars, runVars>>
        /\ fresh' = fresh \/ \E q \in spans : Change(q)
    BY <1>3 DEF Map, HostWrite, memVars
  <2>2. CacheInv'
    BY <2>1, StillKeeps DEF CodeInv
  <2> QED
    BY <2>1, <2>2, SameFrames
<1>4. CASE EnterRun
  BY <1>4, EnterRunFrames
<1>5. CASE EndInterp
  BY <1>5, EndInterpFrames
<1> QED
  BY <1>1, <1>2, <1>3, <1>4, <1>5 DEF Outside

LEMMA EngineKeeps ==
  ASSUME CodeCacheAssumption, CodeInv, Engine
  PROVE  CodeInv'
<1>1. CASE LeaveRun \/ Stub
  <2>1. /\ ~interp /\ Depth > 0 /\ interp' /\ frames' = SubSeq(frames, 1, Depth - 1)
        /\ UNCHANGED <<spans, watched, wtlb, blockVars, codeVars, cacheVars, rip, fresh>>
    BY <1>1 DEF LeaveRun, Stub, Looping, memVars
  <2>2. CacheInv'
    BY <2>1, StillKeeps DEF CodeInv
  <2> QED
    BY <2>1, <2>2, ReturnFrames
<1>2. CASE Translate
  BY <1>2, TranslateFrames
<1>3. CASE RunThreaded
  <2>1. CacheInv'
    BY <1>3, StillKeeps DEF RunThreaded, CodeInv, memVars
  <2> QED
    BY <1>3, <2>1, BeginFrames DEF RunThreaded
<1>4. CASE RunNative
  BY <1>4, RunNativeKeeps, BeginFrames DEF RunNative
<1>5. CASE Compile
  BY <1>5, CompileKeeps, BeginFrames DEF Compile
<1>6. CASE CompileFull
  BY <1>6, CompileFullKeeps, BeginFrames DEF CompileFull
<1> QED
  BY <1>1, <1>2, <1>3, <1>4, <1>5, <1>6 DEF Engine

LEMMA InBlockKeeps ==
  ASSUME CodeCacheAssumption, CodeInv, InBlock
  PROVE  CodeInv'
<1>1. CASE \E p \in Pages : Store(p) \/ LastStore(p)
  BY <1>1, StoreKeeps
<1>2. CASE Interp
  <2>1. /\ interp' /\ ~interp /\ Depth > 0 /\ Top.mode = "in"
        /\ UNCHANGED <<spans, watched, wtlb, blockVars, codeVars, cacheVars, frames, rip, fresh>>
    BY <1>2 DEF Interp, Running, memVars
  <2>2. CacheInv'
    BY <2>1, StillKeeps DEF CodeInv
  <2>3. UNCHANGED <<made, block, stub, valid, nat, freed, cell, ind>> /\ Made' = Made
    BY <2>1 DEF blockVars, codeVars, cacheVars, Made
  <2>4. Depth' = Depth /\ Top' = Top /\ Top.pend = None
    BY <2>1, TopSound DEF Depth, Top
  <2>5. ASSUME NEW i \in 1 .. Depth
        PROVE  FrameSound(i)'
    <3>1. FrameSound(i)
      BY DEF CodeInv, FramesInv
    <3>2. i = Depth => frames[i] = Top
      BY DEF Top
    <3> QED
      BY <2>1, <2>3, <2>4, <3>1, <3>2 DEF FrameSound
  <2> QED
    BY <2>1, <2>2, <2>4, <2>5 DEF CodeInv, FramesInv
<1>3. ASSUME Running, ExitStatic \/ ExitIndirect \/ ExitToLoop
      PROVE  CodeInv'
  <2>1. /\ UNCHANGED <<memVars, blockVars, codeVars, cacheVars, interp, fresh>>
        /\ Top \in Frame /\ Depth > 0 /\ Top.cur \in Ids /\ rip \in Pcs /\ frames[Depth] = Top
    BY <1>3, TopSound, MadeAreIds
       DEF ExitStatic, ExitIndirect, ExitToLoop, Running, CodeInv, CacheInv, FramesInv, Top
  <2>2. block[Top.cur].exit \in Pcs \cup {Indirect}
    BY <2>1 DEF CodeInv, CacheInv, Shape
  <2>3. CASE ExitStatic
    <3> DEFINE b == Top.cur
    <3>1. rip' \in Pcs /\ nat[b] /\ block[b].exit = rip'
      BY <2>2, <2>3 DEF ExitStatic
    <3>2. CASE cell[b] # None
      <4>1. frames' = [frames EXCEPT ![Depth] = [Top EXCEPT !.mode = "in", !.cur = cell[b]]]
        BY <2>1, <2>3, <3>2 DEF ExitStatic
      <4>2. valid[cell[b]] /\ nat[cell[b]] /\ cell[b] \in Made /\ ~Unlinked
        BY <2>1, <3>2, MadeAreIds DEF CodeInv, CacheInv, Links, Shape, Unlinked
      <4> QED
        BY <1>3, <2>1, <3>1, <4>1, <4>2, LeaveFrames
    <3>3. CASE cell[b] = None
      <4>1. frames' = [frames EXCEPT ![Depth] = [Top EXCEPT !.mode = "loop", !.pend = Top.cur]]
        BY <2>1, <2>3, <3>3 DEF ExitStatic
      <4> QED
        BY <1>3, <2>1, <3>1, <4>1, LeaveFrames
    <3> QED
      BY <3>2, <3>3
  <2>4. CASE ExitIndirect
    <3>1. PICK pc \in Pcs :
             /\ rip' = pc
             /\ frames' = [frames EXCEPT ![Depth] =
                              IF ind[TableSlot[pc]] # None /\ block[ind[TableSlot[pc]]].pc = pc
                              THEN [@ EXCEPT !.mode = "in", !.cur = ind[TableSlot[pc]]]
                              ELSE [@ EXCEPT !.mode = "loop"]]
      BY <2>4 DEF ExitIndirect
    <3> DEFINE to == ind[TableSlot[pc]]
    <3>2. CASE to # None /\ block[to].pc = pc
      <4>1. frames' = [frames EXCEPT ![Depth] = [Top EXCEPT !.mode = "in", !.cur = to]]
        BY <2>1, <3>1, <3>2
      <4>2. TableSlot[pc] \in Entries
        BY SlotsAre
      <4>3. valid[to] /\ nat[to] /\ to \in Made /\ ~Unlinked
        BY <3>2, <4>2, MadeAreIds DEF CodeInv, CacheInv, Links, Shape, Unlinked
      <4> QED
        BY <1>3, <2>1, <3>1, <4>1, <4>3, LeaveFrames
    <3>3. CASE ~(to # None /\ block[to].pc = pc)
      <4>1. frames' = [frames EXCEPT ![Depth] = [Top EXCEPT !.mode = "loop"]]
        BY <2>1, <3>1, <3>3
      <4> QED
        BY <1>3, <2>1, <3>1, <4>1, LeaveFrames
    <3> QED
      BY <3>2, <3>3
  <2>5. CASE ExitToLoop
    <3>1. frames' = [frames EXCEPT ![Depth] = [Top EXCEPT !.mode = "loop"]] /\ rip' \in Pcs
      BY <2>1, <2>2, <2>5 DEF ExitToLoop
    <3> QED
      BY <1>3, <2>1, <3>1, LeaveFrames
  <2> QED
    BY <1>3, <2>3, <2>4, <2>5
<1> QED
  BY <1>1, <1>2, <1>3 DEF InBlock, ExitStatic, ExitIndirect, ExitToLoop

LEMMA StepInv ==
  ASSUME CodeCacheAssumption, CodeInv, [Next]_vars
  PROVE  CodeInv'
<1>1. CASE Next
  BY <1>1, OutsideKeeps, EngineKeeps, InBlockKeeps DEF Next
<1>2. CASE UNCHANGED vars
  <2>1. CacheInv'
    BY <1>2, StillKeeps DEF CodeInv, vars, memVars
  <2> QED
    BY <1>2, <2>1, SameFrames DEF vars
<1> QED
  BY <1>1, <1>2

LEMMA InvariantHolds ==
  ASSUME CodeCacheAssumption
  PROVE  Spec => []CodeInv
<1>1. Init => CodeInv
  BY InitInv
<1>2. CodeInv /\ [Next]_vars => CodeInv'
  BY StepInv
<1> QED
  BY <1>1, <1>2, PTL DEF Spec

(* An instruction of a translated block is only begun while the page it    *)
(* was translated from is as it was then: of Engine::run with CHK_FLUSH    *)
(* after the stores and with Memory's reports of writes to watched pages.  *)
THEOREM OnlyCurrentCodeRuns ==
  ASSUME CodeCacheAssumption
  PROVE  Spec => []RunsWhatMemoryHolds
<1>1. ASSUME CodeInv, ~interp, Depth > 0, Top.mode = "in"
      PROVE  Top.cur \in fresh /\ valid[Top.cur]
  <2>1. Top.cur \in Made /\ ~stub[Top.cur] /\ valid[Top.cur]
    BY <1>1, TopSound
  <2> QED
    BY <2>1, <1>1 DEF CodeInv, CacheInv, TranslatedIsWatched
<1>2. CodeInv => RunsWhatMemoryHolds
  BY <1>1 DEF RunsWhatMemoryHolds
<1> QED
  BY <1>2, InvariantHolds, PTL

(* Every block the engine can reach, through its tables, its pages' lists  *)
(* or the links of machine code, has not been freed, and every block in    *)
(* force is on a page the next write to which is reported.                 *)
THEOREM ReachableIsCurrent ==
  ASSUME CodeCacheAssumption
  PROVE  Spec => []WhatIsReachedIsCurrent
<1>1. ASSUME CodeInv
      PROVE  WhatIsReachedIsCurrent
  <2>1. freed \subseteq Made /\ None \notin Made /\ Made \subseteq Ids
    BY <1>1, MadeAreIds DEF CodeInv, CacheInv, Shape
  <2>2. LinksAreCurrent
    BY <1>1, <2>1 DEF CodeInv, CacheInv, Links, LinksAreCurrent, Living
  <2>3. ASSUME NEW i \in 1 .. Depth
        PROVE  frames[i].cur \notin freed /\ frames[i].pend \notin freed
    <3>1. FrameSound(i)
      BY <1>1 DEF CodeInv, FramesInv
    <3> QED
      BY <2>1, <3>1 DEF FrameSound
  <2>4. \A b \in 0 .. made : b # None => b \in Ids
    BY <1>1, <2>1, MadeAreIds DEF CodeInv, CacheInv
  <2>5. \A s \in Entries : table[s] \notin freed /\ ind[s] \notin freed
    BY <1>1, <2>1, <2>4 DEF CodeInv, CacheInv, Shape, Registered, Links
  <2>6. \A pc \in Pcs : map[pc] \notin freed
    BY <1>1, <2>1, <2>4 DEF CodeInv, CacheInv, Shape, Registered
  <2>7. \A p \in Pages : by_page[p] \cap freed = {}
    BY <1>1, <2>1 DEF CodeInv, CacheInv, Shape, Registered
  <2> QED
    BY <1>1, <2>2, <2>3, <2>5, <2>6, <2>7
       DEF WhatIsReachedIsCurrent, NothingInUseIsFreed, CodeInv, CacheInv
<1>2. CodeInv => WhatIsReachedIsCurrent
  BY <1>1
<1> QED
  BY <1>2, InvariantHolds, PTL

-----------------------------------------------------------------------------
(* The x87 registers.  Beside the architecture's stack, in the registers and *)
(* in what FXSAVE wrote: the types, and the top inside the saved word.       *)
IsFpu(f) == f \in [st : [FpuRegister -> Int], used : [FpuRegister -> BOOLEAN],
                   top : FpuRegister, field : FpuRegister]

\* Which place of the stack register r is.
Place(f, r) == IF f.top <= r THEN r - f.top ELSE r - f.top + Slots

Shows(f, s) ==
    /\ IsFpu(f) /\ s \in Seq(Int) /\ Len(s) <= MaxHeight
    /\ \A i \in 0 .. Len(s) - 1 : Reg(f, i) = s[i + 1]
    /\ \A r \in FpuRegister : f.used[r] = (Place(f, r) < Len(s))

X87Inv ==
    /\ stack \in [now : Seq(Int), saved : Seq(Int)]
    /\ Shows(fpu, stack.now)
    /\ area = << >> \/ (Shows(area, stack.saved) /\ area.field = area.top)

LEMMA Wrapped ==
  ASSUME NEW S \in Nat \ {0}, NEW a \in 0 .. 2 * S - 1
  PROVE  a % S = IF a < S THEN a ELSE a - S
  BY Z3

LEMMA WrappedBelow ==
  ASSUME NEW S \in Nat \ {0}, NEW a \in 0 .. S - 1
  PROVE  (a - 1) % S = IF a = 0 THEN S - 1 ELSE a - 1
  BY Z3

LEMMA PhysIs ==
  ASSUME X87Assumption, NEW f, IsFpu(f), NEW i \in FpuRegister
  PROVE  /\ Phys(f, i) = IF f.top + i < Slots THEN f.top + i ELSE (f.top + i) - Slots
         /\ Phys(f, i) \in FpuRegister
         /\ Place(f, Phys(f, i)) = i
<1>1. Slots \in Nat \ {0} /\ f.top \in 0 .. Slots - 1 /\ i \in 0 .. Slots - 1
  BY DEF X87Assumption, IsFpu, FpuRegister
<1>2. f.top + i \in 0 .. 2 * Slots - 1
  BY <1>1
<1>3. (f.top + i) % Slots = IF f.top + i < Slots THEN f.top + i ELSE (f.top + i) - Slots
  BY <1>1, <1>2, Wrapped, Zenon
<1> QED  BY <1>1, <1>3 DEF Phys, Place, FpuRegister

LEMMA PlaceIs ==
  ASSUME X87Assumption, NEW f, IsFpu(f), NEW r \in FpuRegister
  PROVE  Place(f, r) \in FpuRegister /\ Phys(f, Place(f, r)) = r
<1>1. Slots \in Nat \ {0} /\ f.top \in 0 .. Slots - 1 /\ r \in 0 .. Slots - 1
  BY DEF X87Assumption, IsFpu, FpuRegister
<1>2. Place(f, r) \in FpuRegister
  BY <1>1 DEF Place, FpuRegister
<1>3. Phys(f, Place(f, r)) = IF f.top + Place(f, r) < Slots
                             THEN f.top + Place(f, r) ELSE (f.top + Place(f, r)) - Slots
  BY <1>2, PhysIs
<1> QED  BY <1>1, <1>2, <1>3 DEF Place

(* X87IsAStack in terms of places.                                          *)
LEMMA UsedArePlaces ==
  ASSUME X87Assumption, NEW f, IsFpu(f), NEW n \in 0 .. Slots, NEW r \in FpuRegister
  PROVE  (\E i \in 0 .. n - 1 : Phys(f, i) = r) <=> Place(f, r) < n
<1>1. Slots \in Nat \ {0} /\ FpuRegister = 0 .. Slots - 1
  BY DEF X87Assumption, FpuRegister
<1>2. ASSUME NEW i \in 0 .. n - 1, Phys(f, i) = r
      PROVE  Place(f, r) < n
  <2>1. i \in FpuRegister
    BY <1>1
  <2> QED  BY <2>1, <1>2, PhysIs
<1>3. ASSUME Place(f, r) < n
      PROVE  \E i \in 0 .. n - 1 : Phys(f, i) = r
  BY <1>1, <1>3, PlaceIs
<1> QED  BY <1>2, <1>3

-----------------------------------------------------------------------------
LEMMA PushShows ==
  ASSUME X87Assumption, NEW f, NEW s, Shows(f, s), Len(s) < MaxHeight, NEW v \in Int
  PROVE  Shows(FpuPush(f, v), << v >> \o s)
<1> DEFINE t == (f.top - 1) % Slots
           g == [f EXCEPT !.st[t] = v, !.used[t] = TRUE, !.top = t]
           q == << v >> \o s
<1>1. Slots \in Nat \ {0} /\ MaxHeight \in 1 .. Slots /\ f.top \in 0 .. Slots - 1
  BY DEF X87Assumption, Shows, IsFpu, FpuRegister
<1>2. t = (IF f.top = 0 THEN Slots - 1 ELSE f.top - 1)
  BY <1>1, WrappedBelow
<1> HIDE DEF t
<1>3. t \in FpuRegister
  BY <1>1, <1>2 DEF FpuRegister
<1>4. IsFpu(f) /\ IsFpu(g) /\ g.top = t
  BY <1>3 DEF Shows, IsFpu
<1>5. /\ g.st = [f.st EXCEPT ![t] = v]
      /\ g.used = [f.used EXCEPT ![t] = TRUE]
  BY <1>4 DEF IsFpu
<1>6. /\ s \in Seq(Int) /\ q \in Seq(Int) /\ Len(q) = Len(s) + 1 /\ q[1] = v
      /\ \A i \in 1 .. Len(s) : q[i + 1] = s[i]
  BY DEF Shows
<1>7. Len(s) \in Nat /\ Len(s) < Slots
  BY <1>1, <1>6
<1> HIDE DEF q, g
<1>8. ASSUME NEW i \in 0 .. Len(q) - 1
      PROVE  Reg(g, i) = q[i + 1]
  <2>1. i \in FpuRegister
    BY <1>1, <1>6, <1>7 DEF FpuRegister
  <2>2. /\ Phys(g, i) = IF t + i < Slots THEN t + i ELSE (t + i) - Slots
        /\ Phys(g, i) \in FpuRegister
    BY <2>1, <1>4, PhysIs
  <2>3. CASE i = 0
    <3>1. Phys(g, i) = t
      BY <2>2, <2>3, <1>1, <1>3 DEF FpuRegister
    <3> QED  BY <3>1, <2>3, <1>3, <1>4, <1>5, <1>6 DEF Reg, IsFpu
  <2>4. CASE i > 0
    <3>1. i - 1 \in FpuRegister /\ i - 1 \in 0 .. Len(s) - 1
      BY <2>1, <2>4, <1>1, <1>6, <1>7 DEF FpuRegister
    <3>2. Phys(f, i - 1) = IF f.top + (i - 1) < Slots THEN f.top + (i - 1) ELSE (f.top + (i - 1)) - Slots
      BY <3>1, <1>4, PhysIs
    <3>3. Phys(g, i) = Phys(f, i - 1) /\ Phys(g, i) # t
      <4>1. i \in 1 .. Slots - 1
        BY <2>1, <2>4, <1>1 DEF FpuRegister
      <4> QED  BY <4>1, <3>2, <2>2, <1>1, <1>2
    <3>4. Reg(f, i - 1) = s[i - 1 + 1]
      BY <3>1 DEF Shows
    <3>5. g.st[Phys(g, i)] = f.st[Phys(f, i - 1)]
      BY <3>3, <2>2, <1>3, <1>4, <1>5 DEF IsFpu
    <3>6. q[i + 1] = s[i]
      BY <2>4, <1>6, <1>7
    <3>7. i - 1 + 1 = i
      BY <2>1, <1>1 DEF FpuRegister
    <3> QED  BY <3>4, <3>5, <3>6, <3>7 DEF Reg
  <2> QED  BY <2>1, <2>3, <2>4, <1>1 DEF FpuRegister
<1>9. ASSUME NEW r \in FpuRegister
      PROVE  g.used[r] = (Place(g, r) < Len(q))
  <2>1. Place(g, r) = IF r = t THEN 0 ELSE Place(f, r) + 1
    BY <1>1, <1>2, <1>4 DEF Place, FpuRegister
  <2>2. f.used[r] = (Place(f, r) < Len(s)) /\ Place(f, r) \in FpuRegister
    BY <1>4, PlaceIs DEF Shows
  <2>3. CASE r = t
    <3>1. g.used[r] = TRUE
      BY <2>3, <1>3, <1>4, <1>5 DEF IsFpu
    <3>2. Place(g, r) < Len(q)
      BY <2>1, <2>3, <1>6, <1>7
    <3> QED  BY <3>1, <3>2, Zenon
  <2>4. CASE r # t
    <3>1. g.used[r] = f.used[r]
      BY <2>4, <1>3, <1>4, <1>5 DEF IsFpu
    <3>2. Place(g, r) < Len(q) <=> Place(f, r) < Len(s)
      BY <2>1, <2>2, <2>4, <1>1, <1>6, <1>7 DEF FpuRegister
    <3> QED  BY <3>1, <3>2, <2>2
  <2> QED  BY <2>3, <2>4
<1>10. Len(q) <= MaxHeight
  BY <1>1, <1>6, <1>7
<1>11. Shows(g, q)
  BY <1>4, <1>6, <1>8, <1>9, <1>10 DEF Shows
<1> QED  BY <1>11 DEF g, q, t, FpuPush

LEMMA PopShows ==
  ASSUME X87Assumption, NEW f, NEW s, Shows(f, s), Len(s) > 0
  PROVE  Shows(FpuPop(f), Tail(s))
<1> DEFINE t == (f.top + 1) % Slots
           g == [f EXCEPT !.used[f.top] = FALSE, !.top = t]
           q == Tail(s)
<1>1. Slots \in Nat \ {0} /\ MaxHeight \in 1 .. Slots /\ f.top \in 0 .. Slots - 1
  BY DEF X87Assumption, Shows, IsFpu, FpuRegister
<1>2. t = (IF f.top + 1 < Slots THEN f.top + 1 ELSE 0)
  <2>1. f.top + 1 \in 0 .. 2 * Slots - 1
    BY <1>1
  <2>2. t = (IF f.top + 1 < Slots THEN f.top + 1 ELSE (f.top + 1) - Slots)
    BY <1>1, <2>1, Wrapped, Zenon
  <2> HIDE DEF t
  <2> QED  BY <1>1, <2>2
<1> HIDE DEF t
<1>3. t \in FpuRegister
  BY <1>1, <1>2 DEF FpuRegister
<1>4. IsFpu(f) /\ IsFpu(g) /\ g.top = t
  BY <1>3 DEF Shows, IsFpu
<1>5. g.st = f.st /\ g.used = [f.used EXCEPT ![f.top] = FALSE]
  BY <1>4 DEF IsFpu
<1>6. /\ s \in Seq(Int) /\ q \in Seq(Int) /\ Len(q) = Len(s) - 1
      /\ \A i \in 1 .. Len(s) - 1 : q[i] = s[i + 1]
  BY DEF Shows
<1>7. Len(s) \in Nat /\ Len(s) > 0 /\ Len(s) <= Slots /\ Len(s) <= MaxHeight
  BY <1>1, <1>6 DEF Shows
<1> HIDE DEF q, g
<1>8. ASSUME NEW i \in 0 .. Len(q) - 1
      PROVE  Reg(g, i) = q[i + 1]
  <2>1. i \in FpuRegister /\ i + 1 \in FpuRegister /\ i + 1 \in 0 .. Len(s) - 1
    BY <1>1, <1>6, <1>7 DEF FpuRegister
  <2>2. Phys(g, i) = IF t + i < Slots THEN t + i ELSE (t + i) - Slots
    BY <2>1, <1>4, PhysIs
  <2>3. Phys(f, i + 1) = IF f.top + (i + 1) < Slots THEN f.top + (i + 1) ELSE (f.top + (i + 1)) - Slots
    BY <2>1, <1>4, PhysIs
  <2>4. Phys(g, i) = Phys(f, i + 1)
    BY <2>1, <2>2, <2>3, <1>1, <1>2 DEF FpuRegister
  <2>5. Reg(f, i + 1) = s[i + 1 + 1]
    BY <2>1 DEF Shows
  <2>6. q[i + 1] = s[i + 1 + 1]
    BY <2>1, <1>6, <1>7
  <2> QED  BY <2>4, <2>5, <2>6, <1>5 DEF Reg
<1>9. ASSUME NEW r \in FpuRegister
      PROVE  g.used[r] = (Place(g, r) < Len(q))
  <2>1. Place(f, r) \in FpuRegister /\ f.used[r] = (Place(f, r) < Len(s))
    BY <1>4, PlaceIs DEF Shows
  <2>2. CASE r = f.top
    <3>1. ~g.used[r]
      BY <2>2, <1>1, <1>4, <1>5 DEF IsFpu
    <3>2. Place(g, r) = Slots - 1
      BY <2>2, <1>1, <1>2, <1>4 DEF Place, FpuRegister
    <3>3. ~(Place(g, r) < Len(q))
      BY <3>2, <1>1, <1>6, <1>7
    <3>4. g.used[r] \in BOOLEAN
      BY <1>4 DEF IsFpu
    <3> QED  BY <3>1, <3>3, <3>4
  <2>3. CASE r # f.top
    <3>1. g.used[r] = f.used[r]
      BY <2>3, <1>1, <1>4, <1>5 DEF IsFpu
    <3>2. Place(g, r) = Place(f, r) - 1
      BY <2>3, <1>1, <1>2, <1>4 DEF Place, FpuRegister
    <3>3. Place(g, r) < Len(q) <=> Place(f, r) < Len(s)
      BY <3>2, <2>1, <1>1, <1>6, <1>7 DEF FpuRegister
    <3> QED  BY <3>1, <3>3, <2>1
  <2> QED  BY <2>2, <2>3
<1>10. Len(q) <= MaxHeight
  BY <1>1, <1>6, <1>7
<1>11. Shows(g, q)
  BY <1>4, <1>6, <1>8, <1>9, <1>10 DEF Shows
<1> QED  BY <1>11 DEF g, q, t, FpuPop

LEMMA PutShows ==
  ASSUME X87Assumption, NEW f, NEW s, Shows(f, s), NEW i \in 0 .. Len(s) - 1, NEW v \in Int
  PROVE  Shows(Put(f, i, v), [s EXCEPT ![i + 1] = v])
<1> DEFINE g == Put(f, i, v)
           q == [s EXCEPT ![i + 1] = v]
<1>1. Slots \in Nat \ {0} /\ MaxHeight \in 1 .. Slots /\ IsFpu(f) /\ FpuRegister = 0 .. Slots - 1
  BY DEF X87Assumption, Shows, FpuRegister
<1>2. /\ s \in Seq(Int) /\ Len(s) \in Nat /\ Len(s) <= Slots /\ i \in Int
      /\ i + 1 \in 1 .. Len(s) /\ i \in FpuRegister
  BY <1>1 DEF Shows
<1>3. q \in Seq(Int) /\ Len(q) = Len(s) /\ \A j \in 1 .. Len(s) : q[j] = IF j = i + 1 THEN v ELSE s[j]
  BY <1>2
<1>4. Phys(f, i) \in FpuRegister /\ Place(f, Phys(f, i)) = i
  BY <1>1, <1>2, PhysIs
<1>5. /\ IsFpu(g) /\ g.top = f.top /\ g.used = f.used
      /\ g.st = [f.st EXCEPT ![Phys(f, i)] = v]
  BY <1>1, <1>4 DEF IsFpu, Put
<1> HIDE DEF g, q
<1>6. ASSUME NEW j \in 0 .. Len(q) - 1
      PROVE  Reg(g, j) = q[j + 1]
  <2>1. j \in FpuRegister /\ j \in 0 .. Len(s) - 1 /\ j + 1 \in 1 .. Len(s)
    BY <1>1, <1>2, <1>3
  <2>2. Phys(f, j) \in FpuRegister /\ Place(f, Phys(f, j)) = j
    BY <1>1, <2>1, PhysIs
  <2>3. Phys(g, j) = Phys(f, j)
    BY <1>5 DEF Phys
  <2>4. Reg(f, j) = s[j + 1]
    BY <2>1 DEF Shows
  <2>5. g.st[Phys(f, j)] = IF Phys(f, j) = Phys(f, i) THEN v ELSE f.st[Phys(f, j)]
    BY <1>1, <1>4, <1>5, <2>2 DEF IsFpu
  <2>6. Phys(f, j) = Phys(f, i) <=> j = i
    BY <2>2, <1>4
  <2>7. q[j + 1] = IF j = i THEN v ELSE s[j + 1]
    BY <1>2, <1>3, <2>1
  <2> QED  BY <2>3, <2>4, <2>5, <2>6, <2>7 DEF Reg
<1>7. ASSUME NEW r \in FpuRegister
      PROVE  g.used[r] = (Place(g, r) < Len(q))
  BY <1>3, <1>5 DEF Shows, Place
<1>8. Shows(g, q)
  BY <1>3, <1>5, <1>6, <1>7 DEF Shows
<1> QED  BY <1>8 DEF g, q

(* What is in place 0 is the head.                                          *)
LEMMA TopIs ==
  ASSUME NEW f, NEW s, Shows(f, s), Len(s) > 0
  PROVE  Reg(f, 0) = Head(s) /\ Head(s) = s[1] /\ Head(s) \in Int
<1>1. s \in Seq(Int) /\ Len(s) \in Nat /\ 0 \in 0 .. Len(s) - 1
  BY DEF Shows
<1>2. Reg(f, 0) = s[0 + 1]
  BY <1>1 DEF Shows
<1> QED  BY <1>1, <1>2

LEMMA RegIs ==
  ASSUME NEW f, NEW s, Shows(f, s), NEW i \in 0 .. Len(s) - 1
  PROVE  Reg(f, i) = s[i + 1] /\ s[i + 1] \in Int /\ Len(s) > 0
BY DEF Shows

LEMMA PutTopShows ==
  ASSUME X87Assumption, NEW f, NEW s, Shows(f, s), Len(s) > 0, NEW v \in Int
  PROVE  Shows(Put(f, 0, v), << v >> \o Tail(s))
<1>1. s \in Seq(Int) /\ Len(s) \in Nat /\ 0 \in 0 .. Len(s) - 1
  BY DEF Shows
<1>2. Shows(Put(f, 0, v), [s EXCEPT ![0 + 1] = v])
  BY <1>1, PutShows
<1>3. [s EXCEPT ![0 + 1] = v] = << v >> \o Tail(s)
  <2> DEFINE q == [s EXCEPT ![1] = v]
             p == << v >> \o Tail(s)
  <2>1. q \in Seq(Int) /\ Len(q) = Len(s) /\ \A j \in 1 .. Len(s) : q[j] = IF j = 1 THEN v ELSE s[j]
    BY <1>1
  <2>2. Tail(s) \in Seq(Int) /\ Len(Tail(s)) = Len(s) - 1 /\ \A j \in 1 .. Len(s) - 1 : Tail(s)[j] = s[j + 1]
    BY <1>1
  <2>3. p \in Seq(Int) /\ Len(p) = Len(s) /\ \A j \in 1 .. Len(s) : p[j] = IF j = 1 THEN v ELSE s[j]
    BY <1>1, <2>2
  <2> HIDE DEF q, p
  <2>4. q = p
    BY <2>1, <2>3, SeqEqual
  <2>5. 0 + 1 = 1
    OBVIOUS
  <2> QED  BY <2>4, <2>5 DEF q, p
<1> QED  BY <1>2, <1>3

LEMMA FreeShows ==
  ASSUME X87Assumption, NEW f, NEW s, Shows(f, s), Len(s) > 0
  PROVE  Shows([f EXCEPT !.used[Phys(f, Len(s) - 1)] = FALSE], SubSeq(s, 1, Len(s) - 1))
<1> DEFINE g == [f EXCEPT !.used[Phys(f, Len(s) - 1)] = FALSE]
           q == SubSeq(s, 1, Len(s) - 1)
<1>1. Slots \in Nat \ {0} /\ MaxHeight \in 1 .. Slots /\ IsFpu(f) /\ FpuRegister = 0 .. Slots - 1
  BY DEF X87Assumption, Shows, FpuRegister
<1>2. s \in Seq(Int) /\ Len(s) \in Nat /\ Len(s) - 1 \in FpuRegister /\ Len(s) <= MaxHeight
  BY <1>1 DEF Shows
<1>3. Phys(f, Len(s) - 1) \in FpuRegister /\ Place(f, Phys(f, Len(s) - 1)) = Len(s) - 1
  BY <1>1, <1>2, PhysIs
<1>4. /\ IsFpu(g) /\ g.top = f.top /\ g.st = f.st
      /\ g.used = [f.used EXCEPT ![Phys(f, Len(s) - 1)] = FALSE]
  BY <1>1, <1>3 DEF IsFpu
<1>5. q \in Seq(Int) /\ Len(q) = Len(s) - 1 /\ \A j \in 1 .. Len(s) - 1 : q[j] = s[j]
  <2>1. 1 \in 1 .. Len(s) + 1 /\ Len(s) - 1 \in 0 .. Len(s)
    BY <1>2
  <2>2. q \in Seq(Int) /\ Len(q) = IF 1 <= Len(s) - 1 THEN Len(s) - 1 - 1 + 1 ELSE 0
    BY <1>2, <2>1, SubSeqProperties
  <2>3. \A j \in 1 .. Len(q) : q[j] = s[1 + j - 1]
    BY <1>2, <2>1, SubSeqProperties
  <2> HIDE DEF q
  <2>4. Len(q) = Len(s) - 1
    <3>1. PICK n : n = Len(s)
      OBVIOUS
    <3>2. n \in Nat /\ n >= 1 /\ Len(q) = IF 1 <= n - 1 THEN n - 1 - 1 + 1 ELSE 0
      BY <1>1, <1>2, <2>2, <3>1
    <3> QED  BY <3>1, <3>2
  <2>5. ASSUME NEW j \in 1 .. Len(s) - 1 PROVE q[j] = s[j]
    BY <2>3, <2>4, <1>2
  <2> QED  BY <2>2, <2>4, <2>5
<1> HIDE DEF g, q
<1>6. ASSUME NEW j \in 0 .. Len(q) - 1
      PROVE  Reg(g, j) = q[j + 1]
  <2>1. j \in 0 .. Len(s) - 1 /\ j + 1 \in 1 .. Len(s) - 1
    BY <1>2, <1>5
  <2>2. Reg(f, j) = s[j + 1]
    BY <2>1 DEF Shows
  <2> QED  BY <2>1, <2>2, <1>4, <1>5 DEF Reg, Phys
<1>7. ASSUME NEW r \in FpuRegister
      PROVE  g.used[r] = (Place(g, r) < Len(q))
  <2>1. Place(f, r) \in FpuRegister /\ Phys(f, Place(f, r)) = r /\ f.used[r] = (Place(f, r) < Len(s))
    BY <1>1, PlaceIs DEF Shows
  <2>2. Place(g, r) = Place(f, r)
    BY <1>4 DEF Place
  <2>3. g.used[r] = IF r = Phys(f, Len(s) - 1) THEN FALSE ELSE f.used[r]
    BY <1>1, <1>3, <1>4 DEF IsFpu
  <2>4. r = Phys(f, Len(s) - 1) <=> Place(f, r) = Len(s) - 1
    BY <1>3, <2>1
  <2>5. Place(f, r) < Len(q) <=> (Place(f, r) < Len(s) /\ Place(f, r) # Len(s) - 1)
    BY <1>1, <1>2, <1>5, <2>1
  <2>6. CASE r = Phys(f, Len(s) - 1)
    <3>1. ~(Place(f, r) < Len(q))
      BY <2>4, <2>5, <2>6
    <3>2. g.used[r] = FALSE
      BY <2>3, <2>6
    <3>3. ~(Place(g, r) < Len(q))
      BY <3>1, <2>2
    <3>4. ~g.used[r] /\ g.used[r] \in BOOLEAN
      BY <3>2
    <3> QED  BY <3>3, <3>4
  <2>7. CASE r # Phys(f, Len(s) - 1)
    BY <2>1, <2>2, <2>3, <2>4, <2>5, <2>7
  <2> QED  BY <2>6, <2>7
<1>8. Len(q) <= MaxHeight
  BY <1>1, <1>2, <1>5
<1>9. Shows(g, q)
  BY <1>4, <1>5, <1>6, <1>7, <1>8 DEF Shows
<1> QED  BY <1>9 DEF g, q

LEMMA ResetShows ==
  ASSUME X87Assumption
  PROVE  Shows(Reset, << >>)
<1>1. Slots \in Nat \ {0} /\ MaxHeight \in 1 .. Slots
  BY DEF X87Assumption
<1>2. IsFpu(Reset) /\ Reset.top = 0
  BY <1>1 DEF IsFpu, Reset, FpuRegister
<1>3. PICK q : q = << >> /\ q \in Seq(Int) /\ Len(q) = 0
  BY EmptySeq
<1>4. ASSUME NEW r \in FpuRegister
      PROVE  Reset.used[r] = (Place(Reset, r) < Len(q))
  <2>1. Place(Reset, r) = r /\ r \in 0 .. Slots - 1
    BY <1>1, <1>2 DEF Place, FpuRegister
  <2>2. ~Reset.used[r] /\ Reset.used[r] \in BOOLEAN
    BY DEF Reset
  <2>3. ~(Place(Reset, r) < Len(q))
    BY <1>1, <1>3, <2>1
  <2> QED  BY <2>2, <2>3
<1>5. \A i \in 0 .. Len(q) - 1 : Reg(Reset, i) = q[i + 1]
  BY <1>3
<1>6. Len(q) <= MaxHeight
  BY <1>1, <1>3
<1>7. Shows(Reset, q)
  BY <1>2, <1>3, <1>4, <1>5, <1>6 DEF Shows
<1> QED  BY <1>3, <1>7

(* The status word is beside the registers.                                 *)
LEMMA FieldShows ==
  ASSUME NEW f, NEW s, Shows(f, s), NEW x \in FpuRegister
  PROVE  Shows([f EXCEPT !.field = x], s)
<1> DEFINE g == [f EXCEPT !.field = x]
<1>1. IsFpu(g) /\ g.top = f.top /\ g.st = f.st /\ g.used = f.used
  BY DEF Shows, IsFpu
<1> HIDE DEF g
<1>2. Shows(g, s)
  BY <1>1 DEF Shows, Reg, Phys, Place
<1> QED  BY <1>2 DEF g

LEMMA ArithIn ==
  ASSUME X87Assumption, NEW fn \in Arithmetic, NEW x \in Int, NEW y \in Int
  PROVE  Arith(fn, x, y) \in Int
<1>1. x * y \in Int
  BY Z3
<1>2. Modulus \in Nat \ {0}
  BY DEF X87Assumption
<1> QED  BY <1>1, <1>2 DEF Arith, Arithmetic

LEMMA ReversedIs ==
  ASSUME NEW fn \in Arithmetic, NEW x \in Int, NEW y \in Int
  PROVE  Arith(Reversed(fn), x, y) = Arith(fn, y, x)
<1>1. x * y = y * x
  BY Z3
<1> QED  BY <1>1 DEF Arith, Arithmetic, Reversed

LEMMA Becoming ==
  ASSUME X87Inv, NEW f, NEW s, Shows(f, s), Becomes(f, s)
  PROVE  X87Inv'
<1>1. fpu' = f /\ stack' = [stack EXCEPT !.now = s] /\ area' = area
  BY DEF Becomes
<1>2. s \in Seq(Int)
  BY DEF Shows
<1>3. /\ stack' \in [now : Seq(Int), saved : Seq(Int)]
      /\ stack'.now = s /\ stack'.saved = stack.saved
  BY <1>1, <1>2 DEF X87Inv
<1>4. Shows(fpu', stack'.now)
  BY <1>1, <1>3
<1>5. area' = << >> \/ (Shows(area', stack'.saved) /\ area'.field = area'.top)
  BY <1>1, <1>3 DEF X87Inv
<1> QED  BY <1>3, <1>4, <1>5 DEF X87Inv

(* The invariant gives what the runs check.                                 *)
LEMMA X87InvImplies ==
  ASSUME X87Assumption, X87Inv
  PROVE  X87IsAStack
<1>1. Slots \in Nat \ {0} /\ MaxHeight \in 1 .. Slots
  BY DEF X87Assumption
<1>2. PICK n : n = Len(stack.now)
  OBVIOUS
<1>3. Shows(fpu, stack.now) /\ IsFpu(fpu) /\ n \in 0 .. Slots
  BY <1>1, <1>2 DEF X87Inv, Shows
<1>4. ST = 0 .. n - 1
  BY <1>2 DEF ST, Height
<1>5. \A i \in ST : Reg(fpu, i) = stack.now[i + 1]
  BY <1>2, <1>3, <1>4 DEF Shows
<1>6. ASSUME NEW r \in FpuRegister
      PROVE  fpu.used[r] = (\E i \in ST : Phys(fpu, i) = r)
  <2>1. fpu.used[r] = (Place(fpu, r) < n)
    BY <1>2, <1>3 DEF Shows
  <2>2. (\E i \in 0 .. n - 1 : Phys(fpu, i) = r) <=> Place(fpu, r) < n
    BY <1>3, UsedArePlaces
  <2>3. fpu.used[r] \in BOOLEAN
    BY <1>3 DEF IsFpu
  <2>4. fpu.used[r] <=> \E i \in ST : Phys(fpu, i) = r
    BY <1>4, <2>1, <2>2, Zenon
  <2> QED  BY <2>3, <2>4
<1> QED  BY <1>5, <1>6 DEF X87IsAStack

-----------------------------------------------------------------------------
(* The instructions.                                                        *)
LEMMA Popped ==
  ASSUME X87Assumption, NEW f, NEW s, Shows(f, s), Len(s) > 0, NEW pops \in BOOLEAN
  PROVE  Shows(PopIf(pops, f), IF pops THEN Tail(s) ELSE s)
BY PopShows DEF PopIf

LEMMA X87Keeps ==
  ASSUME X87Assumption, X87Inv, [X87Next]_x87vars
  PROVE  X87Inv'
<1> DEFINE now == stack.now
<1>1. Shows(fpu, now) /\ now \in Seq(Int) /\ Len(now) \in Nat /\ Height = Len(now)
  BY DEF X87Inv, Shows, Height
<1>2. ASSUME NEW i \in ST
      PROVE  i \in 0 .. Len(now) - 1 /\ Reg(fpu, i) = now[i + 1] /\ now[i + 1] \in Int /\ Len(now) > 0
  BY <1>1, <1>2, RegIs DEF ST
<1>3. ASSUME Len(now) > 0
      PROVE  Reg(fpu, 0) = Top1 /\ Top1 = Head(now) /\ Top1 \in Int /\ Rest = Tail(now) /\ Top1 = now[1]
  BY <1>1, <1>3, TopIs DEF Top1, Rest
<1> HIDE DEF now
<1>4. ASSUME NEW v \in Numbers, Fld(v)
      PROVE  X87Inv'
  <2>1. v \in Int
    BY DEF Numbers, X87Assumption
  <2>2. Shows(FpuPush(fpu, v), << v >> \o now)
    BY <1>1, <1>4, <2>1, PushShows DEF Fld
  <2> QED  BY <1>4, <2>2, Becoming DEF Fld, now
<1>5. ASSUME NEW i \in ST, FldSt(i)
      PROVE  X87Inv'
  <2>1. Shows(FpuPush(fpu, Reg(fpu, i)), << now[i + 1] >> \o now)
    BY <1>1, <1>2, <1>5, PushShows DEF FldSt
  <2> QED  BY <1>5, <2>1, Becoming DEF FldSt, now
<1>6. ASSUME NEW i \in ST, Fxch(i)
      PROVE  X87Inv'
  <2> DEFINE f == Put(fpu, 0, Reg(fpu, i))
             s == [now EXCEPT ![0 + 1] = now[i + 1]]
  <2>1. 0 \in 0 .. Len(now) - 1
    BY <1>1, <1>2
  <2>2. Shows(f, s)
    BY <1>1, <1>2, <2>1, PutShows
  <2>3. Len(s) = Len(now)
    BY <1>1
  <2> HIDE DEF f, s
  <2>4. Shows(Put(f, i, Reg(fpu, 0)), [s EXCEPT ![i + 1] = Top1])
    BY <1>2, <1>3, <2>2, <2>3, PutShows
  <2>5. [s EXCEPT ![i + 1] = Top1] = [now EXCEPT ![1] = now[i + 1], ![i + 1] = Top1]
    BY DEF s
  <2> QED  BY <1>6, <2>4, <2>5, Becoming DEF Fxch, now, f
<1>7. ASSUME NEW i \in ST, FcmovReg(i)
      PROVE  X87Inv'
  <2>1. Shows(Put(fpu, 0, Reg(fpu, i)), << now[i + 1] >> \o Tail(now))
    BY <1>1, <1>2, PutTopShows
  <2> QED  BY <1>2, <1>3, <1>7, <2>1, Becoming DEF FcmovReg, now
<1>8. ASSUME NEW i \in ST, NEW pops \in BOOLEAN, FstReg(i, pops)
      PROVE  X87Inv'
  <2> DEFINE s == [now EXCEPT ![i + 1] = Top1]
  <2>1. Shows(Put(fpu, i, Reg(fpu, 0)), s)
    BY <1>1, <1>2, <1>3, PutShows
  <2>2. Len(s) > 0
    BY <1>1, <1>2
  <2> HIDE DEF s
  <2>3. Shows(PopIf(pops, Put(fpu, i, Reg(fpu, 0))), IF pops THEN Tail(s) ELSE s)
    BY <2>1, <2>2, Popped
  <2> QED  BY <1>8, <2>3, Becoming DEF FstReg, now, s
<1>9. ASSUME NEW i \in ST, NEW fn \in Arithmetic, ToTop(fn, i)
      PROVE  X87Inv'
  <2>1. Arith(fn, Reg(fpu, 0), Reg(fpu, i)) = Arith(fn, Top1, now[i + 1]) /\ Arith(fn, Top1, now[i + 1]) \in Int
    BY <1>2, <1>3, ArithIn
  <2>2. Shows(Put(fpu, 0, Arith(fn, Reg(fpu, 0), Reg(fpu, i))), << Arith(fn, Top1, now[i + 1]) >> \o Tail(now))
    BY <1>1, <1>2, <2>1, PutTopShows
  <2> QED  BY <1>2, <1>3, <1>9, <2>2, Becoming DEF ToTop, now
<1>10. ASSUME NEW i \in ST, NEW fn \in Arithmetic, NEW pops \in BOOLEAN, ToReg(fn, i, pops)
       PROVE  X87Inv'
  <2> DEFINE v == Arith(fn, Top1, now[i + 1])
             s == [now EXCEPT ![i + 1] = v]
             f == Put(fpu, i, Arith(Reversed(fn), Reg(fpu, i), Reg(fpu, 0)))
  <2>1. Arith(Reversed(fn), Reg(fpu, i), Reg(fpu, 0)) = v /\ v \in Int
    BY <1>2, <1>3, ArithIn, ReversedIs
  <2>2. Shows(f, s)
    BY <1>1, <1>2, <2>1, PutShows
  <2>3. Len(s) > 0
    BY <1>1, <1>2
  <2> HIDE DEF s, f
  <2>4. Shows(PopIf(pops, f), IF pops THEN Tail(s) ELSE s)
    BY <2>2, <2>3, Popped
  <2> QED  BY <1>10, <2>4, Becoming DEF ToReg, now, s, f
<1>11. ASSUME NEW fn \in Arithmetic, NEW y \in Numbers, ToTopMem(fn, y)
       PROVE  X87Inv'
  <2>1. y \in Int /\ Len(now) > 0
    BY <1>1, <1>11 DEF Numbers, X87Assumption, ToTopMem
  <2>2. Arith(fn, Reg(fpu, 0), y) = Arith(fn, Top1, y) /\ Arith(fn, Top1, y) \in Int
    BY <1>3, <2>1, ArithIn
  <2>3. Shows(Put(fpu, 0, Arith(fn, Reg(fpu, 0), y)), << Arith(fn, Top1, y) >> \o Tail(now))
    BY <1>1, <2>1, <2>2, PutTopShows
  <2> QED  BY <1>3, <1>11, <2>1, <2>3, Becoming DEF ToTopMem, now
<1>12. ASSUME NEW pops \in BOOLEAN, Fst(pops)
       PROVE  X87Inv'
  <2>1. Len(now) > 0
    BY <1>1, <1>12 DEF Fst
  <2>2. Shows(PopIf(pops, fpu), IF pops THEN Rest ELSE now)
    BY <1>1, <1>3, <2>1, Popped
  <2> QED  BY <1>12, <2>2, Becoming DEF Fst, now
<1>13. CASE Unary
  <2>1. Len(now) > 0 /\ 5 \in Arithmetic
    BY <1>1, <1>13 DEF Unary, Arithmetic
  <2>2. Arith(5, Reg(fpu, 0), 0) = Arith(5, Top1, 0) /\ Arith(5, Top1, 0) \in Int
    BY <1>3, <2>1, ArithIn
  <2>3. Shows(Put(fpu, 0, Arith(5, Reg(fpu, 0), 0)), << Arith(5, Top1, 0) >> \o Tail(now))
    BY <1>1, <2>1, <2>2, PutTopShows
  <2> QED  BY <1>3, <1>13, <2>1, <2>3, Becoming DEF Unary, now
<1>14. CASE Binary
  <2>1. Len(now) > 1 /\ Len(now) > 0 /\ 6 \in Arithmetic
    BY <1>1, <1>14 DEF Binary, Arithmetic
  <2>2. Rest = Tail(now) /\ Len(Rest) > 0
    BY <1>1, <1>3, <2>1
  <2>3. Shows(FpuPop(fpu), Rest)
    BY <1>1, <2>1, <2>2, PopShows
  <2>4. Reg(FpuPop(fpu), 0) = Head(Rest) /\ Head(Rest) \in Int
    BY <2>2, <2>3, TopIs
  <2>5. /\ Arith(6, Reg(FpuPop(fpu), 0), Reg(fpu, 0)) = Arith(6, Head(Rest), Top1)
        /\ Arith(6, Head(Rest), Top1) \in Int
    BY <1>3, <2>1, <2>4, ArithIn
  <2>6. Shows(Put(FpuPop(fpu), 0, Arith(6, Reg(FpuPop(fpu), 0), Reg(fpu, 0))),
              << Arith(6, Head(Rest), Top1) >> \o Tail(Rest))
    BY <2>2, <2>3, <2>5, PutTopShows
  <2> QED  BY <1>14, <2>6, Becoming DEF Binary
<1>15. CASE Spread
  <2> DEFINE f == Put(fpu, 0, Arith(0, Reg(fpu, 0), 1))
             s == << Arith(0, Top1, 1) >> \o Tail(now)
  <2>1. Len(now) > 0 /\ Len(now) < MaxHeight /\ 0 \in Arithmetic /\ MaxHeight \in Nat
    BY <1>1, <1>15 DEF Spread, Arithmetic, X87Assumption
  <2>2. Arith(0, Reg(fpu, 0), 1) = Arith(0, Top1, 1) /\ Arith(0, Top1, 1) \in Int
    BY <1>3, <2>1, ArithIn
  <2>3. Shows(f, s)
    BY <1>1, <2>1, <2>2, PutTopShows
  <2>4. Len(s) = Len(now)
    BY <1>1, <2>1, <2>2
  <2> HIDE DEF f, s
  <2>5. Shows(FpuPush(f, 1), << 1 >> \o s)
    BY <2>1, <2>3, <2>4, PushShows
  <2>6. << 1 >> \o s = << 1, Arith(0, Top1, 1) >> \o Tail(now)
    BY <1>1, <2>1, <2>2 DEF s
  <2> QED  BY <1>3, <1>15, <2>1, <2>5, <2>6, Becoming DEF Spread, now, f
<1>16. CASE Fcomp
  <2>1. Len(now) > 0
    BY <1>1, <1>16 DEF Fcomp
  <2>2. Shows(FpuPop(fpu), Rest)
    BY <1>1, <1>3, <2>1, PopShows
  <2> QED  BY <1>16, <2>2, Becoming DEF Fcomp
<1>17. CASE Fcompp
  <2>1. Len(now) > 1 /\ Len(now) > 0
    BY <1>1, <1>17 DEF Fcompp
  <2>2. Rest = Tail(now) /\ Len(Rest) > 0
    BY <1>1, <1>3, <2>1
  <2>3. Shows(FpuPop(fpu), Rest)
    BY <1>1, <2>1, <2>2, PopShows
  <2>4. Shows(FpuPop(FpuPop(fpu)), Tail(Rest))
    BY <2>2, <2>3, PopShows
  <2> QED  BY <1>17, <2>4, Becoming DEF Fcompp
<1>18. CASE Ffree
  <2>1. Len(now) > 0
    BY <1>1, <1>18 DEF Ffree
  <2>2. Shows([fpu EXCEPT !.used[Phys(fpu, Height - 1)] = FALSE], SubSeq(now, 1, Height - 1))
    BY <1>1, <2>1, FreeShows
  <2> QED  BY <1>18, <2>2, Becoming DEF Ffree, now
<1>19. CASE Fninit
  BY <1>19, ResetShows, Becoming DEF Fninit
<1>20. CASE Fnclex
  <2>1. 0 \in FpuRegister
    BY DEF FpuRegister, X87Assumption
  <2>2. Shows([fpu EXCEPT !.field = 0], now)
    BY <1>1, <2>1, FieldShows
  <2> QED  BY <1>20, <2>2, Becoming DEF Fnclex, now
<1>21. CASE Fxsave
  <2>1. fpu.top \in FpuRegister /\ IsFpu(fpu)
    BY <1>1 DEF Shows, IsFpu
  <2>2. Shows([fpu EXCEPT !.field = fpu.top], now)
    BY <1>1, <2>1, FieldShows
  <2>3. /\ area' = [fpu EXCEPT !.field = fpu.top] /\ fpu' = fpu
        /\ stack' = [stack EXCEPT !.saved = now]
    BY <1>21 DEF Fxsave, now
  <2>4. /\ stack' \in [now : Seq(Int), saved : Seq(Int)]
        /\ stack'.now = now /\ stack'.saved = now
    BY <1>1, <2>3 DEF X87Inv, now
  <2>5. area'.field = area'.top
    BY <2>1, <2>3 DEF IsFpu
  <2>6. Shows(area', stack'.saved) /\ Shows(fpu', stack'.now)
    BY <1>1, <2>2, <2>3, <2>4
  <2> QED  BY <2>4, <2>5, <2>6 DEF X87Inv
<1>22. CASE Fxrstor
  <2>1. Shows(area, stack.saved) /\ area.field = area.top /\ IsFpu(area)
    BY <1>22 DEF Fxrstor, X87Inv, Shows
  <2>2. [area EXCEPT !.top = area.field] = area
    BY <2>1 DEF IsFpu
  <2>3. fpu' = area /\ area' = area /\ stack' = [stack EXCEPT !.now = stack.saved]
    BY <1>22, <2>2 DEF Fxrstor
  <2>4. /\ stack' \in [now : Seq(Int), saved : Seq(Int)]
        /\ stack'.now = stack.saved /\ stack'.saved = stack.saved
    BY <2>3 DEF X87Inv
  <2>5. Shows(area', stack'.saved) /\ Shows(fpu', stack'.now) /\ area'.field = area'.top
    BY <2>1, <2>3, <2>4
  <2> QED  BY <2>4, <2>5 DEF X87Inv
<1>23. CASE UNCHANGED x87vars
  BY <1>23 DEF x87vars, X87Inv
<1> QED  BY <1>4, <1>5, <1>6, <1>7, <1>8, <1>9, <1>10, <1>11, <1>12, <1>13, <1>14, <1>15, <1>16,
            <1>17, <1>18, <1>19, <1>20, <1>21, <1>22, <1>23 DEF X87Next

LEMMA X87Begins ==
  ASSUME X87Assumption, X87Init
  PROVE  X87Inv
<1>1. stack.now = << >> /\ stack.saved = << >> /\ stack \in [now : Seq(Int), saved : Seq(Int)]
  BY EmptySeq DEF X87Init
<1> QED  BY <1>1, ResetShows DEF X87Init, X87Inv

(* The types of the x87 registers, the places in use counted from the top,  *)
(* and a saved area that shows the stack it was saved with, always.         *)
THEOREM X87StateIsSound ==
  ASSUME X87Assumption
  PROVE  X87Spec => []X87Inv
<1>1. X87Init => X87Inv
  BY X87Begins
<1>2. X87Inv /\ [X87Next]_x87vars => X87Inv'
  BY X87Keeps
<1> QED  BY <1>1, <1>2, PTL DEF X87Spec

(* Whatever instructions run, in a number of registers of any size, what    *)
(* the guest reads as ST(i) is the architecture's ST(i), and the tags say   *)
(* which registers hold it.                                                 *)
THEOREM RegistersAreTheStack ==
  ASSUME X87Assumption
  PROVE  X87Spec => []X87IsAStack
<1>1. X87Inv => X87IsAStack
  BY X87InvImplies
<1> QED  BY <1>1, X87StateIsSound, PTL
=============================================================================
