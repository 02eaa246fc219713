------------------------- MODULE GuestMemory_proofs -------------------------
(***************************************************************************)
(* Proofs about GuestMemory for any pages, any size of the caches and any  *)
(* way pages fall into their slots.                                        *)
(***************************************************************************)
EXTENDS GuestMemory, TLAPS

-----------------------------------------------------------------------------
(* The inductive invariant: the page table and the spans are well-typed,   *)
(* and an entry of a cache is empty or leads where its page is.            *)

TableType ==
  /\ table \in [Pages -> Frames \cup {Absent, Reserved}]
  /\ \A s \in spans : \A p \in DOMAIN s : s[p] \in Frames

CacheType(cache) ==
  cache \in [Slots -> [page : Pages \cup {None}, host : Frames \cup {None}]]

Leads(cache) == \A p \in Pages :
  Cached(cache, p) => cache[SlotOf[p]].host = Resolve(p) /\ Resolve(p) \in Frames

NoWriteCached == journaling => \A p \in Pages : ~Cached(tlbw, p)

MemoryInv ==
  /\ TableType
  /\ CacheType(tlb) /\ CacheType(tlbw)
  /\ Leads(tlb) /\ Leads(tlbw)
  /\ NoWriteCached

-----------------------------------------------------------------------------
(* Lemmas about the operators the actions share.                           *)

(* An emptied cache knows no page. *)
LEMMA EmptyCache ==
  /\ CacheType(Empty)
  /\ \A p \in Pages : ~Cached(Empty, p)
BY MemoryConstants DEF CacheType, Empty, Cached

(* A page in a span is at a host frame. *)
LEMMA SpanResolves ==
  ASSUME TableType, NEW p \in Pages, InSpan(p)
  PROVE  Resolve(p) \in Frames
<1> DEFINE s == CHOOSE s \in SpansAt(p) : TRUE
<1>1. s \in SpansAt(p)
  BY DEF InSpan
<1>2. s \in spans /\ p \in DOMAIN s
  BY <1>1 DEF SpansAt
<1> QED
  BY <1>2 DEF Resolve, TableType

(* Filling the slot of a page with the frame it is at keeps a cache right, *)
(* and every other page's entry is what it was.                            *)
LEMMA FillType ==
  ASSUME NEW cache, CacheType(cache), NEW p \in Pages, NEW f \in Frames
  PROVE  /\ CacheType(Fill(cache, p, f))
         /\ Cached(Fill(cache, p, f), p)
         /\ Fill(cache, p, f)[SlotOf[p]].host = f
         /\ \A q \in Pages \ {p} : Cached(Fill(cache, p, f), q) =>
              /\ Cached(cache, q)
              /\ Fill(cache, p, f)[SlotOf[q]].host = cache[SlotOf[q]].host
<1>1. SlotOf[p] \in Slots
  BY MemoryConstants
<1>2. [page |-> p, host |-> f] \in [page : Pages \cup {None}, host : Frames \cup {None}]
  OBVIOUS
<1>3. CacheType(Fill(cache, p, f))
  BY <1>1, <1>2 DEF CacheType, Fill
<1>4. Fill(cache, p, f)[SlotOf[p]] = [page |-> p, host |-> f]
  BY <1>1 DEF CacheType, Fill
<1>5. ASSUME NEW q \in Pages \ {p}, Cached(Fill(cache, p, f), q)
      PROVE  Cached(cache, q) /\ Fill(cache, p, f)[SlotOf[q]].host = cache[SlotOf[q]].host
  <2>1. SlotOf[q] \in Slots
    BY MemoryConstants
  <2>2. SlotOf[q] # SlotOf[p]
    BY <1>4, <1>5 DEF Cached
  <2>3. Fill(cache, p, f)[SlotOf[q]] = cache[SlotOf[q]]
    BY <1>1, <2>1, <2>2 DEF CacheType, Fill
  <2> QED
    BY <1>5, <2>3 DEF Cached
<1> QED
  BY <1>3, <1>4, <1>5 DEF Cached

(* Finding a page backs that page at most, and only if nobody could have   *)
(* had it in a cache.                                                      *)
LEMMA FoundStep ==
  ASSUME MemoryInv, NEW p \in Pages, NEW f \in Frames, Found(p, f), UNCHANGED spans
  PROVE  /\ TableType'
         /\ Resolve(p)' = f
         /\ \A q \in Pages : Resolve(q) \in Frames => Resolve(q)' = Resolve(q)
<1>1. \A q \in Pages : SpansAt(q)' = SpansAt(q) /\ InSpan(q)' = InSpan(q)
  BY DEF SpansAt, InSpan
<1>2. CASE Resolve(p) = f /\ UNCHANGED table
  BY <1>2 DEF MemoryInv, TableType, Resolve, InSpan, SpansAt
<1>3. CASE Resolve(p) = Reserved /\ f \in Free /\ table' = [table EXCEPT ![p] = f]
  <2>1. ~InSpan(p)
    BY <1>3, SpanResolves, MemoryConstants DEF MemoryInv
  <2>2. table' \in [Pages -> Frames \cup {Absent, Reserved}]
    BY <1>3 DEF MemoryInv, TableType
  <2>3. Resolve(p)' = f
    BY <1>1, <1>3, <2>1 DEF Resolve, MemoryInv, TableType
  <2>4. \A q \in Pages : q # p => Resolve(q)' = Resolve(q)
    BY <1>3 DEF Resolve, InSpan, SpansAt, MemoryInv, TableType
  <2>5. Resolve(p) \notin Frames
    BY <1>3, MemoryConstants
  <2> QED
    BY <2>2, <2>3, <2>4, <2>5 DEF MemoryInv, TableType
<1> QED
  BY <1>2, <1>3 DEF Found

(* A read through host_ptr keeps the invariant. *)
LEMMA ReadingStep ==
  ASSUME MemoryInv, NEW p \in Pages, NEW f \in Frames, Reading(p, f), UNCHANGED journaling
  PROVE  MemoryInv'
<1>1. CASE Hit(tlb, p, f)
  BY <1>1 DEF Hit, MemoryInv, TableType, CacheType, Leads, NoWriteCached, Cached, Resolve, InSpan, SpansAt
<1>2. CASE SlowRead(p, f)
  <2>1. Found(p, f) /\ tlb' = Fill(tlb, p, f) /\ UNCHANGED <<spans, tlbw>>
    BY <1>2 DEF SlowRead
  <2>2. /\ TableType'
        /\ Resolve(p)' = f
        /\ \A q \in Pages : Resolve(q) \in Frames => Resolve(q)' = Resolve(q)
    BY <2>1, FoundStep
  <2>3. CacheType(tlb') /\ Leads(tlb)'
    <3>1. CacheType(tlb)
      BY DEF MemoryInv
    <3>2. ASSUME NEW q \in Pages, Cached(Fill(tlb, p, f), q)
          PROVE  Fill(tlb, p, f)[SlotOf[q]].host = Resolve(q)' /\ Resolve(q)' \in Frames
      <4>1. CASE q = p
        BY <2>2, <3>1, <4>1, FillType
      <4>2. CASE q # p
        <5>1. /\ Cached(tlb, q)
              /\ Fill(tlb, p, f)[SlotOf[q]].host = tlb[SlotOf[q]].host
          BY <3>1, <3>2, <4>2, FillType
        <5> QED
          BY <2>2, <5>1 DEF MemoryInv, Leads
      <4> QED
        BY <4>1, <4>2
    <3>3. CacheType(tlb')
      BY <2>1, <3>1, FillType
    <3> QED
      BY <2>1, <3>2, <3>3 DEF Leads, Cached
  <2>4. CacheType(tlbw') /\ Leads(tlbw)'
    BY <2>1, <2>2 DEF MemoryInv, Leads, Cached
  <2>5. NoWriteCached'
    BY <2>1 DEF MemoryInv, NoWriteCached, Cached
  <2> QED
    BY <2>2, <2>3, <2>4, <2>5 DEF MemoryInv, CacheType
<1> QED
  BY <1>1, <1>2 DEF Reading

(* So does a write, which goes past no open journal. *)
LEMMA WritingStep ==
  ASSUME MemoryInv, NEW p \in Pages, NEW f \in Frames, Writing(p, f), UNCHANGED journaling
  PROVE  MemoryInv'
<1>1. CASE Hit(tlbw, p, f)
  BY <1>1 DEF Hit, MemoryInv, TableType, CacheType, Leads, NoWriteCached, Cached, Resolve, InSpan, SpansAt
<1>2. CASE SlowWrite(p, f)
  <2>1. Found(p, f) /\ UNCHANGED <<spans, tlb>>
    BY <1>2 DEF SlowWrite
  <2>2. /\ TableType'
        /\ Resolve(p)' = f
        /\ \A q \in Pages : Resolve(q) \in Frames => Resolve(q)' = Resolve(q)
    BY <2>1, FoundStep
  <2>3. CacheType(tlb') /\ Leads(tlb)'
    BY <2>1, <2>2 DEF MemoryInv, Leads, Cached
  <2>4. CASE journaling
    <3>1. UNCHANGED tlbw
      BY <1>2, <2>4 DEF SlowWrite
    <3>2. CacheType(tlbw') /\ Leads(tlbw)' /\ NoWriteCached'
      BY <2>2, <3>1 DEF MemoryInv, Leads, Cached, NoWriteCached
    <3> QED
      BY <2>2, <2>3, <3>2 DEF MemoryInv, CacheType
  <2>5. CASE ~journaling
    <3>0. tlbw' = Fill(tlbw, p, f)
      BY <1>2, <2>5 DEF SlowWrite
    <3>1. CacheType(tlbw)
      BY DEF MemoryInv
    <3>2. ASSUME NEW q \in Pages, Cached(Fill(tlbw, p, f), q)
          PROVE  Fill(tlbw, p, f)[SlotOf[q]].host = Resolve(q)' /\ Resolve(q)' \in Frames
      <4>1. CASE q = p
        BY <2>2, <3>1, <4>1, FillType
      <4>2. CASE q # p
        <5>1. /\ Cached(tlbw, q)
              /\ Fill(tlbw, p, f)[SlotOf[q]].host = tlbw[SlotOf[q]].host
          BY <3>1, <3>2, <4>2, FillType
        <5> QED
          BY <2>2, <5>1 DEF MemoryInv, Leads
      <4> QED
        BY <4>1, <4>2
    <3>3. CacheType(tlbw') /\ Leads(tlbw)'
      BY <3>0, <3>1, <3>2, FillType DEF Leads, Cached
    <3>4. NoWriteCached'
      BY <2>5 DEF NoWriteCached
    <3> QED
      BY <2>2, <2>3, <3>3, <3>4 DEF MemoryInv, CacheType
  <2> QED
    BY <2>4, <2>5
<1> QED
  BY <1>1, <1>2 DEF Writing

(* When pages go, no cache keeps one of them, nor anything of a span they   *)
(* were in.                                                                *)
LEMMA ClearedKeeps ==
  ASSUME NEW cache, CacheType(cache), NEW S \in Ranges
  PROVE  /\ CacheType(Cleared(cache, S))
         /\ \A p \in Pages : Cached(Cleared(cache, S), p) =>
              /\ p \notin S /\ Remaining(S) = spans
              /\ Cached(cache, p)
              /\ Cleared(cache, S)[SlotOf[p]] = cache[SlotOf[p]]
<1>1. CASE Remaining(S) # spans
  BY <1>1, EmptyCache DEF Cleared
<1>2. CASE Remaining(S) = spans
  <2> DEFINE c == [x \in Slots |-> IF cache[x].page \in S THEN Empty[x] ELSE cache[x]]
  <2>1. Cleared(cache, S) = c
    BY <1>2 DEF Cleared
  <2>2. CacheType(c)
    BY DEF CacheType, Empty
  <2>3. ASSUME NEW p \in Pages, Cached(c, p)
        PROVE  p \notin S /\ Cached(cache, p) /\ c[SlotOf[p]] = cache[SlotOf[p]]
    <3>1. SlotOf[p] \in Slots
      BY MemoryConstants
    <3>2. cache[SlotOf[p]].page \notin S
      BY <2>3, <3>1, MemoryConstants DEF Cached, Empty
    <3> QED
      BY <2>3, <3>1, <3>2 DEF Cached
  <2> QED
    BY <1>2, <2>1, <2>2, <2>3
<1> QED
  BY <1>1, <1>2

(* What does not touch the tables and opens no journal keeps the invariant. *)
LEMMA UntouchedStep ==
  ASSUME MemoryInv, UNCHANGED <<table, spans, tlb, tlbw>>, journaling' => journaling
  PROVE  MemoryInv'
BY DEF MemoryInv, TableType, CacheType, Leads, NoWriteCached, Cached, Resolve, InSpan, SpansAt

(* Opening the journal empties the write cache. *)
LEMMA JournalStep ==
  ASSUME MemoryInv, JournalBegin, UNCHANGED <<table, spans, tlb>>
  PROVE  MemoryInv'
<1>1. tlbw' = Empty
  BY DEF JournalBegin
<1>2. TableType' /\ CacheType(tlb') /\ Leads(tlb)'
  BY DEF MemoryInv, TableType, CacheType, Leads, Cached, Resolve, InSpan, SpansAt
<1>3. CacheType(tlbw')
  BY <1>1, EmptyCache
<1>4. \A p \in Pages : ~Cached(tlbw, p)'
  BY <1>1, EmptyCache DEF Cached
<1> QED
  BY <1>2, <1>3, <1>4 DEF MemoryInv, CacheType, Leads, NoWriteCached

(* Dropping the pages of S, with at most a new span over them. *)
LEMMA DropStep ==
  ASSUME MemoryInv, NEW S \in Ranges, Drop(S), UNCHANGED journaling,
         \/ spans' = Remaining(S)
         \/ \E s \in [S -> Frames] : spans' = Remaining(S) \cup {s}
  PROVE  MemoryInv'
<1>1. TableType'
  <2>1. table' \in [Pages -> Frames \cup {Absent, Reserved}]
    BY DEF Drop, MemoryInv, TableType
  <2>2. \A s \in spans' : \A p \in DOMAIN s : s[p] \in Frames
    BY DEF Remaining, MemoryInv, TableType
  <2> QED
    BY <2>1, <2>2 DEF TableType
<1>2. ASSUME Remaining(S) = spans, NEW p \in Pages, p \notin S
      PROVE  Resolve(p)' = Resolve(p)
  <2>1. table'[p] = table[p]
    BY <1>2 DEF Drop
  <2>2. SpansAt(p)' = SpansAt(p)
    BY <1>2 DEF SpansAt
  <2> QED
    BY <2>1, <2>2 DEF Resolve, InSpan
<1>3. CacheType(tlb') /\ Leads(tlb)'
  <2>1. CacheType(tlb) /\ tlb' = Cleared(tlb, S)
    BY DEF MemoryInv, Drop
  <2>2. CacheType(tlb')
    BY <2>1, ClearedKeeps
  <2>3. ASSUME NEW p \in Pages, Cached(Cleared(tlb, S), p)
        PROVE  /\ Cleared(tlb, S)[SlotOf[p]].host = Resolve(p)'
               /\ Resolve(p)' \in Frames
    BY <1>2, <2>1, <2>3, ClearedKeeps DEF MemoryInv, Leads
  <2> QED
    BY <2>1, <2>2, <2>3 DEF Leads, Cached
<1>4. CacheType(tlbw') /\ Leads(tlbw)' /\ NoWriteCached'
  <2>1. CacheType(tlbw) /\ tlbw' = Cleared(tlbw, S)
    BY DEF MemoryInv, Drop
  <2>2. CacheType(tlbw')
    BY <2>1, ClearedKeeps
  <2>3. ASSUME NEW p \in Pages, Cached(Cleared(tlbw, S), p)
        PROVE  /\ Cached(tlbw, p)
               /\ Cleared(tlbw, S)[SlotOf[p]].host = Resolve(p)'
               /\ Resolve(p)' \in Frames
    BY <1>2, <2>1, <2>3, ClearedKeeps DEF MemoryInv, Leads
  <2>4. Leads(tlbw)'
    BY <2>1, <2>3 DEF Leads, Cached
  <2>5. NoWriteCached'
    BY <2>1, <2>3 DEF MemoryInv, NoWriteCached, Cached
  <2> QED
    BY <2>2, <2>4, <2>5
<1> QED
  BY <1>1, <1>3, <1>4 DEF MemoryInv, CacheType

(* Mapping makes pages that were absent reserved: no cache can have known   *)
(* them.                                                                   *)
LEMMA MapStep ==
  ASSUME MemoryInv, NEW S \in Ranges, Map(S)
  PROVE  MemoryInv'
<1>1. UNCHANGED <<spans, tlb, tlbw, journaling>>
  BY DEF Map, Idle
<1>2. TableType'
  BY <1>1 DEF Map, MemoryInv, TableType
<1>3. ASSUME NEW p \in Pages, Resolve(p) \in Frames
      PROVE  Resolve(p)' = Resolve(p)
  <2>1. SpansAt(p)' = SpansAt(p)
    BY <1>1 DEF SpansAt
  <2>2. CASE SpansAt(p) # {}
    BY <2>1, <2>2 DEF Resolve, InSpan
  <2>3. CASE SpansAt(p) = {}
    <3>1. table[p] # Absent
      BY <1>3, <2>3, MemoryConstants DEF Resolve, InSpan
    <3>2. table'[p] = table[p]
      BY <3>1 DEF Map
    <3> QED
      BY <2>1, <2>3, <3>2 DEF Resolve, InSpan
  <2> QED
    BY <2>2, <2>3
<1> QED
  BY <1>1, <1>2, <1>3 DEF MemoryInv, CacheType, Leads, NoWriteCached, Cached

-----------------------------------------------------------------------------
THEOREM MemoryInvInit == Init => MemoryInv
<1> SUFFICES ASSUME Init PROVE MemoryInv
  OBVIOUS
<1>1. TableType
  BY DEF Init, TableType
<1>2. CacheType(tlb) /\ CacheType(tlbw) /\ Leads(tlb) /\ Leads(tlbw) /\ NoWriteCached
  BY EmptyCache DEF Init, Leads, NoWriteCached
<1> QED
  BY <1>1, <1>2 DEF MemoryInv

THEOREM MemoryInvStep == MemoryInv /\ [Next]_vars => MemoryInv'
<1> SUFFICES ASSUME MemoryInv, [Next]_vars PROVE MemoryInv'
  OBVIOUS
<1>1. ASSUME NEW S \in Ranges, Map(S) PROVE MemoryInv'
  BY <1>1, MapStep
<1>2. ASSUME NEW S \in Ranges, Unmap(S) PROVE MemoryInv'
  BY <1>2, DropStep DEF Unmap, Idle
<1>3. ASSUME NEW S \in Ranges, MapContiguous(S) PROVE MemoryInv'
  <2>1. PICK s \in [S -> Free] : spans' = Remaining(S) \cup {s}
    BY <1>3 DEF MapContiguous
  <2>2. s \in [S -> Frames]
    BY <2>1 DEF Free
  <2> QED
    BY <1>3, <2>1, <2>2, DropStep DEF MapContiguous, Idle
<1>4. ASSUME NEW p \in Pages, Read(p) PROVE MemoryInv'
  BY <1>4, ReadingStep DEF Read
<1>5. ASSUME NEW p \in Pages, Fault(p) PROVE MemoryInv'
  BY <1>5, UntouchedStep DEF Fault, Over, memory
<1>6. ASSUME NEW p \in Pages, PutBack(p) PROVE MemoryInv'
  BY <1>6, ReadingStep DEF PutBack
<1>7. ASSUME NEW p \in Pages, NEW v \in Values, HostWrite(p, v) PROVE MemoryInv'
  BY <1>7, UntouchedStep DEF HostWrite, Idle
<1>8. ASSUME NEW p \in Pages, NEW v \in Values, NEW whole \in BOOLEAN, Write(p, v, whole)
      PROVE  MemoryInv'
  <2>1. UNCHANGED journaling
    BY <1>8 DEF Write
  <2>2. CASE UNCHANGED memory
    BY <2>1, <2>2, UntouchedStep DEF memory
  <2>3. CASE \E f \in Frames : Writing(p, f)
    BY <2>1, <2>3, WritingStep
  <2> QED
    BY <1>8, <2>2, <2>3 DEF Write
<1>9. CASE RunTranslated
  BY <1>9, JournalStep DEF RunTranslated
<1>10. CASE TakeResult
  BY <1>10, UntouchedStep DEF TakeResult, memory
<1>11. CASE RunInterpreted
  BY <1>11, JournalStep DEF RunInterpreted
<1>12. CASE Compare
  BY <1>12, UntouchedStep DEF Compare, Over, memory
<1>13. CASE UNCHANGED vars
  BY <1>13, UntouchedStep DEF vars, memory
<1> QED
  BY <1>1, <1>2, <1>3, <1>4, <1>5, <1>6, <1>7, <1>8, <1>9, <1>10, <1>11, <1>12, <1>13 DEF Next

(* An entry of either cache leads to the memory its page has now, and no   *)
(* write goes past an open journal (host_ptr, unmap, journal_begin).       *)
THEOREM CachesAlwaysCohere == Spec => []CachesCohere
<1>1. MemoryInv => CachesCohere
  BY DEF MemoryInv, Leads, NoWriteCached, CachesCohere
<1> QED
  BY <1>1, MemoryInvInit, MemoryInvStep, PTL DEF Spec

-----------------------------------------------------------------------------
(* The verifier.  Contents can be spoken of page by page only if no two    *)
(* pages share a frame, wherever the frame comes from.                     *)

Apart ==
  /\ \A s \in spans : s \in [DOMAIN s -> Frames] /\ DOMAIN s \subseteq Pages
  /\ \A s, t \in spans : s # t => DOMAIN s \cap DOMAIN t = {}
  /\ \A p \in Pages : InSpan(p) => table[p] = Absent
  /\ \A p, q \in Pages : Resolve(p) \in Frames /\ Resolve(p) = Resolve(q) => p = q

HostType == host \in [Frames -> Values]

Verifying == phase \in {"translated", "undo", "interpreted"}

\* What a run has not written is as the run found it; what it has is in its journal.
RunTracked ==
  /\ DOMAIN journal \subseteq Pages
  /\ \A p \in DOMAIN journal : journal[p] = before[p] /\ Resolve(p) \in Frames
  /\ \A p \in Pages \ DOMAIN journal : Content(p) = before[p]

\* The pages put back are as they were before, the others as the first run left them.
Undoing ==
  /\ DOMAIN result \subseteq DOMAIN kept /\ DOMAIN kept \subseteq Pages
  /\ \A p \in DOMAIN kept : kept[p] = before[p] /\ Resolve(p) \in Frames
  /\ \A p \in DOMAIN result : result[p] = after[p] /\ Content(p) = before[p]
  /\ \A p \in DOMAIN kept \ DOMAIN result : Content(p) = after[p]
  /\ \A p \in Pages \ DOMAIN kept : Content(p) = before[p] /\ after[p] = before[p]

\* What the first run left is in its result, and elsewhere what it found.
ResultKept ==
  /\ DOMAIN result \subseteq Pages
  /\ \A p \in DOMAIN result : result[p] = after[p]
  /\ \A p \in Pages \ DOMAIN result : after[p] = before[p]

VerifierInv ==
  /\ phase \in {"off", "translated", "undo", "interpreted", "differs"}
  /\ journaling <=> phase \in {"translated", "interpreted"}
  /\ before \in [Pages -> Values \cup {Absent}] /\ after \in [Pages -> Values \cup {Absent}]
  /\ Verifying => /\ seen = <<>>
                  /\ \A p \in Pages : before[p] = Absent <=> Content(p) = Absent
  /\ phase = "translated" => RunTracked
  /\ phase = "undo" => Undoing
  /\ phase = "interpreted" => RunTracked /\ ResultKept

FlatInv == MemoryInv /\ Apart /\ HostType /\ VerifierInv

\* Page p is at frame f now, as it was or because it has just been backed, and
\* nothing else has moved.
Touched(p, f) ==
  /\ Resolve(p) \in {f, Reserved}
  /\ Resolve(p)' = f
  /\ \A q \in Pages \ {p} : Resolve(q)' = Resolve(q) /\ Resolve(q) # f

(* A page in a span is where that span says. *)
LEMMA SpanIsWhere ==
  ASSUME Apart, NEW s \in spans, NEW p \in DOMAIN s
  PROVE  SpansAt(p) = {s} /\ InSpan(p) /\ Resolve(p) = s[p]
<1>1. SpansAt(p) = {s}
  BY DEF Apart, SpansAt
<1> QED
  BY <1>1 DEF InSpan, Resolve

(* Without spans, the table says. *)
LEMMA TableIsWhere ==
  ASSUME NEW p \in Pages, ~InSpan(p)
  PROVE  Resolve(p) = table[p]
BY DEF Resolve

(* A free frame is nobody's. *)
LEMMA FreeIsNobodys ==
  ASSUME NEW f \in Free, NEW p \in Pages
  PROVE  Resolve(p) # f
<1>1. f \notin InUse
  BY DEF Free
<1>2. CASE InSpan(p)
  <2> DEFINE s == CHOOSE s \in SpansAt(p) : TRUE
  <2>1. s \in SpansAt(p)
    BY <1>2 DEF InSpan
  <2>2. s \in spans /\ p \in DOMAIN s
    BY <2>1 DEF SpansAt
  <2>3. s[p] \in {s[q] : q \in DOMAIN s} /\ {s[q] : q \in DOMAIN s} \in {{t[q] : q \in DOMAIN t} : t \in spans}
    BY <2>2
  <2>4. s[p] \in InUse
    BY <2>3 DEF InUse
  <2> QED
    BY <1>1, <1>2, <2>4 DEF Resolve
<1>3. CASE ~InSpan(p)
  <2>1. table[p] \in InUse
    BY DEF InUse
  <2> QED
    BY <1>1, <1>3, <2>1 DEF Resolve
<1> QED
  BY <1>2, <1>3

(* What a page holds, by where it is. *)
LEMMA ContentByPlace ==
  ASSUME HostType, NEW p \in Pages
  PROVE  /\ Resolve(p) \in Frames => Content(p) = host[Resolve(p)] /\ Content(p) \in Values
         /\ Resolve(p) = Reserved => Content(p) = Zero
         /\ Resolve(p) \notin Frames /\ Resolve(p) # Reserved => Content(p) = Absent
         /\ Content(p) \in Values \cup {Absent}
         /\ Content(p) = Absent <=> Resolve(p) \notin Frames /\ Resolve(p) # Reserved
BY MemoryConstants DEF Content, HostType

(* Finding a page touches it only. *)
LEMMA FoundTouches ==
  ASSUME MemoryInv, Apart, NEW p \in Pages, NEW f \in Frames, Found(p, f), UNCHANGED spans
  PROVE  Apart' /\ Touched(p, f)
<1>1. \A q \in Pages : SpansAt(q)' = SpansAt(q) /\ InSpan(q)' = InSpan(q)
  BY DEF SpansAt, InSpan
<1>2. CASE Resolve(p) = f /\ UNCHANGED table
  <2>1. \A q \in Pages : Resolve(q)' = Resolve(q)
    BY <1>2 DEF Resolve, InSpan, SpansAt
  <2>2. Touched(p, f)
    BY <1>2, <2>1 DEF Touched, Apart
  <2> QED
    BY <1>1, <1>2, <2>1, <2>2 DEF Apart
<1>3. CASE Resolve(p) = Reserved /\ f \in Free /\ table' = [table EXCEPT ![p] = f]
  <2>1. ~InSpan(p)
    BY <1>3, SpanResolves, MemoryConstants DEF MemoryInv
  <2>2. table'[p] = f /\ \A q \in Pages \ {p} : table'[q] = table[q]
    BY <1>3 DEF MemoryInv, TableType
  <2>3. Resolve(p)' = f
    BY <1>1, <2>1, <2>2 DEF Resolve
  <2>4. \A q \in Pages \ {p} : Resolve(q)' = Resolve(q)
    BY <1>1, <2>2 DEF Resolve, InSpan, SpansAt
  <2>5. \A q \in Pages : Resolve(q) # f
    BY <1>3, FreeIsNobodys
  <2>6. Touched(p, f)
    BY <1>3, <2>3, <2>4, <2>5 DEF Touched
  <2>7. \A q \in Pages : InSpan(q)' => table'[q] = Absent
    BY <1>1, <2>1, <2>2 DEF Apart
  <2>8. \A q, r \in Pages : Resolve(q)' \in Frames /\ Resolve(q)' = Resolve(r)' => q = r
    BY <2>3, <2>4, <2>5 DEF Apart
  <2> QED
    BY <2>6, <2>7, <2>8 DEF Apart
<1> QED
  BY <1>2, <1>3 DEF Found

(* host_ptr touches the page it is asked for, whatever its caches know.    *)
LEMMA AccessTouches ==
  ASSUME MemoryInv, Apart, NEW p \in Pages, NEW f \in Frames, Reading(p, f) \/ Writing(p, f)
  PROVE  Apart' /\ Touched(p, f)
<1>1. CASE Hit(tlb, p, f) \/ Hit(tlbw, p, f)
  <2>1. UNCHANGED <<table, spans>>
    BY <1>1 DEF Hit
  <2>2. Resolve(p) = f
    BY <1>1 DEF Hit, MemoryInv, Leads
  <2> QED
    BY <2>1, <2>2, FoundTouches DEF Found
<1>2. CASE SlowRead(p, f) \/ SlowWrite(p, f)
  BY <1>2, FoundTouches DEF SlowRead, SlowWrite
<1> QED
  BY <1>1, <1>2 DEF Reading, Writing

(* Writing the frame of a page writes that page and no other. *)
LEMMA WrittenIsThere ==
  ASSUME HostType, NEW p \in Pages, NEW f \in Frames, Touched(p, f), NEW v \in Values,
         host' = [host EXCEPT ![f] = v]
  PROVE  /\ HostType'
         /\ Content(p)' = v /\ Content(p) # Absent
         /\ \A q \in Pages \ {p} : Content(q)' = Content(q)
<1>1. HostType' /\ host'[f] = v /\ \A g \in Frames \ {f} : host'[g] = host[g]
  BY DEF HostType
<1>2. Content(p)' = v
  <2>1. Resolve(p)' = f
    BY DEF Touched
  <2> QED
    BY <1>1, <2>1, MemoryConstants DEF Content
<1>3. \A q \in Pages \ {p} : Content(q)' = Content(q)
  BY <1>1 DEF Content, Touched
<1>4. Content(p) # Absent
  BY ContentByPlace DEF Touched
<1> QED
  BY <1>1, <1>2, <1>3, <1>4

(* Reading changes nothing, and reads what is there. *)
LEMMA ReadIsThere ==
  ASSUME MemoryInv, Apart, HostType, NEW p \in Pages, NEW f \in Frames, Reading(p, f),
         host' = IF table' = table THEN host ELSE [host EXCEPT ![f] = Zero]
  PROVE  /\ Apart' /\ HostType'
         /\ \A q \in Pages : Content(q)' = Content(q)
         /\ \A q \in Pages : Resolve(q) \in Frames => Resolve(q)' = Resolve(q)
         /\ Content(p) = host'[f] /\ Content(p) # Absent
<1>0. Touched(p, f) /\ Apart'
  BY AccessTouches
<1>1. CASE table' = table
  <2>1. UNCHANGED spans
    BY DEF Reading, Hit, SlowRead
  <2>2. \A q \in Pages : Resolve(q)' = Resolve(q)
    BY <1>1, <2>1 DEF Resolve, InSpan, SpansAt
  <2>3. Resolve(p) = f
    BY <1>0, <2>2 DEF Touched
  <2> QED
    BY <1>0, <1>1, <2>2, <2>3, ContentByPlace DEF HostType, Content
<1>2. CASE table' # table
  <2>1. Resolve(p) = Reserved
    <3>1. SlowRead(p, f)
      BY <1>2 DEF Reading, Hit
    <3> QED
      BY <1>2, <3>1 DEF SlowRead, Found
  <2>2. host' = [host EXCEPT ![f] = Zero] /\ Zero \in Values
    BY <1>2, MemoryConstants
  <2>3. /\ HostType' /\ Content(p)' = Zero
        /\ \A q \in Pages \ {p} : Content(q)' = Content(q)
    BY <1>0, <2>2, WrittenIsThere
  <2>4. Content(p) = Zero /\ host'[f] = Zero
    BY <2>1, <2>2, ContentByPlace DEF HostType
  <2>5. Zero # Absent /\ Reserved \notin Frames
    BY MemoryConstants
  <2> QED
    BY <1>0, <2>1, <2>3, <2>4, <2>5 DEF Touched
<1> QED
  BY <1>1, <1>2

-----------------------------------------------------------------------------
(* Mapping and unmapping.                                                  *)

Gone(S) == S \cup UNION {DOMAIN s : s \in spans \ Remaining(S)}

(* Mapping one by one leaves what is mapped and makes the rest zero. *)
LEMMA MapEffect ==
  ASSUME MemoryInv, Apart, HostType, NEW S \in Ranges, Map(S)
  PROVE  /\ Apart' /\ HostType'
         /\ \A p \in Pages :
              Content(p)' = IF p \in S /\ Content(p) = Absent THEN Zero ELSE Content(p)
<1>1. UNCHANGED <<spans, host>> /\ \A p \in S : ~InSpan(p)
  BY DEF Map
<1>2. \A p \in Pages : table'[p] = IF p \in S /\ table[p] = Absent THEN Reserved ELSE table[p]
  BY DEF Map
<1>3. \A p \in Pages : InSpan(p)' = InSpan(p)
  BY <1>1 DEF InSpan, SpansAt
<1>4. ASSUME NEW p \in Pages
      PROVE  Resolve(p)' = IF p \in S /\ Resolve(p) = Absent THEN Reserved ELSE Resolve(p)
  <2>1. CASE InSpan(p)
    <3>1. Resolve(p)' = Resolve(p)
      BY <1>1, <2>1 DEF Resolve, InSpan, SpansAt
    <3>2. p \notin S
      BY <1>1, <2>1
    <3> QED
      BY <3>1, <3>2
  <2>2. CASE ~InSpan(p)
    BY <1>2, <1>3, <2>2 DEF Resolve
  <2> QED
    BY <2>1, <2>2
<1>5. Apart'
  <2>1. \A p \in Pages : InSpan(p)' => table'[p] = Absent
    BY <1>1, <1>2, <1>3 DEF Apart
  <2>2. \A p, q \in Pages : Resolve(p)' \in Frames /\ Resolve(p)' = Resolve(q)' => p = q
    BY <1>4, MemoryConstants DEF Apart
  <2> QED
    BY <1>1, <2>1, <2>2 DEF Apart
<1>6. HostType'
  BY <1>1 DEF HostType
<1>7. ASSUME NEW p \in Pages
      PROVE  Content(p)' = IF p \in S /\ Content(p) = Absent THEN Zero ELSE Content(p)
  <2>1. CASE p \in S /\ Resolve(p) = Absent
    <3>1. Content(p) = Absent
      BY <2>1, ContentByPlace, MemoryConstants
    <3>2. Content(p)' = Zero
      BY <1>4, <2>1, MemoryConstants DEF Content
    <3> QED
      BY <2>1, <3>1, <3>2
  <2>2. CASE ~(p \in S /\ Resolve(p) = Absent)
    <3>1. Resolve(p)' = Resolve(p)
      BY <1>4, <2>2
    <3>2. Content(p)' = Content(p)
      BY <1>1, <3>1 DEF Content
    <3>3. Resolve(p) \in Frames \cup {Absent, Reserved}
      <4>1. CASE InSpan(p)
        BY <4>1, SpanResolves DEF MemoryInv
      <4>2. CASE ~InSpan(p)
        BY <4>2, TableIsWhere DEF MemoryInv, TableType
      <4> QED
        BY <4>1, <4>2
    <3>4. p \in S => Content(p) # Absent
      BY <2>2, <3>3, ContentByPlace
    <3> QED
      BY <3>2, <3>4
  <2> QED
    BY <2>1, <2>2
<1> QED
  BY <1>5, <1>6, <1>7

(* When the pages of S are dropped, what shared a span with them goes too  *)
(* and everything else stays where it is, whatever is mapped over S.       *)
LEMMA DropPlaces ==
  ASSUME MemoryInv, Apart, NEW S \in Ranges, Drop(S),
         Remaining(S) \subseteq spans', \A s \in spans' \ Remaining(S) : DOMAIN s = S
  PROVE  \A p \in Pages \ S :
           /\ SpansAt(p)' = SpansAt(p) \cap Remaining(S)
           /\ Resolve(p)' = IF p \in Gone(S) THEN Absent ELSE Resolve(p)
<1> SUFFICES ASSUME NEW p \in Pages \ S
             PROVE  /\ SpansAt(p)' = SpansAt(p) \cap Remaining(S)
                    /\ Resolve(p)' = IF p \in Gone(S) THEN Absent ELSE Resolve(p)
  OBVIOUS
<1>1. SpansAt(p)' = SpansAt(p) \cap Remaining(S)
  <2>1. \A s \in spans' : p \in DOMAIN s => s \in Remaining(S)
    OBVIOUS
  <2> QED
    BY <2>1 DEF SpansAt, Remaining
<1>2. table'[p] = table[p]
  BY DEF Drop
<1>3. CASE SpansAt(p) = {}
  <2>1. p \notin Gone(S)
    BY <1>3 DEF Gone, SpansAt
  <2>2. ~InSpan(p) /\ ~InSpan(p)'
    BY <1>1, <1>3 DEF InSpan
  <2> QED
    BY <1>1, <1>2, <2>1, <2>2 DEF Resolve
<1>4. CASE SpansAt(p) # {}
  <2>1. PICK s \in spans : p \in DOMAIN s
    BY <1>4 DEF SpansAt
  <2>2. SpansAt(p) = {s} /\ InSpan(p) /\ Resolve(p) = s[p]
    BY <2>1, SpanIsWhere
  <2>3. CASE s \in Remaining(S)
    <3>1. p \notin Gone(S)
      BY <2>1, <2>3 DEF Gone, Apart
    <3>2. SpansAt(p)' = {s}
      BY <1>1, <2>2, <2>3
    <3>3. Resolve(p)' = s[p]
      BY <3>2 DEF Resolve, InSpan
    <3> QED
      BY <1>1, <2>2, <3>1, <3>3
  <2>4. CASE s \notin Remaining(S)
    <3>1. DOMAIN s \in {DOMAIN t : t \in spans \ Remaining(S)}
      BY <2>1, <2>4
    <3>2. p \in Gone(S)
      BY <2>1, <3>1 DEF Gone
    <3>3. ~InSpan(p)'
      BY <1>1, <2>2, <2>4 DEF InSpan
    <3>4. table[p] = Absent
      BY <2>2 DEF Apart
    <3> QED
      BY <1>1, <1>2, <3>2, <3>3, <3>4 DEF Resolve
  <2> QED
    BY <2>3, <2>4
<1> QED
  BY <1>3, <1>4

(* Unmapping takes away what is gone. *)
LEMMA UnmapEffect ==
  ASSUME MemoryInv, Apart, HostType, NEW S \in Ranges, Unmap(S)
  PROVE  /\ Apart' /\ HostType'
         /\ \A p \in Pages : Content(p)' = IF p \in Gone(S) THEN Absent ELSE Content(p)
<1>1. Drop(S) /\ spans' = Remaining(S) /\ UNCHANGED host
  BY DEF Unmap
<1>2. \A p \in Pages \ S : /\ SpansAt(p)' = SpansAt(p) \cap Remaining(S)
                           /\ Resolve(p)' = IF p \in Gone(S) THEN Absent ELSE Resolve(p)
  BY <1>1, DropPlaces
<1>3. ASSUME NEW p \in Pages, p \in S
      PROVE  ~InSpan(p)' /\ Resolve(p)' = Absent /\ table'[p] = Absent
  <2>1. ~InSpan(p)'
    BY <1>1, <1>3 DEF InSpan, SpansAt, Remaining
  <2>2. table'[p] = Absent
    BY <1>1, <1>3 DEF Drop
  <2> QED
    BY <2>1, <2>2 DEF Resolve
<1>4. \A p \in Pages : Resolve(p)' = IF p \in Gone(S) THEN Absent ELSE Resolve(p)
  BY <1>2, <1>3 DEF Gone
<1>5. Apart'
  <2>1. ASSUME NEW p \in Pages, InSpan(p)' PROVE table'[p] = Absent
    <3>1. p \notin S /\ InSpan(p)
      BY <1>2, <1>3, <2>1 DEF InSpan
    <3> QED
      BY <1>1, <3>1 DEF Drop, Apart
  <2>2. \A p, q \in Pages : Resolve(p)' \in Frames /\ Resolve(p)' = Resolve(q)' => p = q
    BY <1>4, MemoryConstants DEF Apart
  <2> QED
    BY <1>1, <2>1, <2>2 DEF Apart, Remaining
<1>6. \A p \in Pages : Content(p)' = IF p \in Gone(S) THEN Absent ELSE Content(p)
  BY <1>1, <1>4, MemoryConstants DEF Content
<1> QED
  BY <1>1, <1>5, <1>6 DEF HostType

(* Mapping in one piece takes away the same and puts zeros in its place.   *)
LEMMA MapContiguousEffect ==
  ASSUME MemoryInv, Apart, HostType, NEW S \in Ranges, MapContiguous(S)
  PROVE  /\ Apart' /\ HostType'
         /\ \A p \in Pages : Content(p)' = IF p \in S THEN Zero
                                           ELSE IF p \in Gone(S) THEN Absent ELSE Content(p)
<1>1. PICK s \in [S -> Free] :
        /\ \A p, q \in S : s[p] = s[q] => p = q
        /\ spans' = Remaining(S) \cup {s}
        /\ host' = [f \in Frames |-> IF \E p \in S : s[p] = f THEN Zero ELSE host[f]]
  BY DEF MapContiguous
<1>2. Drop(S) /\ S \subseteq Pages
  BY MemoryConstants DEF MapContiguous
<1>3. \A p \in Pages \ S : /\ SpansAt(p)' = SpansAt(p) \cap Remaining(S)
                           /\ Resolve(p)' = IF p \in Gone(S) THEN Absent ELSE Resolve(p)
  <2>1. Remaining(S) \subseteq spans' /\ \A t \in spans' \ Remaining(S) : DOMAIN t = S
    BY <1>1
  <2> QED
    BY <1>2, <2>1, DropPlaces
<1>4. ASSUME NEW p \in S
      PROVE  Resolve(p)' = s[p] /\ table'[p] = Absent
  <2>1. SpansAt(p)' = {s}
    BY <1>1 DEF SpansAt, Remaining
  <2>2. table'[p] = Absent
    BY <1>2 DEF Drop
  <2> QED
    BY <2>1, <2>2 DEF Resolve, InSpan
<1>5. \A p \in S : s[p] \in Frames /\ \A q \in Pages : Resolve(q) # s[p]
  BY <1>1, FreeIsNobodys DEF Free
<1>6. Apart'
  <2>1. ASSUME NEW p \in Pages, InSpan(p)' PROVE table'[p] = Absent
    <3>1. CASE p \in S
      BY <1>4, <3>1
    <3>2. CASE p \notin S
      <4>1. InSpan(p)
        BY <1>3, <2>1, <3>2 DEF InSpan
      <4> QED
        BY <1>2, <4>1 DEF Drop, Apart
    <3> QED
      BY <3>1, <3>2
  <2>2. \A p, q \in Pages : Resolve(p)' \in Frames /\ Resolve(p)' = Resolve(q)' => p = q
    BY <1>1, <1>3, <1>4, <1>5, MemoryConstants DEF Apart
  <2>3. \A t \in spans' : t \in [DOMAIN t -> Frames] /\ DOMAIN t \subseteq Pages
    BY <1>1, <1>2 DEF Apart, Remaining, Free
  <2>4. \A t, u \in spans' : t # u => DOMAIN t \cap DOMAIN u = {}
    BY <1>1 DEF Apart, Remaining
  <2> QED
    BY <2>1, <2>2, <2>3, <2>4 DEF Apart
<1>7. HostType'
  BY <1>1, MemoryConstants DEF HostType
<1>8. ASSUME NEW p \in Pages
      PROVE  Content(p)' = IF p \in S THEN Zero
                           ELSE IF p \in Gone(S) THEN Absent ELSE Content(p)
  <2>1. CASE p \in S
    <3>1. Resolve(p)' = s[p] /\ s[p] \in Frames
      BY <1>4, <1>5, <2>1
    <3>2. host'[s[p]] = Zero
      BY <1>1, <2>1, <3>1
    <3> QED
      BY <2>1, <3>1, <3>2 DEF Content
  <2>2. CASE p \notin S /\ p \in Gone(S)
    BY <1>3, <2>2, MemoryConstants DEF Content
  <2>3. CASE p \notin S /\ p \notin Gone(S)
    <3>1. Resolve(p)' = Resolve(p)
      BY <1>3, <2>3
    <3>2. Resolve(p) \in Frames => host'[Resolve(p)] = host[Resolve(p)]
      BY <1>1, <1>5
    <3> QED
      BY <2>3, <3>1, <3>2 DEF Content
  <2> QED
    BY <2>1, <2>2, <2>3
<1> QED
  BY <1>6, <1>7, <1>8

-----------------------------------------------------------------------------
(* The refinement: what the guest sees while a block is verified is what   *)
(* there was before.                                                       *)

Cell == IF phase \in {"off", "differs"} THEN Contents ELSE before

LEMMA CellType ==
  ASSUME HostType, VerifierInv
  PROVE  Cell \in [Pages -> Values \cup {Absent}] /\ Contents \in [Pages -> Values \cup {Absent}]
BY ContentByPlace DEF Cell, Contents, VerifierInv

(* Outside a verification, nothing is claimed of its variables. *)
LEMMA IdleKeeps ==
  ASSUME VerifierInv, phase = "off", UNCHANGED <<journaling, phase, before, after>>
  PROVE  VerifierInv'
BY DEF VerifierInv, Verifying

LEMMA MappingFlat ==
  ASSUME FlatInv, NEW S \in Ranges, Map(S) \/ Unmap(S) \/ MapContiguous(S)
  PROVE  Apart' /\ HostType' /\ VerifierInv' /\ Flat!Next
<1>1. phase = "off" /\ UNCHANGED <<journaling, phase, before, after>> /\ seen' = <<>>
  BY DEF Map, Unmap, MapContiguous, Idle, verifier, locals
<1>2. Cell = Contents /\ Cell' = Contents'
  BY <1>1 DEF Cell
<1>3. VerifierInv'
  BY <1>1, IdleKeeps DEF FlatInv
<1>4. Gone(S) \in SUBSET Pages /\ S \subseteq Gone(S)
  BY MemoryConstants DEF Gone, FlatInv, Apart
<1>5. CASE Map(S)
  <2>1. /\ Apart' /\ HostType'
        /\ \A p \in Pages :
             Content(p)' = IF p \in S /\ Content(p) = Absent THEN Zero ELSE Content(p)
    BY <1>5, MapEffect DEF FlatInv
  <2>2. Cell' = [p \in Pages |-> IF p \in S /\ Cell[p] = Absent THEN Zero ELSE Cell[p]]
    BY <1>2, <2>1 DEF Contents
  <2>3. Flat!Map(S)
    BY <2>2 DEF Flat!Map, Cell
  <2> QED
    BY <1>1, <1>3, <2>1, <2>3 DEF Flat!Next
<1>6. CASE Unmap(S)
  <2>1. /\ Apart' /\ HostType'
        /\ \A p \in Pages : Content(p)' = IF p \in Gone(S) THEN Absent ELSE Content(p)
    BY <1>6, UnmapEffect DEF FlatInv
  <2>2. Cell' = [p \in Pages |-> IF p \in Gone(S) THEN Absent ELSE Cell[p]]
    BY <1>2, <2>1 DEF Contents
  <2>3. Flat!Unmap(Gone(S))
    BY <2>2 DEF Flat!Unmap, Cell
  <2> QED
    BY <1>1, <1>3, <1>4, <2>1, <2>3 DEF Flat!Next
<1>7. CASE MapContiguous(S)
  <2>1. /\ Apart' /\ HostType'
        /\ \A p \in Pages : Content(p)' = IF p \in S THEN Zero
                                          ELSE IF p \in Gone(S) THEN Absent ELSE Content(p)
    BY <1>7, MapContiguousEffect DEF FlatInv
  <2>2. Cell' = [p \in Pages |-> IF p \in S THEN Zero
                                 ELSE IF p \in Gone(S) THEN Absent ELSE Cell[p]]
    BY <1>2, <2>1 DEF Contents
  <2>3. Flat!MapContiguous(S, Gone(S))
    BY <2>2 DEF Flat!MapContiguous, Cell
  <2> QED
    BY <1>1, <1>3, <1>4, <2>1, <2>3 DEF Flat!Next
<1> QED
  BY <1>5, <1>6, <1>7

(* In a run of the verifier, every step that leaves the contents alone, or  *)
(* writes a page that is in the journal, keeps track.                      *)
LEMMA TrackedSame ==
  ASSUME RunTracked, UNCHANGED <<journal, before>>,
         \A q \in Pages : Content(q)' = Content(q),
         \A q \in Pages : Resolve(q) \in Frames => Resolve(q)' = Resolve(q)
  PROVE  RunTracked'
BY DEF RunTracked

LEMMA ReadFlat ==
  ASSUME FlatInv, NEW p \in Pages, Read(p)
  PROVE  Apart' /\ HostType' /\ VerifierInv' /\ [Flat!Next]_<<Cell, seen>>
<1>1. PICK f \in Frames :
        /\ Reading(p, f)
        /\ host' = IF table' = table THEN host ELSE [host EXCEPT ![f] = Zero]
        /\ seen' = IF phase = "off" THEN <<p, host'[f]>> ELSE <<>>
  BY DEF Read
<1>2. phase # "differs" /\ phase # "undo" /\ UNCHANGED <<journal, journaling, phase, kept, result, before, after>>
  BY <1>1 DEF Read, verifier, locals, Reading, Hit, SlowRead
<1>3. /\ Apart' /\ HostType'
      /\ \A q \in Pages : Content(q)' = Content(q)
      /\ \A q \in Pages : Resolve(q) \in Frames => Resolve(q)' = Resolve(q)
      /\ Content(p) = host'[f] /\ Content(p) # Absent
  BY <1>1, ReadIsThere DEF FlatInv
<1>4. Contents' = Contents /\ Cell' = Cell
  BY <1>2, <1>3 DEF Contents, Cell
<1>5. CASE phase = "off"
  <2>1. VerifierInv'
    BY <1>2, <1>5, IdleKeeps DEF FlatInv
  <2>2. Cell[p] = host'[f] /\ Cell[p] # Absent
    BY <1>3, <1>5 DEF Cell, Contents
  <2>3. Flat!Read(p)
    BY <1>1, <1>4, <1>5, <2>2 DEF Flat!Read, Flat!Mapped, Cell
  <2> QED
    BY <1>3, <2>1, <2>3 DEF Flat!Next
<1>6. CASE phase # "off"
  <2>1. Verifying /\ seen = <<>> /\ seen' = <<>>
    BY <1>1, <1>2, <1>6 DEF FlatInv, VerifierInv, Verifying
  <2>2. RunTracked'
    BY <1>2, <1>3, <1>6, TrackedSame DEF FlatInv, VerifierInv
  <2>3. VerifierInv'
    BY <1>2, <1>3, <1>6, <2>1, <2>2 DEF FlatInv, VerifierInv, Verifying, ResultKept
  <2> QED
    BY <1>3, <1>4, <2>1, <2>3
<1> QED
  BY <1>5, <1>6

(* A write of the verified code: the page gets its value, and what it held *)
(* at the run's beginning is in the journal.                               *)
LEMMA WritePaged ==
  ASSUME FlatInv, NEW p \in Pages, NEW v \in Values, NEW f \in Frames,
         Writing(p, f), host' = [host EXCEPT ![f] = v], UNCHANGED <<phase, journaling, before>>
  PROVE  /\ Apart' /\ HostType'
         /\ Content(p)' = v /\ Content(p) # Absent
         /\ \A q \in Pages \ {p} : Content(q)' = Content(q)
         /\ phase \in {"translated", "interpreted"} => RunTracked'
<1>1. Apart' /\ Touched(p, f)
  BY AccessTouches DEF FlatInv
<1>2. /\ HostType'
      /\ Content(p)' = v /\ Content(p) # Absent
      /\ \A q \in Pages \ {p} : Content(q)' = Content(q)
  BY <1>1, WrittenIsThere DEF FlatInv
<1>3. ASSUME phase \in {"translated", "interpreted"}
      PROVE  RunTracked'
  <2>1. journaling /\ RunTracked
    BY <1>3 DEF FlatInv, VerifierInv
  <2>2. Journaled(p)
    <3>1. ~Cached(tlbw, p)
      BY <2>1 DEF FlatInv, MemoryInv, NoWriteCached
    <3> QED
      BY <2>1, <3>1 DEF Writing, Hit, SlowWrite
  <2>3. \A q \in Pages : Resolve(q) \in Frames => Resolve(q)' \in Frames
    BY <1>1 DEF Touched
  <2>4. Resolve(p)' \in Frames
    BY <1>1 DEF Touched
  <2>5. CASE p \in DOMAIN journal
    <3>1. journal' = journal
      BY <2>2, <2>5 DEF Journaled
    <3> QED
      BY <1>2, <2>1, <2>3, <2>5, <3>1 DEF RunTracked
  <2>6. CASE p \notin DOMAIN journal
    <3>1. journal' = [q \in DOMAIN journal \cup {p} |-> IF q = p THEN Content(p) ELSE journal[q]]
      BY <2>2, <2>6 DEF Journaled
    <3>2. DOMAIN journal' = DOMAIN journal \cup {p} /\ journal'[p] = Content(p)
      BY <3>1
    <3>3. \A q \in DOMAIN journal : journal'[q] = journal[q]
      BY <2>6, <3>1
    <3>4. Content(p) = before[p]
      BY <2>1, <2>6 DEF RunTracked
    <3> QED
      BY <1>2, <2>1, <2>3, <2>4, <3>2, <3>3, <3>4 DEF RunTracked
  <2> QED
    BY <2>5, <2>6
<1> QED
  BY <1>1, <1>2, <1>3

LEMMA WriteFlat ==
  ASSUME FlatInv, NEW p \in Pages, NEW v \in Values, NEW whole \in BOOLEAN, Write(p, v, whole)
  PROVE  Apart' /\ HostType' /\ VerifierInv' /\ [Flat!Next]_<<Cell, seen>>
<1>1. /\ phase # "differs" /\ phase # "undo"
      /\ seen' = IF phase = "off" THEN <<p, v>> ELSE <<>>
      /\ UNCHANGED <<journaling, phase, kept, result, before, after>>
  BY DEF Write, verifier, locals
<1>2. v # Absent
  BY MemoryConstants
<1>3. /\ Apart' /\ HostType'
      /\ Content(p)' = v /\ Content(p) # Absent
      /\ \A q \in Pages \ {p} : Content(q)' = Content(q)
      /\ phase \in {"translated", "interpreted"} => RunTracked'
  <2>1. CASE UNCHANGED <<memory, journal>> /\ v = Zero /\ Unbacked(p)
    <3>1. UNCHANGED <<table, spans, host, journal>>
      BY <2>1 DEF memory
    <3>2. \A q \in Pages : Resolve(q)' = Resolve(q) /\ Content(q)' = Content(q)
      BY <3>1 DEF Content, Resolve, InSpan, SpansAt
    <3>3. Resolve(p) = Reserved
      BY <2>1, TableIsWhere, MemoryConstants DEF Unbacked, FlatInv, Apart
    <3>4. Content(p) = v
      BY <2>1, <3>3, ContentByPlace DEF FlatInv
    <3>5. Apart' /\ HostType'
      BY <3>1 DEF FlatInv, Apart, HostType, Resolve, InSpan, SpansAt
    <3>6. phase \in {"translated", "interpreted"} => RunTracked'
      BY <1>1, <3>1, <3>2 DEF FlatInv, VerifierInv, RunTracked
    <3> QED
      BY <1>2, <3>2, <3>4, <3>5, <3>6
  <2>2. CASE \E f \in Frames : Writing(p, f) /\ host' = [host EXCEPT ![f] = v]
    BY <1>1, <2>2, WritePaged
  <2> QED
    BY <2>1, <2>2 DEF Write
<1>4. CASE phase = "off"
  <2>1. VerifierInv'
    BY <1>1, <1>4, IdleKeeps DEF FlatInv
  <2>2. Cell = Contents /\ Cell' = Contents'
    BY <1>1, <1>4 DEF Cell
  <2>3. Cell' = [Cell EXCEPT ![p] = v] /\ Cell[p] # Absent
    BY <1>3, <2>2 DEF Contents
  <2>4. Flat!Write(p, v)
    BY <1>1, <1>4, <2>3 DEF Flat!Write, Flat!Mapped, Cell
  <2> QED
    BY <1>3, <2>1, <2>4 DEF Flat!Next
<1>5. CASE phase # "off"
  <2>1. Verifying /\ seen = <<>> /\ seen' = <<>> /\ phase \in {"translated", "interpreted"}
    BY <1>1, <1>5 DEF FlatInv, VerifierInv, Verifying
  <2>2. \A q \in Pages : before'[q] = Absent <=> Content(q)' = Absent
    BY <1>1, <1>2, <1>3, <2>1 DEF FlatInv, VerifierInv
  <2>3. VerifierInv'
    BY <1>1, <1>3, <2>1, <2>2 DEF FlatInv, VerifierInv, Verifying, ResultKept
  <2>4. Cell' = Cell
    BY <1>1, <2>1 DEF Cell
  <2> QED
    BY <1>3, <2>1, <2>3, <2>4
<1> QED
  BY <1>4, <1>5

LEMMA HostWriteFlat ==
  ASSUME FlatInv, NEW p \in Pages, NEW v \in Values, HostWrite(p, v)
  PROVE  Apart' /\ HostType' /\ VerifierInv' /\ [Flat!Next]_<<Cell, seen>>
<1>1. /\ phase = "off" /\ UNCHANGED <<journaling, phase, before, after, table, spans>>
      /\ host' = [host EXCEPT ![Resolve(p)] = v] /\ seen' = <<p, v>> /\ InSpan(p)
  BY DEF HostWrite, Idle, verifier, locals
<1>2. Resolve(p) \in Frames
  BY <1>1, SpanResolves DEF FlatInv, MemoryInv
<1>3. Apart' /\ Touched(p, Resolve(p))
  BY <1>1, <1>2, FoundTouches DEF Found, FlatInv
<1>4. /\ HostType' /\ Content(p)' = v /\ Content(p) # Absent
      /\ \A q \in Pages \ {p} : Content(q)' = Content(q)
  BY <1>1, <1>2, <1>3, WrittenIsThere DEF FlatInv
<1>5. VerifierInv'
  BY <1>1, IdleKeeps DEF FlatInv
<1>6. Cell = Contents /\ Cell' = Contents'
  BY <1>1 DEF Cell
<1>7. Cell' = [Cell EXCEPT ![p] = v] /\ Cell[p] # Absent
  BY <1>4, <1>6 DEF Contents
<1>8. Flat!Write(p, v)
  BY <1>1, <1>7 DEF Flat!Write, Flat!Mapped, Cell
<1> QED
  BY <1>3, <1>4, <1>5, <1>8 DEF Flat!Next

\* What neither maps nor writes leaves the memory's contents as they are.
LEMMA MemorySame ==
  ASSUME UNCHANGED <<table, spans, host>>
  PROVE  /\ \A q \in Pages : Resolve(q)' = Resolve(q) /\ Content(q)' = Content(q)
         /\ Contents' = Contents
         /\ Apart /\ HostType => Apart' /\ HostType'
<1>1. \A q \in Pages : Resolve(q)' = Resolve(q) /\ Content(q)' = Content(q)
  BY DEF Content, Resolve, InSpan, SpansAt
<1>2. Contents' = Contents
  BY <1>1 DEF Contents
<1>3. Apart /\ HostType => Apart' /\ HostType'
  BY DEF Apart, HostType, Resolve, InSpan, SpansAt
<1> QED
  BY <1>1, <1>2, <1>3

(* The end of a verification, by a fault or by the comparison, shows what   *)
(* the last run left: it may have written any page there is.               *)
LEMMA OverFlat ==
  ASSUME FlatInv, Verifying, Over, phase' \in {"off", "differs"}, UNCHANGED <<table, spans, host>>,
         seen' = <<>>
  PROVE  Apart' /\ HostType' /\ VerifierInv' /\ Flat!Next
<1>1. Apart' /\ HostType' /\ Contents' = Contents
  BY MemorySame DEF FlatInv
<1>2. Nowhere \in [Pages -> Values \cup {Absent}]
  BY DEF Nowhere
<1>3. VerifierInv'
  <2>1. phase' \notin {"translated", "undo", "interpreted"} /\ ~journaling'
    BY DEF Over
  <2>2. before' \in [Pages -> Values \cup {Absent}] /\ after' \in [Pages -> Values \cup {Absent}]
    BY <1>2 DEF Over
  <2> QED
    BY <2>1, <2>2 DEF VerifierInv, Verifying
<1>4. Cell = before /\ Cell' = Contents
  BY <1>1 DEF Cell, Verifying
<1>5. /\ Cell' \in [Pages -> Values \cup {Absent}]
      /\ \A p \in Pages : Cell'[p] = Absent <=> Cell[p] = Absent
  BY <1>4, CellType DEF FlatInv, VerifierInv, Contents
<1>6. Flat!Block
  BY <1>5 DEF Flat!Block, Cell
<1> QED
  BY <1>1, <1>3, <1>6 DEF Flat!Next

LEMMA FaultFlat ==
  ASSUME FlatInv, NEW p \in Pages, Fault(p)
  PROVE  Apart' /\ HostType' /\ VerifierInv' /\ [Flat!Next]_<<Cell, seen>>
<1>1. /\ phase # "differs" /\ phase # "undo" /\ Resolve(p) = Absent
      /\ Over /\ phase' = "off" /\ UNCHANGED <<table, spans, host>>
      /\ seen' = IF phase = "off" THEN <<p, Absent>> ELSE <<>>
  BY DEF Fault, memory
<1>2. CASE phase = "off"
  <2>1. Apart' /\ HostType' /\ Contents' = Contents
    BY <1>1, MemorySame DEF FlatInv
  <2>2. VerifierInv'
    <3>1. Nowhere \in [Pages -> Values \cup {Absent}]
      BY DEF Nowhere
    <3>2. ~journaling'
      BY <1>1 DEF Over
    <3>3. before' \in [Pages -> Values \cup {Absent}] /\ after' \in [Pages -> Values \cup {Absent}]
      BY <1>1, <3>1 DEF Over
    <3> QED
      BY <1>1, <3>2, <3>3 DEF VerifierInv, Verifying
  <2>3. Content(p) = Absent
    BY <1>1, ContentByPlace, MemoryConstants DEF FlatInv
  <2>4. Cell[p] = Absent /\ Cell' = Cell
    BY <1>1, <1>2, <2>1, <2>3 DEF Cell, Contents
  <2>5. Flat!Fault(p)
    BY <1>1, <1>2, <2>4 DEF Flat!Fault, Flat!Mapped, Cell
  <2> QED
    BY <2>1, <2>2, <2>5 DEF Flat!Next
<1>3. CASE phase # "off"
  <2>1. Verifying
    BY <1>1, <1>3 DEF FlatInv, VerifierInv, Verifying
  <2> QED
    BY <1>1, <1>3, <2>1, OverFlat
<1> QED
  BY <1>2, <1>3

LEMMA CompareFlat ==
  ASSUME FlatInv, Compare
  PROVE  Apart' /\ HostType' /\ VerifierInv' /\ [Flat!Next]_<<Cell, seen>>
<1>1. Verifying /\ seen' = <<>>
  BY DEF Compare, Verifying, FlatInv, VerifierInv
<1> QED
  BY <1>1, OverFlat DEF Compare, memory

(* A run begins with an empty journal and the memory as it was. *)
LEMMA RunTranslatedFlat ==
  ASSUME FlatInv, RunTranslated
  PROVE  Apart' /\ HostType' /\ VerifierInv' /\ [Flat!Next]_<<Cell, seen>>
<1>1. /\ phase = "off" /\ phase' = "translated" /\ before' = Contents /\ seen' = <<>>
      /\ journal' = Nothing /\ journaling' = TRUE
      /\ UNCHANGED <<table, spans, host, after>>
  BY DEF RunTranslated, JournalBegin
<1>2. /\ Apart' /\ HostType'
      /\ \A q \in Pages : Resolve(q)' = Resolve(q) /\ Content(q)' = Content(q)
  BY <1>1, MemorySame DEF FlatInv
<1>3. before' \in [Pages -> Values \cup {Absent}] /\ \A q \in Pages : before'[q] = Content(q)'
  BY <1>1, <1>2, CellType DEF FlatInv, Contents
<1>4. RunTracked'
  BY <1>1, <1>3 DEF RunTracked, Nothing
<1>5. VerifierInv'
  BY <1>1, <1>3, <1>4 DEF VerifierInv, Verifying, FlatInv
<1>6. Cell' = Cell /\ Cell \in [Pages -> Values \cup {Absent}]
  BY <1>1, CellType DEF Cell, FlatInv
<1>7. Flat!Block
  BY <1>6 DEF Flat!Block, Cell
<1> QED
  BY <1>1, <1>2, <1>5, <1>7 DEF Flat!Next

LEMMA TakeResultFlat ==
  ASSUME FlatInv, TakeResult
  PROVE  Apart' /\ HostType' /\ VerifierInv' /\ UNCHANGED <<Cell, seen>>
<1>1. /\ phase = "translated" /\ phase' = "undo" /\ ~journaling'
      /\ kept' = journal /\ result' = Nothing /\ after' = Contents
      /\ UNCHANGED <<table, spans, host, before, seen>>
  BY DEF TakeResult, memory
<1>2. /\ Apart' /\ HostType' /\ Contents' = Contents
      /\ \A q \in Pages : Resolve(q)' = Resolve(q) /\ Content(q)' = Content(q)
  BY <1>1, MemorySame DEF FlatInv
<1>3. after' \in [Pages -> Values \cup {Absent}] /\ \A q \in Pages : after'[q] = Content(q)
  BY <1>1, CellType DEF FlatInv, Contents
<1>4. RunTracked
  BY <1>1 DEF FlatInv, VerifierInv
<1>5. Undoing'
  BY <1>1, <1>2, <1>3, <1>4 DEF Undoing, RunTracked, Nothing
<1>6. VerifierInv'
  <2>1. before' \in [Pages -> Values \cup {Absent}]
    BY <1>1 DEF FlatInv, VerifierInv
  <2>2. /\ seen' = <<>>
        /\ \A p \in Pages : before'[p] = Absent <=> Content(p)' = Absent
    BY <1>1, <1>2 DEF FlatInv, VerifierInv, Verifying
  <2> QED
    BY <1>1, <1>3, <1>5, <2>1, <2>2 DEF VerifierInv
<1>7. Cell' = Cell
  BY <1>1 DEF Cell
<1> QED
  BY <1>1, <1>2, <1>6, <1>7

(* A page of the first run's journal is saved and put back. *)
LEMMA PutBackFlat ==
  ASSUME FlatInv, NEW p \in Pages, PutBack(p)
  PROVE  Apart' /\ HostType' /\ VerifierInv' /\ UNCHANGED <<Cell, seen>>
<1>1. PICK f \in Frames :
        /\ Reading(p, f)
        /\ result' = [q \in DOMAIN result \cup {p} |-> IF q = p THEN host[f] ELSE result[q]]
        /\ host' = [host EXCEPT ![f] = kept[p]]
  BY DEF PutBack
<1>2. /\ phase = "undo" /\ p \in DOMAIN kept \ DOMAIN result
      /\ UNCHANGED <<journaling, phase, kept, before, after, seen>>
  BY DEF PutBack
<1>3. Undoing /\ Verifying
  BY <1>2 DEF FlatInv, VerifierInv, Verifying
<1>4. Apart' /\ Touched(p, f)
  BY <1>1, AccessTouches DEF FlatInv
<1>5. Resolve(p) = f
  BY <1>2, <1>3, <1>4, MemoryConstants DEF Undoing, Touched
<1>6. Content(p) = host[f] /\ Content(p) # Absent /\ Content(p) = after[p] /\ kept[p] = before[p]
  BY <1>2, <1>3, <1>5, ContentByPlace, MemoryConstants DEF FlatInv, Undoing
<1>7. kept[p] \in Values
  BY <1>2, <1>3, <1>6 DEF FlatInv, VerifierInv
<1>8. /\ HostType' /\ Content(p)' = kept[p]
      /\ \A q \in Pages \ {p} : Content(q)' = Content(q)
  BY <1>1, <1>4, <1>7, WrittenIsThere DEF FlatInv
<1>9. DOMAIN result' = DOMAIN result \cup {p} /\ result'[p] = host[f]
  BY <1>1
<1>10. \A q \in DOMAIN result : result'[q] = result[q]
  BY <1>1, <1>2
<1>11. \A q \in Pages : Resolve(q) \in Frames => Resolve(q)' \in Frames
  BY <1>4 DEF Touched
<1>12. Undoing'
  BY <1>2, <1>3, <1>6, <1>8, <1>9, <1>10, <1>11 DEF Undoing
<1>13. \A q \in Pages : before'[q] = Absent <=> Content(q)' = Absent
  BY <1>2, <1>3, <1>6, <1>8 DEF FlatInv, VerifierInv
<1>14. VerifierInv'
  BY <1>2, <1>3, <1>12, <1>13 DEF FlatInv, VerifierInv, Verifying
<1>15. Cell' = Cell
  BY <1>2 DEF Cell
<1> QED
  BY <1>2, <1>4, <1>8, <1>14, <1>15

LEMMA RunInterpretedFlat ==
  ASSUME FlatInv, RunInterpreted
  PROVE  Apart' /\ HostType' /\ VerifierInv' /\ UNCHANGED <<Cell, seen>>
<1>1. /\ phase = "undo" /\ phase' = "interpreted" /\ DOMAIN result = DOMAIN kept
      /\ journal' = Nothing /\ journaling' = TRUE
      /\ UNCHANGED <<table, spans, host, kept, result, before, after, seen>>
  BY DEF RunInterpreted, JournalBegin
<1>2. /\ Apart' /\ HostType'
      /\ \A q \in Pages : Resolve(q)' = Resolve(q) /\ Content(q)' = Content(q)
  BY <1>1, MemorySame DEF FlatInv
<1>3. Undoing /\ Verifying
  BY <1>1 DEF FlatInv, VerifierInv, Verifying
<1>4. RunTracked' /\ ResultKept'
  BY <1>1, <1>2, <1>3 DEF RunTracked, ResultKept, Undoing, Nothing
<1>5. VerifierInv'
  BY <1>1, <1>2, <1>3, <1>4 DEF FlatInv, VerifierInv, Verifying
<1>6. Cell' = Cell
  BY <1>1 DEF Cell
<1> QED
  BY <1>1, <1>2, <1>5, <1>6

-----------------------------------------------------------------------------
LEMMA FlatInvInit == Init => FlatInv /\ Flat!Init
<1> SUFFICES ASSUME Init PROVE FlatInv /\ Flat!Init
  OBVIOUS
<1>1. MemoryInv
  BY MemoryInvInit
<1>2. \A p \in Pages : ~InSpan(p) /\ Resolve(p) = Absent /\ Content(p) = Absent
  BY MemoryConstants DEF Init, InSpan, SpansAt, Resolve, Content
<1>3. Apart /\ HostType
  BY <1>2, MemoryConstants DEF Init, Apart, HostType
<1>4. VerifierInv
  <2>1. Nowhere \in [Pages -> Values \cup {Absent}]
    BY DEF Nowhere
  <2>2. /\ phase = "off" /\ journaling = FALSE
        /\ before = Nowhere /\ after = Nowhere
    BY DEF Init
  <2> QED
    BY <2>1, <2>2 DEF VerifierInv, Verifying
<1>5. Flat!Init
  BY <1>2 DEF Init, Flat!Init, Contents
<1> QED
  BY <1>1, <1>3, <1>4, <1>5 DEF FlatInv

LEMMA FlatInvStep == FlatInv /\ [Next]_vars => FlatInv' /\ [Flat!Next]_<<Cell, seen>>
<1> SUFFICES ASSUME FlatInv, [Next]_vars PROVE FlatInv' /\ [Flat!Next]_<<Cell, seen>>
  OBVIOUS
<1>1. MemoryInv'
  BY MemoryInvStep DEF FlatInv
<1>2. Apart' /\ HostType' /\ VerifierInv' /\ [Flat!Next]_<<Cell, seen>>
  <2>1. ASSUME NEW S \in Ranges, Map(S) \/ Unmap(S) \/ MapContiguous(S)
        PROVE  Apart' /\ HostType' /\ VerifierInv' /\ [Flat!Next]_<<Cell, seen>>
    BY <2>1, MappingFlat
  <2>2. ASSUME NEW p \in Pages, Read(p) \/ Fault(p) \/ PutBack(p)
        PROVE  Apart' /\ HostType' /\ VerifierInv' /\ [Flat!Next]_<<Cell, seen>>
    BY <2>2, ReadFlat, FaultFlat, PutBackFlat
  <2>3. ASSUME NEW p \in Pages, NEW v \in Values, HostWrite(p, v)
        PROVE  Apart' /\ HostType' /\ VerifierInv' /\ [Flat!Next]_<<Cell, seen>>
    BY <2>3, HostWriteFlat
  <2>4. ASSUME NEW p \in Pages, NEW v \in Values, NEW whole \in BOOLEAN, Write(p, v, whole)
        PROVE  Apart' /\ HostType' /\ VerifierInv' /\ [Flat!Next]_<<Cell, seen>>
    BY <2>4, WriteFlat
  <2>5. CASE RunTranslated
    BY <2>5, RunTranslatedFlat
  <2>6. CASE TakeResult
    BY <2>6, TakeResultFlat
  <2>7. CASE RunInterpreted
    BY <2>7, RunInterpretedFlat
  <2>8. CASE Compare
    BY <2>8, CompareFlat
  <2>9. CASE UNCHANGED vars
    <3>1. UNCHANGED <<table, spans, host, journal, journaling, phase, kept, result, before, after, seen>>
      BY <2>9 DEF vars, memory, verifier, locals
    <3>2. /\ Apart' /\ HostType' /\ Contents' = Contents
          /\ \A q \in Pages : Resolve(q)' = Resolve(q) /\ Content(q)' = Content(q)
      BY <3>1, MemorySame DEF FlatInv
    <3>3. RunTracked => RunTracked'
      BY <3>1, <3>2 DEF RunTracked
    <3>4. Undoing => Undoing'
      BY <3>1, <3>2 DEF Undoing
    <3>5. ResultKept => ResultKept'
      BY <3>1 DEF ResultKept
    <3>6. VerifierInv'
      BY <3>1, <3>2, <3>3, <3>4, <3>5 DEF FlatInv, VerifierInv, Verifying
    <3>7. Cell' = Cell
      BY <3>1, <3>2 DEF Cell
    <3> QED
      BY <3>1, <3>2, <3>6, <3>7
  <2> QED
    BY <2>1, <2>2, <2>3, <2>4, <2>5, <2>6, <2>7, <2>8, <2>9 DEF Next
<1> QED
  BY <1>1, <1>2 DEF FlatInv

(* Both runs of a verified block begin with the same memory, and a         *)
(* difference is reported exactly when they leave a different one          *)
(* (run_verified).                                                         *)
THEOREM VerdictAlwaysExact == Spec => []VerdictIsExact
<1>1. FlatInv => VerdictIsExact
  <2> SUFFICES ASSUME FlatInv PROVE VerdictIsExact
    OBVIOUS
  <2>1. ASSUME phase = "undo", DOMAIN result = DOMAIN kept
        PROVE  Contents = before
    <3>1. \A p \in Pages : Content(p) = before[p]
      BY <2>1 DEF FlatInv, VerifierInv, Undoing
    <3> QED
      BY <3>1 DEF Contents, FlatInv, VerifierInv
  <2>2. ASSUME phase = "interpreted"
        PROVE  Differing = {} <=> Contents = after
    <3>1. RunTracked /\ ResultKept
      BY <2>2 DEF FlatInv, VerifierInv
    <3>2. Differing = {p \in Pages : Content(p) # after[p]}
      BY <3>1 DEF Differing, RunTracked, ResultKept
    <3> QED
      BY <3>2 DEF Contents, FlatInv, VerifierInv
  <2> QED
    BY <2>1, <2>2 DEF VerdictIsExact
<1> QED
  BY <1>1, FlatInvInit, FlatInvStep, PTL DEF Spec

(* The guest's memory is one flat array, whatever is cached, mapped in one  *)
(* piece or page by page, journaled or put back (memory.h, run_verified).   *)
THEOREM MemoryIsAlwaysFlat == Spec => MemoryIsFlat
<1>1. FlatInv /\ [Next]_vars =>
        FlatInv' /\ [Flat!Next]_<<IF phase \in {"off", "differs"} THEN Contents ELSE before, seen>>
  BY FlatInvStep DEF Cell
<1> QED
  BY <1>1, FlatInvInit, PTL DEF Spec, MemoryIsFlat, Flat!Spec

=============================================================================
