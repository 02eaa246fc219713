---------------------------- MODULE GuestMemory ----------------------------
(***************************************************************************)
(* The memory of a guest (memory.h, memory.cpp): a table of pages that get *)
(* memory of the host's when they are first touched, contiguous mappings   *)
(* (spans) in front of the table, a direct-mapped cache of resolved pages  *)
(* for reads and one for writes, and the journal; and the JIT's verifier   *)
(* (verify.cpp), which runs a block twice from the same memory.            *)
(*                                                                         *)
(* A page has one value.  A longer write is the writes of its pages in     *)
(* order and stops at the first that faults.  Watching pages for           *)
(* translated code is in CodeCache.                                        *)
(***************************************************************************)
EXTENDS Integers, FiniteSets

CONSTANTS
  Pages,        \* the guest's page numbers
  Slots,        \* kTlbSize
  SlotOf,       \* [Pages -> Slots]
  Frames,       \* pages of the host's memory
  Values, Zero, \* what a page may hold
  Absent, Reserved, None,
  Ranges        \* the sets of pages that are mapped or unmapped together

ASSUME MemoryConstants ==
  /\ SlotOf \in [Pages -> Slots]
  /\ Zero \in Values /\ Absent \notin Values
  /\ Absent \notin Frames /\ Reserved \notin Frames /\ Absent # Reserved
  /\ None \notin Pages
  /\ Ranges \subseteq SUBSET Pages

VARIABLES
  table,        \* pages_: [Pages -> Frames \cup {Absent, Reserved}]
  spans,        \* spans_: each a function from its pages to frames
  host,         \* [Frames -> Values]
  tlb, tlbw,    \* [Slots -> [page, host]]
  journal,      \* journal_: what pages held when they were first written
  journaling,   \* journal_on_
  phase,        \* the verifier: "off", "translated", "undo", "interpreted", "differs"
  kept,         \* old1: the translated run's journal
  result,       \* after: what that run left in the pages of kept
  before, after,\* history: the memory as the first run found and left it
  seen          \* the page of the last access, and what it gave

memory == <<table, spans, host, tlb, tlbw>>
locals == <<kept, result, before, after>>
verifier == <<phase, locals>>
vars == <<memory, journal, journaling, verifier, seen>>

Empty == [s \in Slots |-> [page |-> None, host |-> None]]
Nothing == [p \in {} |-> Zero]
Nowhere == [p \in Pages |-> Absent]

\* run_verified is left.
Over == /\ journal' = Nothing /\ journaling' = FALSE
        /\ kept' = Nothing /\ result' = Nothing /\ before' = Nowhere /\ after' = Nowhere

SpansAt(p) == {s \in spans : p \in DOMAIN s}
InSpan(p) == SpansAt(p) # {}
Resolve(p) == IF InSpan(p) THEN (CHOOSE s \in SpansAt(p) : TRUE)[p] ELSE table[p]
Content(p) == CASE Resolve(p) \in Frames -> host[Resolve(p)]
                [] Resolve(p) = Reserved -> Zero
                [] OTHER -> Absent
Contents == [p \in Pages |-> Content(p)]

InUse == {table[p] : p \in Pages} \cup UNION {{s[p] : p \in DOMAIN s} : s \in spans}
Free == Frames \ InUse

----------------------------------------------------------------------------
(* Mapping.                                                                 *)

Idle == phase = "off" /\ UNCHANGED <<journal, journaling, verifier>>

Map(S) ==
  /\ Idle /\ \A p \in S : ~InSpan(p)
  /\ table' = [p \in Pages |-> IF p \in S /\ table[p] = Absent THEN Reserved ELSE table[p]]
  /\ seen' = <<>> /\ UNCHANGED <<spans, host, tlb, tlbw>>

\* What is left when the pages of S have gone: a span that S touches goes whole,
\* and both caches are emptied then; else only the slots S could occupy are.
Remaining(S) == {s \in spans : DOMAIN s \cap S = {}}
Cleared(cache, S) ==
  IF Remaining(S) # spans THEN Empty
  ELSE [x \in Slots |-> IF cache[x].page \in S THEN Empty[x] ELSE cache[x]]

\* Mutant: only the read cache's slots are cleared.
Drop_KeepsWriteSlots(S) ==
  /\ table' = [p \in Pages |-> IF p \in S THEN Absent ELSE table[p]]
  /\ tlb' = Cleared(tlb, S) /\ tlbw' = Cleared(tlbw, {})

Drop(S) ==
  /\ table' = [p \in Pages |-> IF p \in S THEN Absent ELSE table[p]]
  /\ tlb' = Cleared(tlb, S) /\ tlbw' = Cleared(tlbw, S)

Unmap(S) == Idle /\ Drop(S) /\ spans' = Remaining(S) /\ seen' = <<>> /\ UNCHANGED host

MapContiguous(S) ==
  /\ Idle /\ Drop(S)
  /\ \E s \in [S -> Free] :
       /\ \A p, q \in S : s[p] = s[q] => p = q
       /\ spans' = Remaining(S) \cup {s}
       /\ host' = [f \in Frames |-> IF \E p \in S : s[p] = f THEN Zero ELSE host[f]]
  /\ seen' = <<>>

----------------------------------------------------------------------------
(* Access.                                                                  *)

Cached(cache, p) == cache[SlotOf[p]].page = p
Fill(cache, p, f) == [cache EXCEPT ![SlotOf[p]] = [page |-> p, host |-> f]]

\* host_ptr, when its cache knows the page.
Hit(cache, p, f) ==
  /\ Cached(cache, p) /\ f = cache[SlotOf[p]].host
  /\ UNCHANGED <<table, spans, tlb, tlbw, journal>>

\* host_ptr_slow: f is where page p is, or is from now on.
Found(p, f) ==
  \/ Resolve(p) = f /\ UNCHANGED table
  \/ Resolve(p) = Reserved /\ f \in Free /\ table' = [table EXCEPT ![p] = f]

Journaled(p) ==
  journal' = IF p \in DOMAIN journal THEN journal
             ELSE [q \in DOMAIN journal \cup {p} |-> IF q = p THEN Content(p) ELSE journal[q]]

SlowRead(p, f) ==
  /\ ~Cached(tlb, p) /\ Found(p, f)
  /\ tlb' = Fill(tlb, p, f) /\ UNCHANGED <<spans, tlbw, journal>>

SlowWrite(p, f) ==
  /\ ~Cached(tlbw, p) /\ Found(p, f)
  /\ IF journaling THEN Journaled(p) /\ UNCHANGED tlbw
                   ELSE tlbw' = Fill(tlbw, p, f) /\ UNCHANGED journal
  /\ UNCHANGED <<spans, tlb>>

Reading(p, f) == Hit(tlb, p, f) \/ SlowRead(p, f)
Writing(p, f) == Hit(tlbw, p, f) \/ SlowWrite(p, f)

Read(p) ==
  /\ phase # "differs" /\ phase # "undo"
  /\ \E f \in Frames :
       /\ Reading(p, f)
       /\ host' = IF table' = table THEN host ELSE [host EXCEPT ![f] = Zero]
       /\ seen' = IF phase = "off" THEN <<p, host'[f]>> ELSE <<>>
  /\ UNCHANGED <<journaling, verifier>>

\* write: zeros over the whole of a page that has never been touched are left out.
Unbacked(p) == table[p] = Reserved
Write(p, v, whole) ==
  /\ phase # "differs" /\ phase # "undo"
  /\ IF whole /\ v = Zero /\ Unbacked(p)
     THEN UNCHANGED <<memory, journal>>
     ELSE \E f \in Frames : Writing(p, f) /\ host' = [host EXCEPT ![f] = v]
  /\ seen' = IF phase = "off" THEN <<p, v>> ELSE <<>>
  /\ UNCHANGED <<journaling, verifier>>

\* An outside caller writes through a pointer into a span (host_span).
HostWrite(p, v) ==
  /\ Idle /\ InSpan(p)
  /\ host' = [host EXCEPT ![Resolve(p)] = v]
  /\ seen' = <<p, v>> /\ UNCHANGED <<table, spans, tlb, tlbw>>

\* A fault leaves the verifier, if it is at work, with what has been written.
Fault(p) ==
  /\ phase # "differs" /\ phase # "undo"
  /\ ~Cached(tlb, p) /\ ~Cached(tlbw, p) /\ Resolve(p) = Absent
  /\ Over /\ phase' = "off"
  /\ seen' = IF phase = "off" THEN <<p, Absent>> ELSE <<>>
  /\ UNCHANGED memory

----------------------------------------------------------------------------
(* run_verified.                                                            *)

\* Mutant: the write cache is left as it is.
JournalBegin_KeepsCache == journal' = Nothing /\ journaling' = TRUE /\ UNCHANGED tlbw

\* journal_begin
JournalBegin == journal' = Nothing /\ journaling' = TRUE /\ tlbw' = Empty

RunTranslated ==
  /\ phase = "off" /\ phase' = "translated"
  /\ JournalBegin
  /\ before' = Contents
  /\ seen' = <<>> /\ UNCHANGED <<table, spans, host, tlb, kept, result, after>>

\* The first run is over.  Its pages are saved and put back one by one.
TakeResult ==
  /\ phase = "translated" /\ phase' = "undo"
  /\ journaling' = FALSE /\ kept' = journal
  /\ result' = Nothing
  /\ after' = Contents
  /\ UNCHANGED <<memory, journal, before, seen>>

PutBack(p) ==
  /\ phase = "undo" /\ p \in DOMAIN kept \ DOMAIN result
  /\ \E f \in Frames :
       /\ Reading(p, f)
       /\ result' = [q \in DOMAIN result \cup {p} |-> IF q = p THEN host[f] ELSE result[q]]
       /\ host' = [host EXCEPT ![f] = kept[p]]
  /\ UNCHANGED <<journaling, phase, kept, before, after, seen>>

RunInterpreted ==
  /\ phase = "undo" /\ DOMAIN result = DOMAIN kept /\ phase' = "interpreted"
  /\ JournalBegin
  /\ UNCHANGED <<table, spans, host, tlb, kept, result, before, after, seen>>

\* Pages the first run wrote, against what it left; those only the second wrote,
\* against what they held.
Differing ==
  {p \in DOMAIN result : result[p] # Content(p)} \cup
  {p \in DOMAIN journal \ DOMAIN result : journal[p] # Content(p)}

Compare ==
  /\ phase = "interpreted" /\ Over
  /\ phase' = IF Differing = {} THEN "off" ELSE "differs"
  /\ UNCHANGED <<memory, seen>>

----------------------------------------------------------------------------
Init ==
  /\ table = [p \in Pages |-> Absent] /\ spans = {}
  /\ host = [f \in Frames |-> Zero]
  /\ tlb = Empty /\ tlbw = Empty
  /\ journal = Nothing /\ journaling = FALSE
  /\ phase = "off" /\ kept = Nothing /\ result = Nothing
  /\ before = Nowhere /\ after = Nowhere
  /\ seen = <<>>

Next ==
  \/ \E S \in Ranges : Map(S) \/ Unmap(S) \/ MapContiguous(S)
  \/ \E p \in Pages : Read(p) \/ Fault(p) \/ PutBack(p)
  \/ \E p \in Pages, v \in Values : HostWrite(p, v) \/ \E whole \in BOOLEAN : Write(p, v, whole)
  \/ RunTranslated \/ TakeResult \/ RunInterpreted \/ Compare

Spec == Init /\ [][Next]_vars

----------------------------------------------------------------------------
\* An entry of either cache leads to the memory its page has now, whatever was
\* mapped, dropped and mapped again since; and no write goes past an open journal
\* (host_ptr, unmap, journal_begin).
CachesCohere ==
  /\ \A p \in Pages : /\ Cached(tlb, p) => tlb[SlotOf[p]].host = Resolve(p)
                      /\ Cached(tlbw, p) => tlbw[SlotOf[p]].host = Resolve(p)
  /\ journaling => \A p \in Pages : ~Cached(tlbw, p)

\* Both runs of a verified block begin with the same memory, and a difference is
\* reported exactly when they leave a different one (run_verified).
VerdictIsExact ==
  /\ phase = "undo" /\ DOMAIN result = DOMAIN kept => Contents = before
  /\ phase = "interpreted" => (Differing = {} <=> Contents = after)

\* The guest sees a flat memory; while a block is verified it is as it was before.
Flat == INSTANCE FlatMemory WITH
  cell <- IF phase \in {"off", "differs"} THEN Contents ELSE before
MemoryIsFlat == Flat!Spec

=============================================================================
