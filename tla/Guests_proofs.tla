---------------------------- MODULE Guests_proofs ----------------------------
(***************************************************************************)
(* Proofs about what surrounds a guest's code: the exceptions that cross   *)
(* its frames (Unwinding), the libraries it loads (Modules), what it       *)
(* writes (GuestOutput) and the pages it is given (PageAllocator).         *)
(***************************************************************************)
EXTENDS PageAllocator, Unwinding, Modules, GuestOutput, WellFoundedInduction, SequenceTheorems, FiniteSetTheorems, TLAPS

-----------------------------------------------------------------------------
(* Facts about numbers and sequences.                                      *)

(* A set of numbers between 1 and n that is not empty has a greatest. *)
LEMMA GreatestExists ==
  ASSUME NEW n \in Nat, NEW R \in SUBSET (1..n), R # {}
  PROVE  \E g \in R : \A h \in R : h <= g
<1> DEFINE T == {n - g : g \in R}
<1>1. T \subseteq Nat
  <2> SUFFICES ASSUME NEW g \in R PROVE n - g \in Nat
    OBVIOUS
  <2> QED
    OBVIOUS
<1>0. T # {}
  OBVIOUS
<1>2. PICK x \in T : \A y \in T : ~(<<y, x>> \in OpToRel(<, Nat))
  BY <1>0, <1>1, NatLessThanWellFounded, WFMin
<1>3. PICK g \in R : x = n - g
  BY <1>2
<1>4. ASSUME NEW h \in R PROVE h <= g
  <2>1. n - h \in T /\ n - h \in Nat /\ x \in Nat
    BY <1>1, <1>2
  <2>2. ~(n - h < x)
    BY <1>2, <2>1 DEF OpToRel
  <2> QED
    BY <1>3, <2>2
<1> QED
  BY <1>4

-----------------------------------------------------------------------------
(* Exceptions.  The stack is well-typed and a frame inside __try blocks is *)
(* registered; the chain is headed by the innermost registration unless it *)
(* is being unwound; in a 32-bit guest the frames that have been unwound   *)
(* have run their __finally blocks once and the others have not; all that  *)
(* the search has been past has declined; an unwinding is between the      *)
(* frame that raised and the one that took the exception.                  *)

Scopes == [what : {"finally", "except"}, ran : {0, 1, 2}]
Activations == [root : BOOLEAN, reg : BOOLEAN, tries : Seq(Scopes)]

FramesType == frames \in Seq(Activations) /\ frames # <<>>

TriesAreRegistered == \A f \in 1..Depth : Tries(f) # <<>> => frames[f].reg

HeadIsInnermost == bits = 32 /\ pass # "unwind" /\ ended # "stray" => head = RegAt(Depth)

Ran(f, n) == \A i \in 1..Len(Tries(f)) : Tries(f)[i].what = "finally" => Tries(f)[i].ran = n
Unwound(f) == pass = "unwind" /\ f > at

RunsAreCounted ==
  bits = 32 =>
    /\ runs \subseteq {1}
    /\ \A f \in 1..Depth : Ran(f, IF Unwound(f) THEN 1 ELSE 0)

Offered(f, n) == \A i \in 1..n : Tries(f)[i].what = "except" => <<f, i>> \in asked

SearchIsComplete ==
  pass = "search" =>
    /\ origin = Depth /\ at \in 0..Depth /\ scope \in Nat \ {0}
    /\ \A f \in at + 1..Depth : Offered(f, Len(Tries(f)))
    /\ at > 0 => scope <= Len(Tries(at)) + 1 /\ Offered(at, scope - 1)

UnwindIsBetween ==
  pass = "unwind" =>
    /\ goal[1] \in 1..Depth /\ goal[2] \in 0..Len(Tries(goal[1]))
    /\ at \in goal[1]..Depth
    /\ bits = 32 => head = at /\ frames[goal[1]].reg /\ frames[at].reg

UnwindInv ==
  /\ bits \in {32, 64} /\ pass \in {"none", "search", "unwind"}
  /\ FramesType /\ TriesAreRegistered /\ HeadIsInnermost /\ RunsAreCounted
  /\ SearchIsComplete /\ UnwindIsBetween /\ UnhandledWasOffered

(* What a stack is made of. *)
LEMMA StackType ==
  ASSUME NEW fs \in Seq(Activations)
  PROVE  /\ Len(fs) \in Nat
         /\ \A f \in 1..Len(fs) : /\ fs[f] \in Activations
                                  /\ fs[f].tries \in Seq(Scopes)
                                  /\ Len(fs[f].tries) \in Nat
<1>1. \A f \in 1..Len(fs) : fs[f] \in Activations
  BY ElementOfSeq
<1>2. \A a \in Activations : a.tries \in Seq(Scopes) /\ Len(a.tries) \in Nat
  BY LenProperties DEF Activations
<1> QED
  BY <1>1, <1>2, LenProperties

LEMMA StackIsThere ==
  ASSUME FramesType
  PROVE  /\ Depth \in Nat /\ Depth >= 1
         /\ \A f \in 1..Depth : /\ frames[f] \in Activations
                                /\ Tries(f) \in Seq(Scopes)
                                /\ Len(Tries(f)) \in Nat
BY StackType, EmptySeq DEF FramesType, Depth, Tries

(* The nearest registration at frame n of a stack or outside it. *)
Nearest(fs, n) == LET R == {g \in 1..n : fs[g].reg} IN IF R = {} THEN 0 ELSE CHOOSE g \in R : \A h \in R : h <= g

(* It is registered, none is nearer, and 0 says there is none. *)
LEMMA NearestIsNearest ==
  ASSUME NEW fs, NEW n \in Nat
  PROVE  /\ Nearest(fs, n) \in 0..n
         /\ Nearest(fs, n) > 0 => fs[Nearest(fs, n)].reg
         /\ \A g \in Nearest(fs, n) + 1..n : ~fs[g].reg
<1> DEFINE R == {g \in 1..n : fs[g].reg}
<1>1. CASE R = {}
  BY <1>1 DEF Nearest
<1>2. CASE R # {}
  <2>1. \E g \in R : \A h \in R : h <= g
    BY <1>2, GreatestExists
  <2>2. Nearest(fs, n) = CHOOSE g \in R : \A h \in R : h <= g
    BY <1>2 DEF Nearest
  <2>3. Nearest(fs, n) \in R /\ \A h \in R : h <= Nearest(fs, n)
    BY <2>1, <2>2
  <2> QED
    BY <2>3
<1> QED
  BY <1>1, <1>2

(* That says which it is. *)
LEMMA WhichIsNearest ==
  ASSUME NEW fs, NEW n \in Nat, NEW r \in 0..n, r > 0 => fs[r].reg,
         \A g \in r + 1..n : ~fs[g].reg
  PROVE  r = Nearest(fs, n)
<1>1. /\ Nearest(fs, n) \in 0..n
      /\ Nearest(fs, n) > 0 => fs[Nearest(fs, n)].reg
      /\ \A g \in Nearest(fs, n) + 1..n : ~fs[g].reg
  BY NearestIsNearest
<1> QED
  BY <1>1

LEMMA RegAtIsNearest ==
  /\ \A n : RegAt(n) = Nearest(frames, n)
  /\ RegAt(Depth)' = Nearest(frames', Len(frames'))
BY DEF RegAt, Nearest, Depth

(* Running __finally blocks changes how often they have run, and nothing else. *)
LEMMA RunFinallyCounts ==
  ASSUME FramesType, NEW f \in 1..Depth, NEW I \in SUBSET (1..Len(Tries(f)))
  PROVE  LET all == RunFinally(f, I)
         IN  /\ all \in Seq(Activations) /\ Len(all) = Depth
             /\ \A g \in 1..Depth : /\ g # f => all[g] = frames[g]
                                    /\ all[g].root = frames[g].root /\ all[g].reg = frames[g].reg
             /\ Len(all[f].tries) = Len(Tries(f))
             /\ \A i \in 1..Len(Tries(f)) :
                  /\ all[f].tries[i].what = Tries(f)[i].what
                  /\ all[f].tries[i].ran = IF i \in I /\ Tries(f)[i].what = "finally"
                                           THEN Often(Tries(f)[i].ran) ELSE Tries(f)[i].ran
<1> DEFINE new == [i \in 1..Len(Tries(f)) |->
                     IF i \in I /\ Tries(f)[i].what = "finally" THEN [Tries(f)[i] EXCEPT !.ran = Often(@)] ELSE Tries(f)[i]]
           all == RunFinally(f, I)
<1>1. Depth \in Nat /\ frames[f] \in Activations /\ Tries(f) \in Seq(Scopes) /\ Len(Tries(f)) \in Nat
  BY StackIsThere
<1>2. \A i \in 1..Len(Tries(f)) : Tries(f)[i] \in Scopes
  BY <1>1
<1>3. \A i \in 1..Len(Tries(f)) :
        /\ new[i] \in Scopes /\ new[i].what = Tries(f)[i].what
        /\ new[i].ran = IF i \in I /\ Tries(f)[i].what = "finally" THEN Often(Tries(f)[i].ran) ELSE Tries(f)[i].ran
  BY <1>2 DEF Often, Scopes
<1>4. new \in Seq(Scopes) /\ Len(new) = Len(Tries(f))
  BY <1>1, <1>3
<1>5. all = RunFinally(f, I) /\ all = [frames EXCEPT ![f].tries = new]
  BY DEF RunFinally
<1> HIDE DEF new, all
<1>6. [frames[f] EXCEPT !.tries = new] \in Activations
  BY <1>1, <1>4 DEF Activations
<1>7. /\ all \in Seq(Activations) /\ Len(all) = Depth
      /\ \A g \in 1..Depth : all[g] = IF g = f THEN [frames[f] EXCEPT !.tries = new] ELSE frames[g]
  <2> DEFINE e == [frames[f] EXCEPT !.tries = new]
  <2>1. all = [frames EXCEPT ![f] = e]
    BY <1>5
  <2> HIDE DEF e
  <2>2. e \in Activations
    BY <1>6 DEF e
  <2>3. all \in Seq(Activations) /\ Len(all) = Len(frames) /\ \A g \in 1..Len(frames) : all[g] = IF g = f THEN e ELSE frames[g]
    BY <2>1, <2>2, ExceptSeq DEF FramesType, Depth
  <2> QED
    BY <2>3 DEF e, Depth
<1>8. all[f].tries = new /\ all[f].root = frames[f].root /\ all[f].reg = frames[f].reg
  BY <1>1, <1>7 DEF Activations
<1> QED
  BY <1>3, <1>4, <1>5, <1>7, <1>8

(* A new frame, around which nothing is being looked for. *)
LEMMA NewFrame ==
  ASSUME NEW root \in BOOLEAN, NEW blocks \in TryBlocks
  PROVE  /\ Frame(root, blocks) \in Activations
         /\ Frame(root, blocks).reg <=> blocks # <<>>
         /\ Frame(root, blocks).tries # <<>> => blocks # <<>>
         /\ \A i \in 1..Len(Frame(root, blocks).tries) : Frame(root, blocks).tries[i].ran = 0
<1> DEFINE tries == [i \in 1..Len(blocks) |-> [what |-> blocks[i], ran |-> 0]]
<1>1. blocks \in Seq({"finally", "except"}) /\ Len(blocks) \in Nat
  <2>1. CASE blocks = <<>>
    BY <2>1
  <2>2. CASE blocks = <<"finally">>
    BY <2>2
  <2>3. CASE blocks = <<"except">>
    BY <2>3
  <2>4. CASE blocks = <<"except", "finally">>
    BY <2>4
  <2>5. CASE blocks = <<"finally", "except">>
    BY <2>5
  <2> QED
    BY <2>1, <2>2, <2>3, <2>4, <2>5 DEF TryBlocks
<1>2. \A i \in 1..Len(blocks) : [what |-> blocks[i], ran |-> 0] \in Scopes
  BY <1>1, ElementOfSeq DEF Scopes
<1>3. tries \in Seq(Scopes) /\ Len(tries) = Len(blocks)
  BY <1>1, <1>2
<1>4. blocks = <<>> => tries = <<>>
  BY <1>3, EmptySeq
<1>5. Frame(root, blocks) = [root |-> root, reg |-> blocks # <<>>, tries |-> tries]
  BY DEF Frame
<1>6. \A i \in 1..Len(tries) : tries[i].ran = 0
  BY <1>1, <1>3
<1> HIDE DEF tries
<1>7. Frame(root, blocks) \in Activations
  BY <1>3, <1>5 DEF Activations
<1>8. Frame(root, blocks).reg = (blocks # <<>>) /\ Frame(root, blocks).tries = tries
  BY <1>5
<1> QED
  BY <1>4, <1>6, <1>7, <1>8

LEMMA PushedKeeps ==
  ASSUME UnwindInv, Runs, Quiet, UNCHANGED <<runs, ended>>,
         NEW root \in BOOLEAN, NEW blocks \in TryBlocks,
         frames' = Append(frames, Frame(root, blocks)),
         head' = IF bits = 32 /\ blocks # <<>> THEN Depth + 1 ELSE head
  PROVE  UnwindInv'
<1> DEFINE new == Frame(root, blocks)
<1>1. /\ new \in Activations /\ (new.reg <=> blocks # <<>>) /\ (new.tries # <<>> => blocks # <<>>)
      /\ \A i \in 1..Len(new.tries) : new.tries[i].ran = 0
  BY NewFrame
<1> HIDE DEF new
<1>2. /\ Depth \in Nat /\ Depth >= 1
      /\ \A f \in 1..Depth : frames[f] \in Activations /\ Tries(f) \in Seq(Scopes) /\ Len(Tries(f)) \in Nat
  BY StackIsThere DEF UnwindInv
<1>3. frames' = Append(frames, new)
  BY DEF new
<1>4. /\ frames' \in Seq(Activations) /\ Len(frames') = Depth + 1
      /\ \A f \in 1..Depth : frames'[f] = frames[f]
      /\ frames'[Depth + 1] = new
  BY <1>1, <1>3, AppendProperties DEF UnwindInv, FramesType, Depth
<1>5. FramesType' /\ TriesAreRegistered'
  BY <1>1, <1>2, <1>4, EmptySeq DEF UnwindInv, FramesType, TriesAreRegistered, Tries, Depth
<1>6. HeadIsInnermost'
  <2> SUFFICES ASSUME bits = 32 PROVE head' = Nearest(frames', Depth + 1)
    BY <1>4, RegAtIsNearest DEF HeadIsInnermost, Quiet
  <2>1. head = Nearest(frames, Depth)
    BY RegAtIsNearest DEF UnwindInv, HeadIsInnermost, Runs
  <2>2. /\ head \in 0..Depth /\ (head > 0 => frames[head].reg)
        /\ \A g \in head + 1..Depth : ~frames[g].reg
    BY <1>2, <2>1, NearestIsNearest
  <2>3. /\ head' \in 0..Depth + 1 /\ (head' > 0 => frames'[head'].reg)
        /\ \A g \in head' + 1..Depth + 1 : ~frames'[g].reg
    BY <1>1, <1>2, <1>4, <2>2
  <2> DEFINE r == head'
             n == Depth + 1
  <2>4. n \in Nat
    BY <1>2
  <2>6. r \in 0..n /\ (r > 0 => frames'[r].reg) /\ \A g \in r + 1..n : ~frames'[g].reg
    BY <2>3, Zenon
  <2> HIDE DEF r, n
  <2>5. r = Nearest(frames', n)
    BY <2>4, <2>6, WhichIsNearest
  <2> QED
    BY <2>5 DEF r, n
<1>7. RunsAreCounted'
  BY <1>1, <1>2, <1>4 DEF UnwindInv, RunsAreCounted, Ran, Unwound, Tries, Depth, Runs, Quiet, search
<1> QED
  BY <1>5, <1>6, <1>7 DEF UnwindInv, Quiet, Runs, search, SearchIsComplete, UnwindIsBetween, UnhandledWasOffered

(* Leaving the innermost block runs its __finally for the first time. *)
LEMMA LeaveTryKeeps == ASSUME UnwindInv, LeaveTry PROVE UnwindInv'
<1> USE DEF LeaveTry
<1>2. /\ Depth \in Nat /\ Depth >= 1
      /\ \A f \in 1..Depth : frames[f] \in Activations /\ Tries(f) \in Seq(Scopes) /\ Len(Tries(f)) \in Nat
  BY StackIsThere DEF UnwindInv
<1> DEFINE new == [frames[Depth] EXCEPT !.tries = Tail(@)]
<1>3. frames' = [frames EXCEPT ![Depth] = new] /\ frames[Depth].tries # <<>>
  BY DEF Tries
<1>4. /\ new \in Activations /\ new.reg = frames[Depth].reg /\ Len(new.tries) = Len(frames[Depth].tries) - 1
      /\ \A i \in 1..Len(new.tries) : new.tries[i] = frames[Depth].tries[i + 1]
  <2>1. /\ frames[Depth].tries \in Seq(Scopes) /\ frames[Depth].tries # <<>>
        /\ frames[Depth] \in Activations
    BY <1>2, <1>3 DEF Tries
  <2>2. /\ Tail(frames[Depth].tries) \in Seq(Scopes)
        /\ Len(Tail(frames[Depth].tries)) = Len(frames[Depth].tries) - 1
        /\ \A i \in 1..Len(Tail(frames[Depth].tries)) : Tail(frames[Depth].tries)[i] = frames[Depth].tries[i + 1]
    BY <2>1, HeadTailProperties
  <2> QED
    BY <2>1, <2>2 DEF Activations
<1> HIDE DEF new
<1>5. /\ frames' \in Seq(Activations) /\ Len(frames') = Depth
      /\ \A f \in 1..Depth : frames'[f] = IF f = Depth THEN new ELSE frames[f]
  <2>1. frames \in Seq(Activations) /\ Depth \in 1..Len(frames) /\ Depth = Len(frames)
    BY <1>2 DEF UnwindInv, FramesType, Depth
  <2>2. new \in Activations /\ frames' = [frames EXCEPT ![Depth] = new]
    BY <1>3, <1>4
  <2> DEFINE d == Depth
             fs == [frames EXCEPT ![d] = new]
  <2> HIDE DEF d
  <2>3. d \in 1..Len(frames) /\ d = Len(frames)
    BY <2>1 DEF d
  <2>4. fs \in Seq(Activations) /\ Len(fs) = Len(frames) /\ \A f \in 1..Len(frames) : fs[f] = IF f = d THEN new ELSE frames[f]
    BY <2>1, <2>2, <2>3, ExceptSeq
  <2> QED
    BY <2>2, <2>3, <2>4, <2>1 DEF d
<1>6. FramesType' /\ TriesAreRegistered'
  BY <1>2, <1>3, <1>4, <1>5, EmptySeq DEF UnwindInv, FramesType, TriesAreRegistered, Tries, Depth
<1>7. HeadIsInnermost'
  <2> SUFFICES ASSUME bits = 32 PROVE head' = Nearest(frames', Depth)
    BY <1>5, RegAtIsNearest DEF HeadIsInnermost, Quiet
  <2>1. head = Nearest(frames, Depth)
    BY RegAtIsNearest DEF UnwindInv, HeadIsInnermost, Runs
  <2>2. /\ head \in 0..Depth /\ (head > 0 => frames[head].reg)
        /\ \A g \in head + 1..Depth : ~frames[g].reg
    BY <1>2, <2>1, NearestIsNearest
  <2> DEFINE r == head'
             n == Depth
  <2>4. r \in 0..n /\ n \in Nat /\ (r > 0 => frames'[r].reg) /\ \A g \in r + 1..n : ~frames'[g].reg
    BY <1>2, <1>4, <1>5, <2>2
  <2> HIDE DEF r, n
  <2>5. r = Nearest(frames', n)
    BY <2>4, WhichIsNearest
  <2> QED
    BY <2>5 DEF r, n
<1>8. RunsAreCounted'
  <2> SUFFICES ASSUME bits = 32 PROVE runs' \subseteq {1} /\ \A f \in 1..Depth : Ran(f, 0)'
    BY <1>5 DEF RunsAreCounted, Quiet, Runs, search, Unwound, Depth
  <2>1. runs \subseteq {1} /\ \A f \in 1..Depth : Ran(f, 0)
    BY DEF UnwindInv, RunsAreCounted, Unwound, Runs
  <2>2. Counts({<<Depth, 1>>}) \subseteq {0}
    <3>1. 1 \in 1..Len(Tries(Depth))
      BY <1>2, <1>3, EmptySeq DEF Tries
    <3> QED
      BY <1>2, <2>1, <3>1 DEF Counts, Ran, Tries
  <2>3. ASSUME NEW f \in 1..Depth, NEW i \in 1..Len(Tries(f)'), Tries(f)'[i].what = "finally"
        PROVE  Tries(f)'[i].ran = 0
    <3>1. CASE f = Depth
      <4>1. Tries(f)' = new.tries
        BY <1>5, <3>1 DEF Tries
      <4>2. Len(Tries(Depth)) \in Nat /\ Len(new.tries) = Len(Tries(Depth)) - 1
        BY <1>2, <1>4 DEF Tries
      <4>3. i + 1 \in 1..Len(Tries(Depth)) /\ new.tries[i] = Tries(Depth)[i + 1]
        <5>1. i \in 1..Len(new.tries)
          BY <4>1
        <5>2. new.tries[i] = frames[Depth].tries[i + 1]
          BY <1>4, <5>1
        <5>3. i + 1 \in 1..Len(Tries(Depth))
          BY <4>2, <5>1
        <5> QED
          BY <5>2, <5>3 DEF Tries
      <4> QED
        BY <1>2, <2>1, <2>3, <4>1, <4>3 DEF Ran
    <3>2. CASE f # Depth
      BY <1>5, <2>1, <2>3, <3>2 DEF Ran, Tries
    <3> QED
      BY <3>1, <3>2
  <2> QED
    BY <2>1, <2>2, <2>3 DEF Often, Ran
<1> QED
  BY <1>6, <1>7, <1>8 DEF UnwindInv, Quiet, Runs, search, SearchIsComplete, UnwindIsBetween, UnhandledWasOffered

(* The frames that are left when the stack is cut. *)
LEMMA CutStack ==
  ASSUME NEW fs \in Seq(Activations), NEW n \in 1..Len(fs)
  PROVE  /\ SubSeq(fs, 1, n) \in Seq(Activations) /\ Len(SubSeq(fs, 1, n)) = n
         /\ \A f \in 1..n : SubSeq(fs, 1, n)[f] = fs[f]
<1>1. n \in Int /\ 1 <= n /\ \A i \in 1..n : fs[i] \in Activations
  BY StackType
<1>2. /\ SubSeq(fs, 1, n) \in Seq(Activations)
      /\ Len(SubSeq(fs, 1, n)) = IF 1 <= n THEN n - 1 + 1 ELSE 0
      /\ \A i \in 1..n - 1 + 1 : SubSeq(fs, 1, n)[i] = fs[1 + i - 1]
  BY <1>1, SubSeqProperties
<1> QED
  BY <1>1, <1>2

LEMMA ReturnKeeps == ASSUME UnwindInv, Return PROVE UnwindInv'
<1> USE DEF Return
<1>1. /\ Depth \in Nat /\ Depth > 1
      /\ \A f \in 1..Depth : frames[f] \in Activations /\ Tries(f) \in Seq(Scopes) /\ Len(Tries(f)) \in Nat
  BY StackIsThere DEF UnwindInv
<1> DEFINE n == Depth - 1
<1>2. n \in 1..Len(frames) /\ frames \in Seq(Activations)
  BY <1>1 DEF UnwindInv, FramesType, Depth
<1>3. /\ frames' \in Seq(Activations) /\ Len(frames') = n
      /\ \A f \in 1..n : frames'[f] = frames[f]
  BY <1>2, CutStack DEF Kept
<1>4. FramesType' /\ TriesAreRegistered'
  BY <1>1, <1>3, EmptySeq DEF UnwindInv, FramesType, TriesAreRegistered, Tries, Depth
<1>5. HeadIsInnermost'
  <2> SUFFICES ASSUME bits = 32 PROVE head' = Nearest(frames', n)
    BY <1>3, RegAtIsNearest DEF HeadIsInnermost, Quiet
  <2>1. Nearest(frames, n) = Nearest(frames', n)
    <3>1. /\ Nearest(frames, n) \in 0..n
          /\ Nearest(frames, n) > 0 => frames[Nearest(frames, n)].reg
          /\ \A g \in Nearest(frames, n) + 1..n : ~frames[g].reg
      BY <1>1, NearestIsNearest
    <3> DEFINE r == Nearest(frames, n)
    <3>2. r \in 0..n /\ n \in Nat
      BY <1>1, <3>1
    <3>3. r > 0 => frames'[r].reg
      BY <1>3, <3>1
    <3>4. \A g \in r + 1..n : ~frames'[g].reg
      BY <1>3, <3>1
    <3> HIDE DEF r, n
    <3> QED
      BY <3>2, <3>3, <3>4, WhichIsNearest DEF r
  <2>2. CASE frames[Depth].reg
    BY <2>1, <2>2, RegAtIsNearest
  <2>3. CASE ~frames[Depth].reg
    <3>1. head = Nearest(frames, Depth) /\ head' = head
      BY <2>3, RegAtIsNearest DEF UnwindInv, HeadIsInnermost, Runs
    <3>2. /\ head \in 0..Depth /\ (head > 0 => frames[head].reg)
          /\ \A g \in head + 1..Depth : ~frames[g].reg
      BY <1>1, <3>1, NearestIsNearest
    <3>3. head \in 0..n /\ n \in Nat
      BY <1>1, <2>3, <3>2
    <3>4. \A g \in head + 1..n : ~frames[g].reg
      BY <1>1, <3>2
    <3>5. head = Nearest(frames, n)
      <4> HIDE DEF n
      <4> QED
        BY <3>2, <3>3, <3>4, WhichIsNearest
    <3> QED
      BY <2>1, <3>1, <3>5
  <2> QED
    BY <2>2, <2>3
<1>6. RunsAreCounted'
  <2>1. \A f \in 1..n : Tries(f)' = Tries(f) /\ f \in 1..Depth
    BY <1>1, <1>3 DEF Tries
  <2>2. Depth' = n /\ \A f : ~Unwound(f)'
    BY <1>3 DEF Depth, Unwound, Runs, Quiet, search
  <2>3. \A f : ~Unwound(f)
    BY DEF Unwound, Runs
  <2> QED
    BY <2>1, <2>2, <2>3 DEF UnwindInv, RunsAreCounted, Ran, Quiet
<1> QED
  BY <1>4, <1>5, <1>6 DEF UnwindInv, Quiet, Runs, search, SearchIsComplete, UnwindIsBetween, UnhandledWasOffered

(* A frame that is not registered is inside no block. *)
LEMMA NoTries ==
  ASSUME TriesAreRegistered, NEW f \in 1..Depth, ~frames[f].reg
  PROVE  Tries(f) = <<>>
BY DEF TriesAreRegistered

(* As long as the stack stands and is not being unwound. *)
LEMMA StackStands ==
  ASSUME UnwindInv, UNCHANGED <<bits, frames, head, runs>>, ended = "no", pass # "unwind", pass' # "unwind"
  PROVE  FramesType' /\ TriesAreRegistered' /\ HeadIsInnermost' /\ RunsAreCounted'
<1>1. FramesType' /\ TriesAreRegistered'
  BY DEF UnwindInv, FramesType, TriesAreRegistered, Tries, Depth
<1>2. HeadIsInnermost'
  <2>1. RegAt(Depth)' = RegAt(Depth)
    BY DEF Depth, RegAt
  <2> QED
    BY <2>1 DEF UnwindInv, HeadIsInnermost
<1>3. RunsAreCounted'
  <2>1. Depth' = Depth /\ \A f, n : Ran(f, n)' = Ran(f, n)
    BY DEF Depth, Ran, Tries
  <2> QED
    BY <2>1 DEF UnwindInv, RunsAreCounted, Unwound
<1> QED
  BY <1>1, <1>2, <1>3

(* The search begins with the frames that can have handlers. *)
LEMMA BeginKeeps ==
  ASSUME UnwindInv, Runs, NEW f, f = (IF bits = 64 THEN Depth ELSE head), Begin(f)
  PROVE  UnwindInv'
<1> USE DEF Begin
<1>1. /\ Depth \in Nat /\ Depth >= 1
      /\ \A g \in 1..Depth : Tries(g) \in Seq(Scopes) /\ Len(Tries(g)) \in Nat
  BY StackIsThere DEF UnwindInv
<1>2. f \in 0..Depth /\ \A g \in f + 1..Depth : Tries(g) = <<>>
  <2>1. CASE bits = 64
    BY <1>1, <2>1
  <2>2. CASE bits # 64
    <3>1. f = Nearest(frames, Depth)
      BY <2>2, RegAtIsNearest DEF UnwindInv, HeadIsInnermost, Runs
    <3>2. f \in 0..Depth /\ \A g \in f + 1..Depth : ~frames[g].reg
      BY <1>1, <3>1, NearestIsNearest
    <3>3. \A g \in f + 1..Depth : g \in 1..Depth
      BY <1>1, <3>2
    <3> QED
      BY <3>2, <3>3, NoTries DEF UnwindInv
  <2> QED
    BY <2>1, <2>2
<1>3. FramesType' /\ TriesAreRegistered' /\ HeadIsInnermost' /\ RunsAreCounted'
  BY StackStands DEF Runs, guest
<1>4. SearchIsComplete'
  <2>1. \A g \in f + 1..Depth : Len(Tries(g)) = 0
    BY <1>2
  <2>2. Depth' = Depth /\ \A g : Tries(g)' = Tries(g)
    BY DEF guest, Depth, Tries
  <2>3. f > 0 => Len(Tries(f)) \in Nat
    BY <1>1, <1>2
  <2> QED
    BY <1>1, <1>2, <2>1, <2>2, <2>3 DEF SearchIsComplete, Offered
<1> QED
  BY <1>3, <1>4 DEF UnwindInv, Runs, guest, UnwindIsBetween, UnhandledWasOffered

LEMMA RaiseKeeps == ASSUME UnwindInv, Raise \/ Raise32 PROVE UnwindInv'
<1>1. CASE Raise
  BY <1>1, BeginKeeps DEF Raise
<1>2. CASE Raise32
  BY <1>2, BeginKeeps DEF Raise32
<1> QED
  BY <1>1, <1>2

(* Nobody is left to be asked. *)
LEMMA UnhandledKeeps == ASSUME UnwindInv, Unhandled PROVE UnwindInv'
<1> USE DEF Unhandled, Searching
<1>1. /\ Depth \in Nat /\ Depth >= 1 /\ \A g \in 1..Depth : Len(Tries(g)) \in Nat
  BY StackIsThere DEF UnwindInv
<1>2. FramesType' /\ TriesAreRegistered' /\ HeadIsInnermost' /\ RunsAreCounted'
  BY StackStands DEF guest, search
<1>3. /\ origin = Depth /\ at \in 0..Depth
      /\ \A f \in at + 1..Depth : Offered(f, Len(Tries(f)))
  BY DEF UnwindInv, SearchIsComplete
<1>4. ASSUME NEW f \in 1..origin, \A g \in f + 1..origin : ~frames[g].root
      PROVE  Offered(f, Len(Tries(f)))
  <2>1. f \in at + 1..Depth
    <3>1. CASE at = 0
      BY <1>1, <1>3, <3>1
    <3>2. CASE at < origin /\ frames[at + 1].root
      BY <1>1, <1>3, <1>4, <3>2
    <3> QED
      BY <3>1, <3>2
  <2> QED
    BY <1>3, <2>1
<1>5. UnhandledWasOffered'
  BY <1>4 DEF UnhandledWasOffered, Offered, guest, search, Tries
<1> QED
  BY <1>2, <1>5 DEF UnwindInv, SearchIsComplete, UnwindIsBetween, guest, search, Offered, Tries, Depth

(* A frame that has been asked everything is left for the next that can answer. *)
LEMMA MoveOnKeeps == ASSUME UnwindInv, NextFrame \/ NextRegistration PROVE UnwindInv'
<1>1. /\ Depth \in Nat /\ Depth >= 1
      /\ \A g \in 1..Depth : Tries(g) \in Seq(Scopes) /\ Len(Tries(g)) \in Nat
  BY StackIsThere DEF UnwindInv
<1> DEFINE f == IF bits = 64 THEN at - 1 ELSE RegAt(at - 1)
<1>2. MoveOn(f)
  BY DEF NextFrame, NextRegistration
<1>3. /\ origin = Depth /\ at \in 1..Depth /\ scope \in Nat \ {0}
      /\ \A g \in at + 1..Depth : Offered(g, Len(Tries(g)))
      /\ scope > Len(Tries(at)) /\ Offered(at, scope - 1)
  BY <1>2 DEF UnwindInv, SearchIsComplete, MoveOn, Searching
<1>4. f \in 0..at - 1 /\ \A g \in f + 1..at - 1 : Tries(g) = <<>>
  <2>1. CASE bits = 64
    BY <1>3, <2>1
  <2>2. CASE bits # 64
    <3>1. f = Nearest(frames, at - 1) /\ at - 1 \in Nat
      BY <1>3, <2>2, RegAtIsNearest
    <3>2. f \in 0..at - 1 /\ \A g \in f + 1..at - 1 : ~frames[g].reg
      BY <3>1, NearestIsNearest
    <3>3. \A g \in f + 1..at - 1 : g \in 1..Depth
      BY <1>1, <1>3, <3>2
    <3> QED
      BY <3>2, <3>3, NoTries DEF UnwindInv
  <2> QED
    BY <2>1, <2>2
<1> HIDE DEF f
<1>5. FramesType' /\ TriesAreRegistered' /\ HeadIsInnermost' /\ RunsAreCounted'
  BY <1>2, StackStands DEF MoveOn, Searching, guest
<1>6. \A g \in f + 1..Depth : Offered(g, Len(Tries(g)))
  <2> SUFFICES ASSUME NEW g \in f + 1..Depth, NEW i \in 1..Len(Tries(g)), Tries(g)[i].what = "except"
               PROVE  <<g, i>> \in asked
    BY DEF Offered
  <2>1. g \in f + 1..at - 1 \/ g = at \/ g \in at + 1..Depth
    BY <1>1, <1>3, <1>4
  <2>2. CASE g \in f + 1..at - 1
    BY <1>4, <2>2
  <2>3. CASE g = at
    BY <1>1, <1>3, <2>3 DEF Offered
  <2>4. CASE g \in at + 1..Depth
    BY <1>3, <2>4 DEF Offered
  <2> QED
    BY <2>1, <2>2, <2>3, <2>4
<1>7. SearchIsComplete'
  <2>1. Depth' = Depth /\ \A g : Tries(g)' = Tries(g)
    BY <1>2 DEF MoveOn, guest, Depth, Tries
  <2>2. f > 0 => Len(Tries(f)) \in Nat
    BY <1>1, <1>3, <1>4
  <2> QED
    BY <1>1, <1>2, <1>3, <1>4, <1>6, <2>1, <2>2 DEF SearchIsComplete, Offered, MoveOn
<1> QED
  BY <1>2, <1>5, <1>7 DEF MoveOn, Searching, UnwindInv, guest, UnwindIsBetween, UnhandledWasOffered

(* A block that does not take the exception is passed. *)
LEMMA PassKeeps == ASSUME UnwindInv, PassFinally \/ Decline \/ FilterExits PROVE UnwindInv'
<1>1. /\ Depth \in Nat /\ Depth >= 1
      /\ \A g \in 1..Depth : Tries(g) \in Seq(Scopes) /\ Len(Tries(g)) \in Nat
  BY StackIsThere DEF UnwindInv
<1>2. /\ Searching /\ at > 0 /\ scope <= Len(Tries(at))
      /\ UNCHANGED <<bits, guest, pass, at, goal, origin, runs, resumed>>
      /\ asked \subseteq asked' /\ (Tries(at)[scope].what = "except" => <<at, scope>> \in asked')
      /\ \/ scope' = scope + 1 /\ ended' = ended
         \/ scope' = scope /\ ended' = "exited"
  <2>1. CASE PassFinally
    BY <2>1 DEF PassFinally
  <2>2. CASE Decline
    BY <2>2 DEF Decline, AtFilter
  <2>3. CASE FilterExits
    BY <2>3 DEF FilterExits, AtFilter
  <2> QED
    BY <2>1, <2>2, <2>3
<1>3. /\ origin = Depth /\ at \in 1..Depth /\ scope \in Nat \ {0}
      /\ \A g \in at + 1..Depth : Offered(g, Len(Tries(g)))
      /\ Offered(at, scope - 1)
  BY <1>2 DEF UnwindInv, SearchIsComplete, Searching
<1>4. FramesType' /\ TriesAreRegistered' /\ HeadIsInnermost' /\ RunsAreCounted'
  BY <1>2, StackStands DEF Searching, guest
<1>5. SearchIsComplete'
  <2>1. Depth' = Depth /\ \A g : Tries(g)' = Tries(g)
    BY <1>2 DEF guest, Depth, Tries
  <2>2. Len(Tries(at)) \in Nat
    BY <1>1, <1>3
  <2>3. \A i \in 1..scope' - 1 : i \in 1..scope - 1 \/ i = scope
    BY <1>2, <1>3
  <2> QED
    BY <1>2, <1>3, <2>1, <2>2, <2>3 DEF SearchIsComplete, Offered
<1> QED
  BY <1>2, <1>4, <1>5 DEF Searching, UnwindInv, guest, UnwindIsBetween, UnhandledWasOffered

(* A filter has the guest go on where it was, or where the search has come to. *)
LEMMA DismissKeeps == ASSUME UnwindInv, Dismiss \/ Dismiss32 PROVE UnwindInv'
<1>1. /\ Depth \in Nat /\ Depth >= 1 /\ frames \in Seq(Activations) /\ Depth = Len(frames)
  BY StackIsThere DEF UnwindInv, FramesType, Depth
<1>2. CASE Dismiss32
  <2>1. FramesType' /\ TriesAreRegistered' /\ HeadIsInnermost' /\ RunsAreCounted'
    BY <1>2, StackStands DEF Dismiss32, AtFilter, Searching, guest, Rests, Idle
  <2> QED
    BY <1>2, <2>1 DEF Dismiss32, AtFilter, Searching, Rests, Idle, UnwindInv, SearchIsComplete, UnwindIsBetween, UnhandledWasOffered
<1>3. CASE Dismiss
  <2>1. at \in 1..Len(frames)
    BY <1>1, <1>3 DEF Dismiss, AtFilter, Searching, UnwindInv, SearchIsComplete
  <2>2. /\ frames' \in Seq(Activations) /\ Len(frames') = at
        /\ \A f \in 1..at : frames'[f] = frames[f]
    BY <1>1, <1>3, <2>1, CutStack DEF Dismiss, Kept
  <2>3. FramesType' /\ TriesAreRegistered'
    BY <1>1, <2>1, <2>2, EmptySeq DEF UnwindInv, FramesType, TriesAreRegistered, Tries, Depth
  <2>4. HeadIsInnermost' /\ RunsAreCounted'
    BY <1>3 DEF Dismiss, HeadIsInnermost, RunsAreCounted
  <2> QED
    BY <1>3, <2>3, <2>4 DEF Dismiss, AtFilter, Searching, Rests, Idle, UnwindInv, SearchIsComplete, UnwindIsBetween, UnhandledWasOffered
<1> QED
  BY <1>2, <1>3

(* A handler takes the exception: a 64-bit guest's frames have all to be       *)
(* unwound from where the search is, a 32-bit guest's from the innermost.      *)
LEMMA AcceptKeeps == ASSUME UnwindInv, Accept \/ Accept32 PROVE UnwindInv'
<1>1. /\ Depth \in Nat /\ Depth >= 1
      /\ \A g \in 1..Depth : Tries(g) \in Seq(Scopes) /\ Len(Tries(g)) \in Nat
  BY StackIsThere DEF UnwindInv
<1>2. AtFilter /\ UNCHANGED <<bits, frames, head, runs, ended>> /\ pass' = "unwind" /\ goal' = <<at, scope>>
  BY DEF Accept, Accept32, guest
<1>3. at \in 1..Depth /\ scope \in 1..Len(Tries(at)) /\ pass = "search" /\ ended = "no"
  BY <1>1, <1>2 DEF AtFilter, Searching, UnwindInv, SearchIsComplete
<1>4. Depth' = Depth /\ \A g : Tries(g)' = Tries(g)
  BY <1>2 DEF Depth, Tries
<1>5. FramesType' /\ TriesAreRegistered' /\ HeadIsInnermost'
  BY <1>2, <1>4 DEF UnwindInv, FramesType, TriesAreRegistered, HeadIsInnermost
<1>6. frames[at].reg
  BY <1>1, <1>3, NoTries DEF UnwindInv
<1>7. CASE Accept
  <2>1. bits = 64 /\ at' = at
    BY <1>7 DEF Accept
  <2> QED
    BY <1>2, <1>3, <1>4, <1>5, <2>1 DEF UnwindInv, RunsAreCounted, SearchIsComplete, UnwindIsBetween, UnhandledWasOffered
<1>8. CASE Accept32
  <2>1. bits = 32 /\ at' = head
    BY <1>8 DEF Accept32
  <2>2. head = Nearest(frames, Depth)
    BY <1>3, <2>1, RegAtIsNearest DEF UnwindInv, HeadIsInnermost
  <2>3. /\ head \in 0..Depth /\ (head > 0 => frames[head].reg)
        /\ \A g \in head + 1..Depth : ~frames[g].reg
    BY <1>1, <2>2, NearestIsNearest
  <2>4. head \in at..Depth /\ frames[head].reg
    BY <1>1, <1>3, <1>6, <2>3
  <2>5. RunsAreCounted'
    <3>1. runs \subseteq {1} /\ \A f \in 1..Depth : Ran(f, 0)
      BY <1>3, <2>1 DEF UnwindInv, RunsAreCounted, Unwound
    <3>2. \A f \in 1..Depth : f > head => Tries(f) = <<>>
      BY <1>1, <2>3, NoTries DEF UnwindInv
    <3>3. \A f \in 1..Depth : Ran(f, IF Unwound(f)' THEN 1 ELSE 0)
      BY <1>2, <2>1, <3>1, <3>2, EmptySeq DEF Ran, Unwound
    <3> QED
      BY <1>2, <1>4, <3>1, <3>3 DEF RunsAreCounted, Ran
  <2>6. UnwindIsBetween'
    BY <1>2, <1>3, <1>4, <1>6, <2>1, <2>4 DEF UnwindIsBetween
  <2> QED
    BY <1>2, <1>3, <1>4, <1>5, <2>5, <2>6 DEF UnwindInv, SearchIsComplete, UnhandledWasOffered
<1> QED
  BY <1>7, <1>8 DEF Accept, Accept32

(* A guest unwinds its own frames. *)
LEMMA UnwindToKeeps == ASSUME UnwindInv, NEW f \in 1..MaxFrames, UnwindTo(f) PROVE UnwindInv'
<1> USE DEF UnwindTo
<1>1. /\ Depth \in Nat /\ Depth >= 1
      /\ \A g \in 1..Depth : Tries(g) \in Seq(Scopes) /\ Len(Tries(g)) \in Nat
  BY StackIsThere DEF UnwindInv
<1>2. Depth' = Depth /\ (\A g : Tries(g)' = Tries(g)) /\ f \in 1..Depth /\ bits = 64
  BY <1>1 DEF guest, Depth, Tries
<1>3. FramesType' /\ TriesAreRegistered' /\ HeadIsInnermost' /\ RunsAreCounted'
  BY <1>2 DEF UnwindInv, FramesType, TriesAreRegistered, HeadIsInnermost, RunsAreCounted, guest
<1>4. UnwindIsBetween'
  BY <1>1, <1>2 DEF UnwindIsBetween
<1> QED
  BY <1>2, <1>3, <1>4 DEF UnwindInv, Runs, guest, SearchIsComplete, UnhandledWasOffered

(* A frame on the way to the handler is unwound. *)
LEMMA UnwindFrameKeeps == ASSUME UnwindInv, UnwindFrame PROVE UnwindInv'
<1> USE DEF UnwindFrame, Unwinding
<1>1. /\ goal[1] \in 1..Depth /\ goal[2] \in 0..Len(Tries(goal[1]))
      /\ at \in 1..Depth /\ at > goal[1] /\ Depth \in Nat /\ Depth >= 1
  BY StackIsThere DEF UnwindInv, UnwindIsBetween
<1>2. /\ frames' \in Seq(Activations) /\ Len(frames') = Depth
      /\ \A g \in 1..Depth : (g # at => frames'[g] = frames[g]) /\ frames'[g].reg = frames[g].reg
      /\ Len(frames'[at].tries) = Len(Tries(at))
  <2>1. 1..Len(Tries(at)) \in SUBSET (1..Len(Tries(at))) /\ FramesType
    BY DEF UnwindInv
  <2> QED
    BY <1>1, <2>1, RunFinallyCounts
<1>3. \A g \in 1..Depth : Tries(g) = <<>> => Tries(g)' = <<>>
  <2>1. \A g \in 1..Depth : Len(Tries(g)) = Len(Tries(g)') /\ Tries(g)' \in Seq(Scopes)
    BY <1>2, StackType DEF Tries
  <2> QED
    BY <2>1, EmptySeq
<1>4. FramesType' /\ TriesAreRegistered'
  <2>1. frames' # <<>> /\ Depth' = Depth
    BY <1>1, <1>2, EmptySeq DEF Depth
  <2>2. \A g \in 1..Depth : Tries(g)' # <<>> => frames'[g].reg
    BY <1>2, <1>3 DEF UnwindInv, TriesAreRegistered
  <2> QED
    BY <1>2, <2>1, <2>2 DEF FramesType, TriesAreRegistered
<1>5. HeadIsInnermost' /\ RunsAreCounted'
  BY DEF HeadIsInnermost, RunsAreCounted
<1>6. UnwindIsBetween'
  <2>1. Depth' = Depth /\ Tries(goal[1])' = Tries(goal[1])
    BY <1>1, <1>2 DEF Depth, Tries
  <2> QED
    BY <1>1, <1>2, <2>1 DEF UnwindIsBetween
<1> QED
  BY <1>4, <1>5, <1>6 DEF UnwindInv, SearchIsComplete, UnhandledWasOffered

(* A registration on the way is called and popped: what lies between it and    *)
(* the next has no blocks.                                                     *)
LEMMA PopKeeps == ASSUME UnwindInv, PopRegistration PROVE UnwindInv'
<1> USE DEF PopRegistration, Unwinding
<1>1. /\ goal[1] \in 1..Depth /\ goal[2] \in 0..Len(Tries(goal[1])) /\ frames[goal[1]].reg
      /\ at \in 1..Depth /\ at > goal[1] /\ Depth \in Nat /\ Depth >= 1
  BY StackIsThere DEF UnwindInv, UnwindIsBetween
<1>2. /\ frames' \in Seq(Activations) /\ Len(frames') = Depth
      /\ \A g \in 1..Depth : (g # at => frames'[g] = frames[g]) /\ frames'[g].reg = frames[g].reg
      /\ Len(frames'[at].tries) = Len(Tries(at))
      /\ \A i \in 1..Len(Tries(at)) :
           /\ frames'[at].tries[i].what = Tries(at)[i].what
           /\ Tries(at)[i].what = "finally" => frames'[at].tries[i].ran = Often(Tries(at)[i].ran)
  <2>1. 1..Len(Tries(at)) \in SUBSET (1..Len(Tries(at))) /\ FramesType
    BY DEF UnwindInv
  <2> QED
    BY <1>1, <2>1, RunFinallyCounts
<1>3. \A g \in 1..Depth : Tries(g) = <<>> => Tries(g)' = <<>>
  <2>1. \A g \in 1..Depth : Len(Tries(g)) = Len(Tries(g)') /\ Tries(g)' \in Seq(Scopes)
    BY <1>2, StackType DEF Tries
  <2> QED
    BY <2>1, EmptySeq
<1>4. FramesType' /\ TriesAreRegistered'
  <2>1. frames' # <<>> /\ Depth' = Depth
    BY <1>1, <1>2, EmptySeq DEF Depth
  <2>2. \A g \in 1..Depth : Tries(g)' # <<>> => frames'[g].reg
    BY <1>2, <1>3 DEF UnwindInv, TriesAreRegistered
  <2> QED
    BY <1>2, <2>1, <2>2 DEF FramesType, TriesAreRegistered
<1>5. /\ at' \in goal[1]..at - 1 /\ frames[at'].reg
      /\ \A g \in at' + 1..at - 1 : ~frames[g].reg
  <2>1. at - 1 \in Nat /\ at' = Nearest(frames, at - 1)
    BY <1>1, RegAtIsNearest
  <2>2. /\ at' \in 0..at - 1 /\ (at' > 0 => frames[at'].reg)
        /\ \A g \in at' + 1..at - 1 : ~frames[g].reg
    BY <2>1, NearestIsNearest
  <2> QED
    BY <1>1, <2>2
<1>6. RunsAreCounted'
  <2>1. runs \subseteq {1} /\ \A f \in 1..Depth : Ran(f, IF f > at THEN 1 ELSE 0)
    BY DEF UnwindInv, RunsAreCounted, Unwound
  <2>2. \A f \in at' + 1..at - 1 : Tries(f) = <<>>
    <3>1. \A f \in at' + 1..at - 1 : f \in 1..Depth
      BY <1>1, <1>5
    <3> QED
      BY <1>5, <3>1, NoTries DEF UnwindInv
  <2>3. ASSUME NEW f \in 1..Depth PROVE Ran(f, IF f > at THEN 1 ELSE 0)'
    <3>1. CASE f = at
      <4>1. Ran(at, 0) /\ at > at'
        BY <1>1, <1>5, <2>1
      <4>2. Len(Tries(f)') = Len(Tries(at))
        BY <1>2, <3>1 DEF Tries
      <4>3. \A i \in 1..Len(Tries(at)) : Tries(f)'[i].what = "finally" => Tries(f)'[i].ran = 1
        BY <1>2, <3>1, <4>1 DEF Ran, Tries, Often
      <4> QED
        BY <3>1, <4>1, <4>2, <4>3 DEF Ran
    <3>2. CASE f # at
      <4>1. Tries(f)' = Tries(f)
        BY <1>2, <3>2 DEF Tries
      <4>2. CASE f \in at' + 1..at - 1
        BY <2>2, <4>1, <4>2, EmptySeq DEF Ran
      <4>3. CASE f \notin at' + 1..at - 1
        <5>1. (f > at) <=> (f > at')
          BY <1>1, <1>5, <3>2, <4>3
        <5> QED
          BY <2>1, <4>1, <5>1 DEF Ran
      <4> QED
        BY <4>2, <4>3
    <3> QED
      BY <3>1, <3>2
  <2> QED
    BY <1>2, <2>1, <2>3 DEF RunsAreCounted, Unwound, Depth, Ran
<1>7. UnwindIsBetween'
  BY <1>1, <1>2, <1>5 DEF UnwindInv, UnwindIsBetween, Depth, Tries
<1> QED
  BY <1>4, <1>6, <1>7 DEF UnwindInv, HeadIsInnermost, SearchIsComplete, UnhandledWasOffered

(* The stack when control is in the block that took the exception: the frames  *)
(* within it are gone, and of its own blocks those up to the n-th.             *)
Entered(all, f, n) == [SubSeq(all, 1, f) EXCEPT ![f].tries = SubSeq(@, n + 1, Len(@))]

LEMMA StackOfHandler ==
  ASSUME NEW all \in Seq(Activations), NEW f \in 1..Len(all), NEW n \in 0..Len(all[f].tries)
  PROVE  LET fs == Entered(all, f, n)
         IN  /\ fs \in Seq(Activations) /\ Len(fs) = f
             /\ \A g \in 1..f : (g # f => fs[g] = all[g]) /\ fs[g].reg = all[g].reg
             /\ Len(fs[f].tries) = Len(all[f].tries) - n
             /\ \A i \in 1..Len(fs[f].tries) : i + n \in 1..Len(all[f].tries) /\ fs[f].tries[i] = all[f].tries[i + n]
<1> DEFINE cut == SubSeq(all, 1, f)
           old == all[f].tries
           tries == SubSeq(old, n + 1, Len(old))
           new == [all[f] EXCEPT !.tries = tries]
           fs == Entered(all, f, n)
<1>1. /\ all[f] \in Activations /\ old \in Seq(Scopes) /\ Len(old) \in Nat
      /\ f \in Nat /\ f >= 1 /\ n \in Nat /\ n <= Len(old)
  BY StackType
<1>2. cut \in Seq(Activations) /\ Len(cut) = f /\ \A g \in 1..f : cut[g] = all[g]
  BY CutStack
<1>3. /\ tries \in Seq(Scopes) /\ Len(tries) = Len(old) - n
      /\ \A i \in 1..Len(old) - n : tries[i] = old[i + n]
  <2> DEFINE m == n + 1
             k == Len(old)
  <2>1. m \in Int /\ k \in Int /\ \A i \in m..k : old[i] \in Scopes
    BY <1>1, ElementOfSeq
  <2> HIDE DEF m, k, old
  <2>2. /\ SubSeq(old, m, k) \in Seq(Scopes)
        /\ Len(SubSeq(old, m, k)) = IF m <= k THEN k - m + 1 ELSE 0
        /\ \A i \in 1..k - m + 1 : SubSeq(old, m, k)[i] = old[m + i - 1]
    BY <2>1, SubSeqProperties
  <2>3. \A i \in 1..k - n : i \in 1..k - m + 1 /\ m + i - 1 = i + n
    BY <1>1, <2>1 DEF m, k
  <2> QED
    BY <1>1, <2>2, <2>3 DEF m, k
<1>4. new \in Activations /\ new.reg = all[f].reg /\ new.tries = tries
  BY <1>1, <1>3 DEF Activations
<1>5. fs = [cut EXCEPT ![f] = new]
  <2>1. fs = [cut EXCEPT ![f] = [cut[f] EXCEPT !.tries = SubSeq(@, n + 1, Len(@))]]
    BY DEF Entered
  <2>2. cut[f] = all[f]
    BY <1>1, <1>2
  <2> QED
    BY <2>1, <2>2
<1>0. fs = Entered(all, f, n)
  OBVIOUS
<1> HIDE DEF cut, new, tries, old, fs
<1>6. fs \in Seq(Activations) /\ Len(fs) = f /\ \A g \in 1..f : fs[g] = IF g = f THEN new ELSE cut[g]
  <2>1. f \in 1..Len(cut)
    BY <1>1, <1>2
  <2> DEFINE es == [cut EXCEPT ![f] = new]
  <2>2. es \in Seq(Activations) /\ Len(es) = Len(cut) /\ \A g \in 1..Len(cut) : es[g] = IF g = f THEN new ELSE cut[g]
    BY <1>2, <1>4, <2>1, ExceptSeq
  <2> QED
    BY <1>2, <1>5, <2>2
<1>7. fs[f].tries = tries /\ fs[f].reg = all[f].reg
  <2>1. f \in 1..f
    BY <1>1
  <2> QED
    BY <1>4, <1>6, <2>1
<1>8. \A i \in 1..Len(tries) : i + n \in 1..Len(old) /\ tries[i] = old[i + n]
  BY <1>1, <1>3
<1> QED
  BY <1>0, <1>2, <1>3, <1>6, <1>7, <1>8 DEF old

LEMMA LandKeeps ==
  ASSUME UnwindInv, Land \/ Land32, NEW f, f = goal[1], NEW n, n = goal[2]
  PROVE  UnwindInv'
<1> DEFINE I == IF bits = 64 THEN 1..Len(Tries(f)) ELSE 1..n
           all == RunFinally(f, I)
<1>1. /\ pass = "unwind" /\ ended = "no" /\ f \in 1..Depth /\ n \in 0..Len(Tries(f)) /\ at = f
      /\ Depth \in Nat /\ Len(Tries(f)) \in Nat /\ Tries(f) \in Seq(Scopes) /\ FramesType
  BY StackIsThere DEF Land, Land32, Unwinding, UnwindInv, UnwindIsBetween
<1>2. EnterHandler(all)
  BY DEF Land, Land32
<1>3. I \in SUBSET (1..Len(Tries(f)))
  BY <1>1
<1>4. /\ all \in Seq(Activations) /\ Len(all) = Depth
      /\ \A g \in 1..Depth : (g # f => all[g] = frames[g]) /\ all[g].reg = frames[g].reg
      /\ Len(all[f].tries) = Len(Tries(f))
      /\ \A i \in 1..Len(Tries(f)) :
           /\ all[f].tries[i].what = Tries(f)[i].what
           /\ all[f].tries[i].ran = IF i \in I /\ Tries(f)[i].what = "finally"
                                    THEN Often(Tries(f)[i].ran) ELSE Tries(f)[i].ran
  <2> HIDE DEF I
  <2> QED
    BY <1>1, <1>3, RunFinallyCounts
<1> HIDE DEF all
<1>5. /\ frames' \in Seq(Activations) /\ Len(frames') = f
      /\ \A g \in 1..f : (g # f => frames'[g] = all[g]) /\ frames'[g].reg = all[g].reg
      /\ Len(frames'[f].tries) = Len(all[f].tries) - n
      /\ \A i \in 1..Len(frames'[f].tries) :
           i + n \in 1..Len(all[f].tries) /\ frames'[f].tries[i] = all[f].tries[i + n]
  <2>1. f \in 1..Len(all) /\ n \in 0..Len(all[f].tries)
    BY <1>1, <1>4
  <2>2. frames' = Entered(all, f, n)
    BY <1>2 DEF EnterHandler, Entered
  <2> QED
    BY <1>4, <2>1, <2>2, StackOfHandler
<1>6. Rests /\ UNCHANGED <<bits, resumed, ended>>
  BY <1>2 DEF EnterHandler
<1>0. bits = 32 => head' = f /\ frames[f].reg /\ I = 1..n
  BY DEF Land, Land32, UnwindInv, UnwindIsBetween, Unwinding
<1> HIDE DEF I
<1>7. FramesType' /\ TriesAreRegistered'
  <2>1. frames' # <<>> /\ Depth' = f
    BY <1>1, <1>5, EmptySeq DEF Depth
  <2>2. ASSUME NEW g \in 1..f, Tries(g)' # <<>> PROVE frames'[g].reg
    <3>1. frames'[g].reg = frames[g].reg /\ g \in 1..Depth
      BY <1>1, <1>4, <1>5
    <3>2. CASE g = f
      <4>1. Len(Tries(f)') # 0
        <5>1. f \in 1..Len(frames') /\ frames' \in Seq(Activations)
          BY <1>1, <1>5
        <5>2. Tries(f)' \in Seq(Scopes)
          BY <5>1, StackType DEF Tries
        <5> QED
          BY <2>2, <3>2, <5>2, EmptySeq
      <4>2. Tries(f) # <<>>
        <5>1. Len(Tries(f)') = Len(Tries(f)) - n /\ Len(Tries(f)') \in Nat
          BY <1>1, <1>4, <1>5 DEF Tries
        <5> QED
          BY <1>1, <4>1, <5>1, EmptySeq
      <4> QED
        BY <1>1, <3>1, <3>2, <4>2 DEF UnwindInv, TriesAreRegistered
    <3>3. CASE g # f
      <4>1. Tries(g)' = Tries(g)
        BY <1>1, <1>4, <1>5, <3>1, <3>3 DEF Tries
      <4> QED
        BY <2>2, <3>1, <4>1 DEF UnwindInv, TriesAreRegistered
    <3> QED
      BY <3>2, <3>3
  <2> QED
    BY <1>5, <2>1, <2>2 DEF FramesType, TriesAreRegistered
<1>8. HeadIsInnermost'
  <2> SUFFICES ASSUME bits = 32 PROVE head' = Nearest(frames', f)
    BY <1>5, <1>6, RegAtIsNearest DEF HeadIsInnermost
  <2>1. head' = f /\ frames[f].reg
    BY <1>0
  <2>2. f \in Nat /\ f \in 0..f /\ frames'[f].reg /\ \A g \in f + 1..f : ~frames'[g].reg
    BY <1>1, <1>4, <1>5, <2>1
  <2> QED
    BY <2>1, <2>2, WhichIsNearest
<1>9. RunsAreCounted'
  <2> SUFFICES ASSUME bits = 32 PROVE runs' \subseteq {1} /\ \A g \in 1..f : Ran(g, 0)'
    BY <1>5, <1>6 DEF RunsAreCounted, Unwound, Rests, Idle, Depth
  <2>1. runs \subseteq {1} /\ \A g \in 1..Depth : Ran(g, IF g > f THEN 1 ELSE 0)
    BY <1>1 DEF UnwindInv, RunsAreCounted, Unwound
  <2>2. I = 1..n
    BY <1>0
  <2>3. ASSUME NEW i \in 1..Len(Tries(f)), Tries(f)[i].what = "finally"
        PROVE  all[f].tries[i].ran = IF i <= n THEN 1 ELSE 0
    <3>1. Tries(f)[i].ran = 0
      BY <1>1, <2>1, <2>3 DEF Ran
    <3>2. i \in I <=> i <= n
      BY <1>1, <2>2
    <3> QED
      BY <1>4, <2>3, <3>1, <3>2 DEF Often
  <2>4. ASSUME NEW g \in 1..f PROVE Ran(g, 0)'
    <3>1. CASE g = f
      <4> SUFFICES ASSUME NEW i \in 1..Len(frames'[f].tries), frames'[f].tries[i].what = "finally"
                   PROVE  frames'[f].tries[i].ran = 0
        BY <3>1 DEF Ran, Tries
      <4>1. /\ i + n \in 1..Len(Tries(f)) /\ frames'[f].tries[i] = all[f].tries[i + n] /\ ~(i + n <= n)
            /\ all[f].tries[i + n].what = Tries(f)[i + n].what
        <5>1. i + n \in 1..Len(all[f].tries) /\ frames'[f].tries[i] = all[f].tries[i + n]
          BY <1>5, Zenon
        <5>2. i \in Nat /\ i >= 1 /\ n \in Nat
          BY <1>1
        <5>3. i + n \in 1..Len(Tries(f))
          BY <1>4, <5>1
        <5>4. all[f].tries[i + n].what = Tries(f)[i + n].what
          BY <1>4, <5>3
        <5> QED
          BY <5>1, <5>2, <5>3, <5>4
      <4> QED
        BY <2>3, <4>1
    <3>2. CASE g # f
      <4>1. Tries(g)' = Tries(g) /\ g \in 1..Depth /\ ~(g > f)
        BY <1>1, <1>4, <1>5, <3>2 DEF Tries
      <4> QED
        BY <2>1, <4>1 DEF Ran
    <3> QED
      BY <3>1, <3>2
  <2> DEFINE over == {x \in AllOf(f..Depth) : x[1] > f \/ x[2] <= n}
  <2>5. runs' = runs \cup {all[x[1]].tries[x[2]].ran : x \in {y \in over : all[y[1]].tries[y[2]].what = "finally"}}
    BY <1>2 DEF EnterHandler
  <2>6. ASSUME NEW x \in over, all[x[1]].tries[x[2]].what = "finally" PROVE all[x[1]].tries[x[2]].ran = 1
    <3> PICK g \in f..Depth : x \in {<<g, j>> : j \in 1..Len(Tries(g))}
      BY DEF AllOf
    <3>1. PICK i \in 1..Len(Tries(g)) : x = <<g, i>>
      OBVIOUS
    <3>2. CASE g = f
      BY <1>4, <2>3, <2>6, <3>1, <3>2
    <3>3. CASE g # f
      <4>1. g \in 1..Depth /\ g > f /\ all[g] = frames[g]
        BY <1>1, <1>4, <3>3
      <4> QED
        BY <2>1, <2>6, <3>1, <4>1 DEF Ran, Tries
    <3> QED
      BY <3>2, <3>3
  <2> HIDE DEF over
  <2> QED
    BY <2>1, <2>4, <2>5, <2>6
<1> QED
  BY <1>1, <1>6, <1>7, <1>8, <1>9
    DEF UnwindInv, Rests, Idle, SearchIsComplete, UnwindIsBetween, UnhandledWasOffered

LEMMA UnwindStarts == ASSUME UnwindInit PROVE UnwindInv
<1>1. PICK b \in TryBlocks : frames = <<Frame(FALSE, b)>> /\ head = IF bits = 32 /\ b # <<>> THEN 1 ELSE 0
  BY DEF UnwindInit
<1> DEFINE new == Frame(FALSE, b)
<1>2. /\ new \in Activations /\ (new.reg <=> b # <<>>) /\ (new.tries # <<>> => b # <<>>)
      /\ \A i \in 1..Len(new.tries) : new.tries[i].ran = 0
  BY NewFrame
<1> HIDE DEF new
<1>3. frames \in Seq(Activations) /\ Len(frames) = 1 /\ frames[1] = new /\ Depth = 1
  <2>1. frames = <<new>>
    BY <1>1 DEF new
  <2> QED
    BY <1>2, <2>1 DEF Depth
<1>4. FramesType /\ TriesAreRegistered
  BY <1>2, <1>3, EmptySeq DEF FramesType, TriesAreRegistered, Tries
<1>5. HeadIsInnermost
  <2> SUFFICES ASSUME bits = 32 PROVE head = Nearest(frames, 1)
    BY <1>3, RegAtIsNearest DEF HeadIsInnermost
  <2>1. head = IF new.reg THEN 1 ELSE 0
    BY <1>1, <1>2
  <2>2. head \in 0..1 /\ (head > 0 => frames[head].reg) /\ \A g \in head + 1..1 : ~frames[g].reg
    BY <1>3, <2>1
  <2> QED
    BY <2>2, WhichIsNearest
<1>6. RunsAreCounted
  <2>0. \A f \in 1..Depth : Tries(f) = new.tries
    BY <1>3 DEF Tries
  <2>1. \A f \in 1..Depth : Tries(f) = new.tries /\ ~Unwound(f)
    BY <2>0 DEF Unwound, Idle, UnwindInit
  <2>2. \A f \in 1..Depth : Ran(f, 0)
    BY <1>2, <2>1 DEF Ran
  <2> QED
    BY <2>1, <2>2 DEF RunsAreCounted, UnwindInit
<1> QED
  BY <1>4, <1>5, <1>6 DEF UnwindInit, UnwindInv, SearchIsComplete, UnwindIsBetween, UnhandledWasOffered, Idle

LEMMA UnwindStays == ASSUME UnwindInv, UNCHANGED unwindVars PROVE UnwindInv'
<1> USE DEF unwindVars, guest, search
<1>1. Depth' = Depth /\ (\A g : Tries(g)' = Tries(g)) /\ RegAt(Depth)' = RegAt(Depth)
  BY DEF Depth, Tries, RegAt
<1> QED
  BY <1>1 DEF UnwindInv, FramesType, TriesAreRegistered, HeadIsInnermost, RunsAreCounted, Ran, Unwound, Offered,
     SearchIsComplete, UnwindIsBetween, UnhandledWasOffered

(* UnwindInv holds in every state of a guest. *)
THEOREM ChainsAreKept == UnwindSpec => []UnwindInv
<1>1. UnwindInit => UnwindInv
  BY UnwindStarts
<1>2. UnwindInv /\ [UnwindNext]_unwindVars => UnwindInv'
  <2> SUFFICES ASSUME UnwindInv, [UnwindNext]_unwindVars PROVE UnwindInv'
    OBVIOUS
  <2>1. ASSUME NEW b \in TryBlocks, Call(b) PROVE UnwindInv'
    BY <2>1, PushedKeeps DEF Call
  <2>2. ASSUME NEW b \in TryBlocks, CallBack(b) PROVE UnwindInv'
    BY <2>2, PushedKeeps DEF CallBack
  <2>3. CASE LeaveTry \/ Return \/ Raise \/ Raise32
    BY <2>3, LeaveTryKeeps, ReturnKeeps, RaiseKeeps
  <2>4. CASE Unhandled \/ NextFrame \/ NextRegistration \/ PassFinally \/ Decline \/ FilterExits
    BY <2>4, UnhandledKeeps, MoveOnKeeps, PassKeeps
  <2>5. CASE Dismiss \/ Dismiss32 \/ Accept \/ Accept32
    BY <2>5, DismissKeeps, AcceptKeeps
  <2>6. CASE UnwindFrame \/ PopRegistration \/ Land \/ Land32
    BY <2>6, UnwindFrameKeeps, PopKeeps, LandKeeps
  <2>7. CASE \E f \in 1..MaxFrames : UnwindTo(f)
    BY <2>7, UnwindToKeeps
  <2>8. CASE UNCHANGED unwindVars
    BY <2>8, UnwindStays
  <2> QED
    BY <2>1, <2>2, <2>3, <2>4, <2>5, <2>6, <2>7, <2>8 DEF UnwindNext
<1> QED
  BY <1>1, <1>2, PTL DEF UnwindSpec

(* While a 32-bit guest runs its chain is headed by the registration of its    *)
(* innermost registered frame and its __finally blocks have run once; and an   *)
(* exception is reported as unhandled only when every filter around it has     *)
(* declined: for any depth of frames, calls and callbacks (exceptions.cpp).    *)
THEOREM NoHandlerIsSkipped == UnwindSpec => []ExceptionsFindTheirWay
<1>1. UnwindInv => ExceptionsFindTheirWay
  BY DEF UnwindInv, ExceptionsFindTheirWay, ChainFollowsFrames, HeadIsInnermost, RunsAreCounted
<1> QED
  BY <1>1, ChainsAreKept, PTL

-----------------------------------------------------------------------------
(* Modules.  A function registered for the end is in one place at a time:  *)
(* in a list, in a list that has been taken and is being called, or among  *)
(* the calls begun.  A module whose slot has been set up has it alone, and *)
(* nothing that leads to running a module's code is on the call stack      *)
(* before its slot has been.                                               *)

Names == Libs \cup {"exe"}
Keys == {"process"} \cup Libs
Calls == {"main", "callback", "DllMain", "handler"} \X (Names \cup Handlers)

Tasks ==
  [do : {"bind"}, of : Names, at : Nat \ {0}] \cup [do : {"init"}, of : Names, at : {"start", "called"}]
  \cup [do : {"pending"}, at : Nat] \cup [do : {"run"}, of : Names \cup Handlers, saved : BOOLEAN]
  \cup [do : {"drain"}, list : Seq(Handlers)] \cup [do : {"tables"}, at : Nat \ {0}] \cup [do : {"exit"}]

ModulesType ==
  /\ imports \in Graphs /\ modules \in Seq(Libs) /\ halted \in BOOLEAN
  /\ work \in Seq(Tasks) /\ began \in Seq(Calls)
  /\ exits \in [Keys -> Seq(Handlers)] /\ tables \in Seq(Keys)

TlsType == threads \in Nat /\ slot \in [Libs -> Nat] /\ lastSlot \in Nat

NoModuleTwice == \A i, j \in 1..Len(modules) : modules[i] = modules[j] => i = j

NotBegan(h) == \A i \in 1..Len(began) : began[i] # <<"handler", h>>
Draining(a) == work[a].do = "drain"

BeganOnce == \A i, j \in 1..Len(began) : began[i][1] = "handler" /\ began[i] = began[j] => i = j

ListsAreApart ==
  \A k, l \in Keys : \A i \in 1..Len(exits[k]), j \in 1..Len(exits[l]) :
    exits[k][i] = exits[l][j] => k = l /\ i = j

ListsWait == \A k \in Keys : \A i \in 1..Len(exits[k]) : NotBegan(exits[k][i])

DrainsAreApart ==
  \A a, b \in 1..Len(work) : Draining(a) /\ Draining(b) =>
    \A i \in 1..Len(work[a].list), j \in 1..Len(work[b].list) :
      work[a].list[i] = work[b].list[j] => a = b /\ i = j

DrainsWait ==
  \A a \in 1..Len(work) : Draining(a) => \A i \in 1..Len(work[a].list) :
    /\ NotBegan(work[a].list[i])
    /\ \A k \in Keys : \A j \in 1..Len(exits[k]) : exits[k][j] # work[a].list[i]

HandlersInv == BeganOnce /\ ListsAreApart /\ ListsWait /\ DrainsAreApart /\ DrainsWait

TlsIsOwn ==
  /\ \A m \in Libs : slot[m] <= lastSlot
  /\ \A m, n \in Libs : slot[m] # 0 /\ slot[m] = slot[n] => m = n
  /\ \A m \in Libs : slot[m] # 0 => \A t \in 1..threads : <<t, slot[m]>> \in block

HasTls(m) == m \in WithTls => slot[m] # 0

Prepared(t) ==
  /\ t.do = "init" => HasTls(t.of)
  /\ t.do = "pending" => t.at <= Len(modules) /\ \A j \in 1..t.at : HasTls(modules[j])

WorkIsPrepared == \A a \in 1..Len(work) : Prepared(work[a])

TlsInv == TlsType /\ NoModuleTwice /\ TlsIsOwn /\ WorkIsPrepared /\ \A m \in initialised : HasTls(m)

ModulesInv == ModulesType /\ HandlersInv /\ TlsInv

LEMMA OneMore ==
  ASSUME NEW S, NEW s \in Seq(S), NEW e \in S
  PROVE  /\ Append(s, e) \in Seq(S) /\ Len(Append(s, e)) = Len(s) + 1 /\ Len(s) \in Nat
         /\ \A i \in 1..Len(s) : Append(s, e)[i] = s[i]
         /\ Append(s, e)[Len(s) + 1] = e
         /\ \A i \in 1..Len(Append(s, e)) : i \in 1..Len(s) \/ i = Len(s) + 1
<1>1. /\ Append(s, e) \in Seq(S) /\ Len(Append(s, e)) = Len(s) + 1 /\ Len(s) \in Nat
      /\ \A i \in 1..Len(s) : Append(s, e)[i] = s[i]
      /\ Append(s, e)[Len(s) + 1] = e
  BY AppendProperties, LenProperties
<1>2. \A i \in 1..Len(Append(s, e)) : i \in 1..Len(s) \/ i = Len(s) + 1
  BY <1>1
<1> QED
  BY <1>1, <1>2

(* The call stack without its top, with another top, with one more. *)
LEMMA Stacks ==
  ASSUME NEW w \in Seq(Tasks), NEW t \in Tasks
  PROVE  /\ Append(w, t) \in Seq(Tasks) /\ Len(Append(w, t)) = Len(w) + 1 /\ Len(w) \in Nat
         /\ \A a \in 1..Len(w) : Append(w, t)[a] = w[a] /\ w[a] \in Tasks
         /\ Append(w, t)[Len(w) + 1] = t
BY AppendProperties, ElementOfSeq, LenProperties

LEMMA BelowIsStack ==
  ASSUME work \in Seq(Tasks), work # <<>>
  PROVE  /\ Below \in Seq(Tasks) /\ Len(Below) = Len(work) - 1 /\ Len(work) \in Nat \ {0}
         /\ \A a \in 1..Len(work) - 1 : Below[a] = work[a]
         /\ Top \in Tasks /\ Top = work[Len(work)]
<1>1. Len(work) \in Nat \ {0} /\ \A a \in 1..Len(work) : work[a] \in Tasks
  BY EmptySeq, ElementOfSeq, LenProperties
<1> DEFINE n == Len(work) - 1
<1>2. n \in Int /\ n - 1 + 1 = n /\ \A a \in 1..n : a \in 1..Len(work) /\ 1 + a - 1 = a
  BY <1>1
<1>3. Below = SubSeq(work, 1, n)
  BY DEF Below, Front
<1> HIDE DEF n
<1>4. /\ SubSeq(work, 1, n) \in Seq(Tasks)
      /\ Len(SubSeq(work, 1, n)) = IF 1 <= n THEN n - 1 + 1 ELSE 0
      /\ \A a \in 1..n - 1 + 1 : SubSeq(work, 1, n)[a] = work[1 + a - 1]
  BY <1>1, <1>2, SubSeqProperties
<1>5. Len(Below) = n
  <2>1. n \in Nat
    BY <1>1 DEF n
  <2> QED
    BY <1>3, <1>4, <2>1
<1>6. \A a \in 1..n : Below[a] = work[a]
  BY <1>2, <1>3, <1>4
<1> QED
  BY <1>1, <1>3, <1>4, <1>5, <1>6 DEF n, Top

(* w is the call stack up to its n-th task, with tasks of T on it. *)
Over(w, n, T) ==
  /\ w \in Seq(Tasks)
  /\ \A a \in 1..Len(w) : (a \in 1..n /\ w[a] = work[a]) \/ w[a] \in T

LEMMA Pushed ==
  ASSUME work \in Seq(Tasks), NEW n, NEW T, NEW w, Over(w, n, T), NEW t \in Tasks
  PROVE  Over(Push(t, w), n, T \cup {t})
BY Stacks DEF Over, Push

LEMMA Popped ==
  ASSUME work \in Seq(Tasks), work # <<>>
  PROVE  Over(Below, Len(work) - 1, {})
BY BelowIsStack DEF Over

LEMMA Untouched ==
  ASSUME work \in Seq(Tasks)
  PROVE  Over(work, Len(work), {})
BY DEF Over

(* Whatever is called or left that is no registered function, the functions    *)
(* are where they were.                                                        *)
LEMMA HandlersAside ==
  ASSUME ModulesType, HandlersInv, UNCHANGED exits,
         \/ UNCHANGED began
         \/ \E what, m : what # "handler" /\ <<what, m>> \in Calls /\ began' = Append(began, <<what, m>>),
         \A a \in 1..Len(work') : work'[a].do = "drain" => a \in 1..Len(work) /\ work'[a] = work[a]
  PROVE  HandlersInv'
<1>1. /\ \A h : NotBegan(h) => NotBegan(h)'
      /\ BeganOnce'
  <2>1. CASE UNCHANGED began
    BY <2>1 DEF NotBegan, BeganOnce, HandlersInv
  <2>2. CASE \E what, m : what # "handler" /\ <<what, m>> \in Calls /\ began' = Append(began, <<what, m>>)
    <3> PICK what, m : what # "handler" /\ <<what, m>> \in Calls /\ began' = Append(began, <<what, m>>)
      BY <2>2
    <3> DEFINE e == <<what, m>>
    <3>1. e[1] # "handler" /\ e \in Calls
      OBVIOUS
    <3> HIDE DEF e
    <3>2. began' = Append(began, e)
      BY DEF e
    <3>3. began \in Seq(Calls)
      BY DEF ModulesType
    <3>4. /\ Len(began) \in Nat /\ began'[Len(began) + 1] = e
          /\ \A i \in 1..Len(began) : began'[i] = began[i]
          /\ \A i \in 1..Len(began') : i \in 1..Len(began) \/ i = Len(began) + 1
      BY <3>1, <3>2, <3>3, OneMore
    <3>5. \A h : e # <<"handler", h>>
      BY <3>1
    <3>6. \A h : NotBegan(h) => NotBegan(h)'
      BY <3>4, <3>5 DEF NotBegan
    <3>7. BeganOnce'
      BY <3>1, <3>4 DEF HandlersInv, BeganOnce
    <3> QED
      BY <3>6, <3>7
  <2> QED
    BY <2>1, <2>2
<1>2. ListsAreApart' /\ ListsWait'
  BY <1>1 DEF HandlersInv, ListsAreApart, ListsWait
<1>3. DrainsAreApart'
  BY DEF HandlersInv, DrainsAreApart, Draining
<1>4. DrainsWait'
  BY <1>1 DEF HandlersInv, DrainsWait, Draining
<1> QED
  BY <1>1, <1>2, <1>3, <1>4 DEF HandlersInv

(* A list that is taken is called from one place and is empty.                 *)
Emptied(k) == [exits EXCEPT ![k] = <<>>]

AlsoDraining(w, p, list) ==
  \A a \in 1..Len(w) : w[a].do = "drain" => \/ a = p /\ w[a].list = list
                                            \/ a # p /\ a \in 1..Len(work) /\ w[a] = work[a]

LEMMA ListTaken ==
  ASSUME ModulesType, HandlersInv, UNCHANGED began, NEW k \in Keys, exits' = Emptied(k),
         NEW p, AlsoDraining(work', p, exits[k])
  PROVE  HandlersInv'
<1>0. \A a \in 1..Len(work') : work'[a].do = "drain" => \/ a = p /\ work'[a].list = exits[k]
                                                        \/ a # p /\ a \in 1..Len(work) /\ work'[a] = work[a]
  BY DEF AlsoDraining
<1>1. \A l \in Keys : \A i \in 1..Len(exits'[l]) : l # k /\ i \in 1..Len(exits[l]) /\ exits'[l][i] = exits[l][i]
  <2> SUFFICES ASSUME NEW l \in Keys, NEW i \in 1..Len(exits'[l])
               PROVE  l # k /\ i \in 1..Len(exits[l]) /\ exits'[l][i] = exits[l][i]
    OBVIOUS
  <2>1. exits'[l] = IF l = k THEN <<>> ELSE exits[l]
    BY DEF ModulesType, Emptied
  <2>2. CASE l = k
    BY <2>1, <2>2, EmptySeq
  <2> QED
    BY <2>1, <2>2
<1>2. \A h : NotBegan(h) => NotBegan(h)'
  BY DEF NotBegan
<1>3. BeganOnce' /\ ListsAreApart' /\ ListsWait'
  BY <1>1, <1>2 DEF HandlersInv, BeganOnce, ListsAreApart, ListsWait
<1>4. DrainsAreApart'
  <2> SUFFICES ASSUME NEW a \in 1..Len(work'), NEW b \in 1..Len(work'), work'[a].do = "drain", work'[b].do = "drain",
                      NEW i \in 1..Len(work'[a].list), NEW j \in 1..Len(work'[b].list),
                      work'[a].list[i] = work'[b].list[j]
               PROVE  a = b /\ i = j
    BY DEF DrainsAreApart, Draining
  <2>1. CASE a = p /\ b = p
    BY <1>0, <2>1 DEF HandlersInv, ListsAreApart
  <2>2. CASE a = p /\ b # p
    <3>1. /\ work'[a].list = exits[k] /\ b \in 1..Len(work) /\ work'[b] = work[b] /\ work[b].do = "drain"
          /\ j \in 1..Len(work[b].list) /\ i \in 1..Len(exits[k]) /\ exits[k][i] = work[b].list[j]
      BY <1>0, <2>2
    <3>2. \A l \in Keys : \A z \in 1..Len(exits[l]) : exits[l][z] # work[b].list[j]
      BY <3>1, Zenon DEF HandlersInv, DrainsWait, Draining
    <3> QED
      BY <3>1, <3>2
  <2>3. CASE a # p /\ b = p
    <3>1. /\ work'[b].list = exits[k] /\ a \in 1..Len(work) /\ work'[a] = work[a] /\ work[a].do = "drain"
          /\ i \in 1..Len(work[a].list) /\ j \in 1..Len(exits[k]) /\ exits[k][j] = work[a].list[i]
      BY <1>0, <2>3
    <3>2. \A l \in Keys : \A z \in 1..Len(exits[l]) : exits[l][z] # work[a].list[i]
      BY <3>1, Zenon DEF HandlersInv, DrainsWait, Draining
    <3> QED
      BY <3>1, <3>2
  <2>4. CASE a # p /\ b # p
    <3>1. DrainsAreApart
      BY DEF HandlersInv
    <3>2. a \in 1..Len(work) /\ work'[a] = work[a] /\ b \in 1..Len(work) /\ work'[b] = work[b]
      BY <1>0, <2>4
    <3>3. /\ work[a].do = "drain" /\ work[b].do = "drain" /\ i \in 1..Len(work[a].list) /\ j \in 1..Len(work[b].list)
          /\ work[a].list[i] = work[b].list[j]
      BY <3>2, Zenon
    <3>4. \A x \in 1..Len(work[a].list), y \in 1..Len(work[b].list) : work[a].list[x] = work[b].list[y] => a = b /\ x = y
      BY <3>1, <3>2, <3>3, Zenon DEF DrainsAreApart, Draining
    <3> QED
      BY <3>3, <3>4
  <2> QED
    BY <2>1, <2>2, <2>3, <2>4
<1>5. DrainsWait'
  <2> SUFFICES ASSUME NEW a \in 1..Len(work'), work'[a].do = "drain", NEW i \in 1..Len(work'[a].list)
               PROVE  /\ NotBegan(work'[a].list[i])
                      /\ \A l \in Keys : \A j \in 1..Len(exits'[l]) : exits'[l][j] # work'[a].list[i]
    BY <1>2 DEF DrainsWait, Draining, NotBegan
  <2>1. CASE a = p
    BY <1>0, <1>1, <2>1 DEF HandlersInv, ListsWait, ListsAreApart
  <2>2. CASE a # p
    BY <1>0, <1>1, <2>2 DEF HandlersInv, DrainsWait, Draining
  <2> QED
    BY <2>1, <2>2
<1> QED
  BY <1>3, <1>4, <1>5 DEF HandlersInv

(* The last of a list that is being called is called, and the rest of it       *)
(* waits where it was.                                                         *)
RestWaits(w, p, n) ==
  \A a \in 1..Len(w) : w[a].do = "drain" =>
    \/ a = p /\ Len(w[a].list) = n - 1 /\ \A i \in 1..n - 1 : w[a].list[i] = work[p].list[i]
    \/ a # p /\ a \in 1..Len(work) /\ w[a] = work[a]

LEMMA HandlerCalled ==
  ASSUME ModulesType, HandlersInv, UNCHANGED exits,
         NEW p \in 1..Len(work), work[p].do = "drain", NEW n \in Nat \ {0}, n = Len(work[p].list),
         NEW h \in Handlers, h = work[p].list[n], began' = Append(began, <<"handler", h>>),
         RestWaits(work', p, n)
  PROVE  HandlersInv'
<1>0. \A a \in 1..Len(work') : work'[a].do = "drain" =>
        \/ /\ a = p /\ Len(work'[a].list) = n - 1
           /\ \A i \in 1..n - 1 : work'[a].list[i] = work[p].list[i]
        \/ a # p /\ a \in 1..Len(work) /\ work'[a] = work[a]
  BY DEF RestWaits
<1> DEFINE e == <<"handler", h>>
<1>1. e[1] = "handler" /\ e \in Calls /\ (\A g : e = <<"handler", g>> => g = h) /\ e = <<"handler", h>>
  BY DEF Calls
<1> HIDE DEF e
<1>2. began' = Append(began, e) /\ began \in Seq(Calls)
  BY DEF e, ModulesType
<1>3. /\ Len(began) \in Nat /\ began'[Len(began) + 1] = e
      /\ \A i \in 1..Len(began) : began'[i] = began[i]
      /\ \A i \in 1..Len(began') : i \in 1..Len(began) \/ i = Len(began) + 1
  BY <1>1, <1>2, OneMore
<1>4. \A g : NotBegan(g) /\ g # h => NotBegan(g)'
  BY <1>1, <1>3 DEF NotBegan
<1>5. n \in 1..Len(work[p].list)
  OBVIOUS
<1>6. /\ NotBegan(h)
      /\ \A k \in Keys : \A j \in 1..Len(exits[k]) : exits[k][j] # h
      /\ \A a \in 1..Len(work) : work[a].do = "drain" =>
           \A i \in 1..Len(work[a].list) : work[a].list[i] = h => a = p /\ i = n
  <2>1. NotBegan(h) /\ \A k \in Keys : \A j \in 1..Len(exits[k]) : exits[k][j] # h
    BY <1>5 DEF HandlersInv, DrainsWait, Draining
  <2>2. ASSUME NEW a \in 1..Len(work), work[a].do = "drain", NEW i \in 1..Len(work[a].list), work[a].list[i] = h
        PROVE  a = p /\ i = n
    <3>1. DrainsAreApart
      BY DEF HandlersInv
    <3>2. Draining(a) /\ Draining(p)
      BY <2>2 DEF Draining
    <3>3. \A x \in 1..Len(work[a].list), y \in 1..Len(work[p].list) : work[a].list[x] = work[p].list[y] => a = p /\ x = y
      BY <3>1, <3>2, Zenon DEF DrainsAreApart
    <3> QED
      BY <1>5, <2>2, <3>3
  <2> QED
    BY <2>1, <2>2
<1>7. \A a \in 1..Len(work') : work'[a].do = "drain" => /\ a \in 1..Len(work) /\ work[a].do = "drain"
        /\ \A i \in 1..Len(work'[a].list) : /\ i \in 1..Len(work[a].list) /\ work'[a].list[i] = work[a].list[i]
                                            /\ ~(a = p /\ i = n)
  <2> SUFFICES ASSUME NEW a \in 1..Len(work'), work'[a].do = "drain"
               PROVE  /\ a \in 1..Len(work) /\ work[a].do = "drain"
                      /\ \A i \in 1..Len(work'[a].list) : /\ i \in 1..Len(work[a].list) /\ work'[a].list[i] = work[a].list[i]
                                                          /\ ~(a = p /\ i = n)
    OBVIOUS
  <2>1. CASE a # p
    BY <1>0, <2>1
  <2>2. CASE a = p
    <3>1. \A i \in 1..n - 1 : i \in 1..n /\ i # n
      OBVIOUS
    <3> QED
      BY <1>0, <2>2, <3>1
  <2> QED
    BY <2>1, <2>2
<1>8. BeganOnce'
  <2>1. \A i \in 1..Len(began) : began[i] # e
    BY <1>1, <1>6 DEF NotBegan
  <2> QED
    <3>1. BeganOnce
      BY DEF HandlersInv
    <3>2. SUFFICES ASSUME NEW i \in 1..Len(began'), NEW j \in 1..Len(began'), began'[i][1] = "handler", began'[i] = began'[j]
                   PROVE  i = j
      BY DEF BeganOnce
    <3>3. i \in 1..Len(began) \/ i = Len(began) + 1
      BY <1>3
    <3>4. j \in 1..Len(began) \/ j = Len(began) + 1
      BY <1>3
    <3>5. CASE i \in 1..Len(began) /\ j \in 1..Len(began)
      <4>1. began[i][1] = "handler" /\ began[i] = began[j]
        BY <1>3, <3>2, <3>5
      <4> QED
        BY <3>1, <3>5, <4>1 DEF BeganOnce
    <3> QED
      BY <1>3, <2>1, <3>2, <3>3, <3>4, <3>5
<1>9. ListsAreApart' /\ ListsWait'
  BY <1>4, <1>6 DEF HandlersInv, ListsAreApart, ListsWait
<1>10. DrainsAreApart'
  <2> SUFFICES ASSUME NEW a \in 1..Len(work'), NEW b \in 1..Len(work'), work'[a].do = "drain", work'[b].do = "drain",
                      NEW i \in 1..Len(work'[a].list), NEW j \in 1..Len(work'[b].list),
                      work'[a].list[i] = work'[b].list[j]
               PROVE  a = b /\ i = j
    BY DEF DrainsAreApart, Draining
  <2>1. /\ a \in 1..Len(work) /\ work[a].do = "drain" /\ i \in 1..Len(work[a].list)
        /\ b \in 1..Len(work) /\ work[b].do = "drain" /\ j \in 1..Len(work[b].list)
        /\ work[a].list[i] = work[b].list[j]
    BY <1>7, Zenon
  <2>2. DrainsAreApart
    BY DEF HandlersInv
  <2>3. Draining(a) /\ Draining(b)
    BY <2>1 DEF Draining
  <2>4. \A x \in 1..Len(work[a].list), y \in 1..Len(work[b].list) : work[a].list[x] = work[b].list[y] => a = b /\ x = y
    BY <2>1, <2>2, <2>3, Zenon DEF DrainsAreApart
  <2> QED
    BY <2>1, <2>4
<1>11. DrainsWait'
  <2> SUFFICES ASSUME NEW a \in 1..Len(work'), work'[a].do = "drain", NEW i \in 1..Len(work'[a].list)
               PROVE  /\ \A x \in 1..Len(began') : began'[x] # <<"handler", work'[a].list[i]>>
                      /\ \A l \in Keys : \A j \in 1..Len(exits'[l]) : exits'[l][j] # work'[a].list[i]
    BY DEF DrainsWait, Draining, NotBegan
  <2> PICK g : g = work'[a].list[i]
    OBVIOUS
  <2>1. g = work[a].list[i] /\ g # h /\ NotBegan(g) /\ \A l \in Keys : \A j \in 1..Len(exits[l]) : exits[l][j] # g
    BY <1>6, <1>7 DEF HandlersInv, DrainsWait, Draining
  <2>2. NotBegan(g)'
    BY <1>4, <2>1
  <2>3. \A x \in 1..Len(began') : began'[x] # <<"handler", g>>
    BY <2>2 DEF NotBegan
  <2> QED
    BY <2>1, <2>3
<1> QED
  BY <1>8, <1>9, <1>10, <1>11 DEF HandlersInv

(* A function that is nowhere yet is put into a list.                          *)
LEMMA HandlerAdded ==
  ASSUME ModulesType, HandlersInv, NEW h \in Handlers, NEW k \in Keys, AddAtExit(h, k)
  PROVE  HandlersInv'
<1>1. /\ UNCHANGED <<work, began>> /\ exits' = [exits EXCEPT ![k] = Append(exits[k], h)]
      /\ ~Known(h)
  BY DEF AddAtExit
<1>2. NotBegan(h)
  <2> SUFFICES ASSUME NEW i \in 1..Len(began), began[i] = <<"handler", h>> PROVE FALSE
    BY DEF NotBegan
  <2>1. DOMAIN began = 1..Len(began)
    BY DEF ModulesType
  <2>2. <<"handler", h>> \in ToSet(began)
    BY <2>1 DEF ToSet
  <2> QED
    BY <1>1, <2>2 DEF Known
<1>3. \A l \in Keys : \A i \in 1..Len(exits[l]) : exits[l][i] # h
  <2> SUFFICES ASSUME NEW l \in Keys, NEW i \in 1..Len(exits[l]), exits[l][i] = h PROVE FALSE
    OBVIOUS
  <2>1. l \in DOMAIN exits /\ h \in ToSet(exits[l])
    BY DEF ToSet, ModulesType
  <2> QED
    BY <1>1, <2>1 DEF Known, Registered
<1>4. \A a \in 1..Len(work) : work[a].do = "drain" => \A i \in 1..Len(work[a].list) : work[a].list[i] # h
  BY <1>1 DEF Known, ToSet
<1>5. /\ Len(exits'[k]) = Len(exits[k]) + 1 /\ Len(exits[k]) \in Nat
      /\ \A i \in 1..Len(exits[k]) : exits'[k][i] = exits[k][i]
      /\ exits'[k][Len(exits[k]) + 1] = h
      /\ \A l \in Keys : l # k => exits'[l] = exits[l]
  <2>1. exits[k] \in Seq(Handlers) /\ exits'[k] = Append(exits[k], h) /\ \A l \in Keys : l # k => exits'[l] = exits[l]
    BY <1>1 DEF ModulesType
  <2> QED
    BY <2>1, AppendProperties, LenProperties
<1>6. \A l \in Keys : \A i \in 1..Len(exits'[l]) :
        \/ i \in 1..Len(exits[l]) /\ exits'[l][i] = exits[l][i]
        \/ l = k /\ i = Len(exits[k]) + 1 /\ exits'[l][i] = h
  <2> SUFFICES ASSUME NEW l \in Keys, NEW i \in 1..Len(exits'[l])
               PROVE  \/ i \in 1..Len(exits[l]) /\ exits'[l][i] = exits[l][i]
                      \/ l = k /\ i = Len(exits[k]) + 1 /\ exits'[l][i] = h
    OBVIOUS
  <2>1. CASE l = k
    <3>1. i \in 1..Len(exits[k]) \/ i = Len(exits[k]) + 1
      BY <1>5, <2>1
    <3> QED
      BY <1>5, <2>1, <3>1
  <2>2. CASE l # k
    BY <1>5, <2>2
  <2> QED
    BY <2>1, <2>2
<1>7. \A g : NotBegan(g) => NotBegan(g)'
  BY <1>1 DEF NotBegan
<1>8. BeganOnce'
  BY <1>1 DEF HandlersInv, BeganOnce
<1>9. ListsAreApart'
  <2> SUFFICES ASSUME NEW l \in Keys, NEW m \in Keys, NEW i \in 1..Len(exits'[l]), NEW j \in 1..Len(exits'[m]),
                      exits'[l][i] = exits'[m][j]
               PROVE  l = m /\ i = j
    BY DEF ListsAreApart
  <2>1. CASE i \in 1..Len(exits[l]) /\ exits'[l][i] = exits[l][i] /\ j \in 1..Len(exits[m]) /\ exits'[m][j] = exits[m][j]
    <3>1. exits[l][i] = exits[m][j]
      BY <2>1
    <3>2. \A x \in 1..Len(exits[l]), y \in 1..Len(exits[m]) : exits[l][x] = exits[m][y] => l = m /\ x = y
      BY Zenon DEF HandlersInv, ListsAreApart
    <3> QED
      BY <2>1, <3>1, <3>2
  <2>2. CASE i \notin 1..Len(exits[l]) \/ exits'[l][i] # exits[l][i] \/ j \notin 1..Len(exits[m]) \/ exits'[m][j] # exits[m][j]
    BY <1>3, <1>6, <2>2
  <2> QED
    BY <2>1, <2>2
<1>10. ListsWait'
  BY <1>2, <1>6, <1>7 DEF HandlersInv, ListsWait
<1>11. DrainsAreApart'
  BY <1>1 DEF HandlersInv, DrainsAreApart, Draining
<1>12. DrainsWait'
  <2> SUFFICES ASSUME NEW a \in 1..Len(work), work[a].do = "drain", NEW i \in 1..Len(work[a].list)
               PROVE  /\ NotBegan(work[a].list[i])
                      /\ \A l \in Keys : \A j \in 1..Len(exits'[l]) : exits'[l][j] # work[a].list[i]
    BY <1>1 DEF DrainsWait, Draining, NotBegan
  <2>1. /\ NotBegan(work[a].list[i]) /\ work[a].list[i] # h
        /\ \A l \in Keys : \A j \in 1..Len(exits[l]) : exits[l][j] # work[a].list[i]
    BY <1>4 DEF HandlersInv, DrainsWait, Draining
  <2> QED
    BY <1>6, <2>1
<1> QED
  BY <1>8, <1>9, <1>10, <1>11, <1>12 DEF HandlersInv

(* The slots given to the modules ms are new and different from each other.    *)
Through(S, i) == {x \in S : x <= i}

LEMMA SlotsAreNumbered ==
  ASSUME NEW n \in Nat, NEW New \in SUBSET (1..n), NEW i \in New, NEW j \in New, i < j
  PROVE  Cardinality(Through(New, i)) < Cardinality(Through(New, j))
<1> DEFINE A == Through(New, i)
           B == Through(New, j)
<1>0. \A x \in New : x \in Int
  OBVIOUS
<1>1. A \in SUBSET B /\ B \in SUBSET New /\ i \in A /\ j \in B /\ j \notin A
  <2>1. i <= i /\ j <= j /\ ~(j <= i) /\ \A x \in New : x <= i => x <= j
    BY <1>0
  <2> QED
    BY <2>1, Zenon DEF Through
<1> HIDE DEF A, B
<1>2. IsFiniteSet(New)
  <2>1. IsFiniteSet(1..n)
    BY FS_Interval
  <2> QED
    BY <2>1, FS_Subset
<1>3. IsFiniteSet(B) /\ Cardinality(B) <= Cardinality(New)
  BY <1>1, <1>2, FS_Subset
<1>4. IsFiniteSet(A) /\ Cardinality(A) <= Cardinality(B) /\ Cardinality(A) # Cardinality(B)
  BY <1>1, <1>3, FS_Subset
<1>5. Cardinality(A) \in Nat /\ Cardinality(B) \in Nat
  BY <1>3, <1>4, FS_CardinalityType
<1>6. Cardinality(A) < Cardinality(B)
  BY <1>4, <1>5
<1> QED
  BY <1>6 DEF A, B

LEMMA SlotIsNumber ==
  ASSUME NEW n \in Nat, NEW New \in SUBSET (1..n), NEW i \in New
  PROVE  /\ Cardinality(Through(New, i)) \in Nat \ {0}
         /\ Cardinality(Through(New, i)) <= Cardinality(New) /\ Cardinality(New) \in Nat
<1> DEFINE A == Through(New, i)
<1>1. A \in SUBSET New /\ i \in A
  <2>1. i \in Int
    OBVIOUS
  <2> QED
    BY <2>1 DEF Through
<1> HIDE DEF A
<1>2. IsFiniteSet(New)
  <2>1. IsFiniteSet(1..n)
    BY FS_Interval
  <2> QED
    BY <2>1, FS_Subset
<1>3. IsFiniteSet(A) /\ Cardinality(A) <= Cardinality(New)
  BY <1>1, <1>2, FS_Subset
<1>4. Cardinality(A) \in Nat /\ Cardinality(New) \in Nat /\ Cardinality(A) # 0
  BY <1>1, <1>2, <1>3, FS_CardinalityType, FS_EmptySet
<1> QED
  BY <1>3, <1>4 DEF A

(* setup_static_tls of modules each named once.                                *)
LEMMA SlotsGiven ==
  ASSUME TlsType, TlsIsOwn, NEW ms \in Seq(Names), SetUpTls(ms),
         \A i, j \in 1..Len(ms) : ms[i] = ms[j] => i = j
  PROVE  /\ TlsType' /\ TlsIsOwn' /\ UNCHANGED threads
         /\ \A m \in Libs : slot[m] # 0 => slot'[m] = slot[m]
         /\ \A i \in 1..Len(ms) : HasTls(ms[i])'
<1> DEFINE New == {i \in 1..Len(ms) : ms[i] \in WithTls /\ slot[ms[i]] = 0}
           Upto(i) == Cardinality(Through(New, i))
           Number(i) == lastSlot + Upto(i)
           Chosen(m) == CHOOSE i \in New : ms[i] = m
<1>1. /\ slot' = [m \in Libs |-> IF \E i \in New : ms[i] = m THEN Number(Chosen(m)) ELSE slot[m]]
      /\ lastSlot' = lastSlot + Cardinality(New)
      /\ block' = block \cup (1..threads) \X {Number(i) : i \in New}
      /\ threads' = threads
  BY Zenon DEF SetUpTls, Through
<1>2. Len(ms) \in Nat /\ New \in SUBSET (1..Len(ms))
  BY LenProperties
<1>3. \A i \in New : ms[i] \in WithTls /\ ms[i] \in Libs /\ slot[ms[i]] = 0
  BY ModulesAssumption
<1>4. \A i \in 1..Len(ms) : ms[i] \in WithTls => ms[i] \in Libs /\ (i \in New \/ slot[ms[i]] # 0)
  BY ModulesAssumption
<1>5. \A i, j \in New : ms[i] = ms[j] => i = j
  BY <1>2
<1> HIDE DEF New
<1>a. \A i, j \in New : i < j => Upto(i) < Upto(j)
  BY <1>2, SlotsAreNumbered, Zenon
<1>b. \A i \in New : Upto(i) \in Nat \ {0} /\ Upto(i) <= Cardinality(New) /\ Cardinality(New) \in Nat
  BY <1>2, SlotIsNumber, Zenon
<1>c. Cardinality(New) \in Nat
  <2>0. IsFiniteSet(1..Len(ms))
    BY <1>2, FS_Interval
  <2>1. IsFiniteSet(New)
    BY <1>2, <2>0, FS_Subset
  <2> QED
    BY <2>1, FS_CardinalityType
<1>d. \A i \in New : i \in Int
  BY <1>2
<1> HIDE DEF Upto
<1>6. \A i \in New : Number(i) \in Nat /\ Number(i) > lastSlot /\ Number(i) <= lastSlot'
  BY <1>1, <1>b, <1>c DEF TlsType
<1>7. \A i, j \in New : Number(i) = Number(j) => i = j
  <2> SUFFICES ASSUME NEW i \in New, NEW j \in New, Upto(i) = Upto(j), i # j PROVE FALSE
    BY <1>b DEF TlsType
  <2>1. i < j \/ j < i
    BY <1>d
  <2> QED
    BY <1>a, <1>b, <2>1
<1>8. \A i \in New : Chosen(ms[i]) = i
  BY <1>5
<1> HIDE DEF Chosen
<1>9. \A i \in New : slot'[ms[i]] = Number(i)
  BY <1>1, <1>3, <1>8
<1>10. \A m \in Libs : (\E i \in New : ms[i] = m) \/ slot'[m] = slot[m]
  BY <1>1
<1> HIDE DEF Number
<1>11. TlsType'
  <2>1. \A m \in Libs : slot'[m] \in Nat
    BY <1>6, <1>9, <1>10 DEF TlsType
  <2>2. slot' \in [Libs -> Nat]
    BY <1>1, <2>1
  <2> QED
    BY <1>1, <1>c, <2>2 DEF TlsType
<1>12. \A m \in Libs : slot[m] # 0 => slot'[m] = slot[m]
  BY <1>3, <1>10
<1>13. lastSlot <= lastSlot' /\ lastSlot \in Nat /\ lastSlot' \in Nat
  BY <1>1, <1>c DEF TlsType
<1>14. \A m \in Libs : slot'[m] <= lastSlot'
  <2> TAKE m \in Libs
  <2>1. CASE slot'[m] = slot[m]
    <3>1. slot[m] <= lastSlot /\ slot[m] \in Nat
      BY DEF TlsIsOwn, TlsType
    <3> QED
      BY <1>13, <2>1, <3>1
  <2>2. CASE \E i \in New : ms[i] = m
    BY <1>6, <1>9, <2>2
  <2> QED
    BY <1>10, <2>1, <2>2
<1>15. ASSUME NEW m \in Libs, NEW n \in Libs, slot'[m] # 0, slot'[m] = slot'[n] PROVE m = n
  <2>0. slot[m] <= lastSlot /\ slot[m] \in Nat /\ slot[n] <= lastSlot /\ slot[n] \in Nat
    BY DEF TlsIsOwn, TlsType
  <2>1. CASE slot'[m] = slot[m] /\ slot'[n] = slot[n]
    BY <1>15, <2>1 DEF TlsIsOwn
  <2>2. CASE (\E i \in New : ms[i] = m) /\ slot'[n] = slot[n]
    BY <1>6, <1>9, <1>13, <1>15, <2>0, <2>2
  <2>3. CASE slot'[m] = slot[m] /\ \E i \in New : ms[i] = n
    <3> PICK i \in New : ms[i] = n
      BY <2>3
    <3>1. slot[m] = Number(i)
      BY <1>9, <1>15, <2>3
    <3> QED
      BY <1>6, <1>13, <2>0, <3>1
  <2>4. CASE (\E i \in New : ms[i] = m) /\ \E i \in New : ms[i] = n
    BY <1>7, <1>9, <1>15, <2>4
  <2> QED
    BY <1>10, <2>1, <2>2, <2>3, <2>4
<1>16. ASSUME NEW m \in Libs, slot'[m] # 0, NEW t \in 1..threads' PROVE <<t, slot'[m]>> \in block'
  <2>1. CASE slot'[m] = slot[m]
    BY <1>1, <1>16, <2>1 DEF TlsIsOwn
  <2>2. CASE \E i \in New : ms[i] = m
    BY <1>1, <1>9, <1>16, <2>2
  <2> QED
    BY <1>10, <2>1, <2>2
<1>17. TlsIsOwn'
  BY <1>14, <1>15, <1>16 DEF TlsIsOwn
<1>18. \A i \in 1..Len(ms) : HasTls(ms[i])'
  <2> SUFFICES ASSUME NEW i \in 1..Len(ms), ms[i] \in WithTls PROVE slot'[ms[i]] # 0
    BY DEF HasTls
  <2>1. CASE i \in New
    BY <1>6, <1>9, <1>13, <2>1
  <2>2. CASE slot[ms[i]] # 0
    BY <1>4, <1>12, <2>2
  <2> QED
    BY <1>4, <2>1, <2>2
<1> QED
  BY <1>1, <1>11, <1>12, <1>17, <1>18

LEMMA TaskFields ==
  ASSUME NEW t \in Tasks
  PROVE  /\ t.do = "bind" => t.of \in Names /\ t.at \in Nat \ {0}
         /\ t.do = "init" => t.of \in Names
         /\ t.do = "pending" => t.at \in Nat
         /\ t.do = "run" => t.saved \in BOOLEAN
         /\ t.do = "drain" => t.list \in Seq(Handlers)
         /\ t.do = "tables" => t.at \in Nat \ {0}
BY DEF Tasks

(* Slots are only given and modules only added, so a task that was prepared    *)
(* stays so; a call stack whose new tasks are is.                              *)
LEMMA StackIsPrepared ==
  ASSUME ModulesType, WorkIsPrepared,
         \A m \in Libs : slot[m] # 0 => slot'[m] # 0,
         Len(modules) <= Len(modules'), \A i \in 1..Len(modules) : modules'[i] = modules[i], modules' \in Seq(Libs),
         NEW n, n \in 0..Len(work), NEW T, Over(work', n, T), \A t \in T : Prepared(t)'
  PROVE  WorkIsPrepared'
<1>1. \A m : HasTls(m) => HasTls(m)'
  BY ModulesAssumption DEF HasTls
<1>2. ASSUME NEW t \in Tasks, Prepared(t) PROVE Prepared(t)'
  <2>1. t.do = "init" => HasTls(t.of)'
    BY <1>1, <1>2 DEF Prepared
  <2>2. ASSUME t.do = "pending" PROVE t.at <= Len(modules') /\ \A j \in 1..t.at : HasTls(modules[j])'
    <3>1. t.at \in Nat /\ Len(modules) \in Nat /\ Len(modules') \in Nat /\ t.at <= Len(modules)
      BY <1>2, <2>2, TaskFields, LenProperties DEF Prepared, ModulesType
    <3>2. ASSUME NEW j \in 1..t.at PROVE HasTls(modules[j])'
      <4>1. j \in 1..Len(modules) /\ modules'[j] = modules[j]
        BY <3>1
      <4> PICK m : m = modules[j]
        OBVIOUS
      <4>2. HasTls(m)
        BY <1>2, <2>2 DEF Prepared
      <4>3. HasTls(m)'
        BY <1>1, <4>2
      <4> QED
        BY <4>1, <4>3 DEF HasTls
    <3>3. t.at <= Len(modules')
      BY <3>1
    <3> QED
      BY <3>2, <3>3, Zenon
  <2> QED
    BY <2>1, <2>2 DEF Prepared
<1>3. ASSUME NEW a \in 1..Len(work') PROVE Prepared(work[a])'
  <2> PICK t : t = work'[a]
    OBVIOUS
  <2>1. CASE t \in T
    <3>1. Prepared(t)'
      BY <2>1
    <3> QED
      BY <3>1 DEF Prepared, HasTls
  <2>2. CASE t \notin T
    <3>1. a \in 1..Len(work) /\ t = work[a]
      <4>1. a \in 1..n /\ t = work[a]
        BY <2>2 DEF Over
      <4>2. Len(work) \in Nat
        BY LenProperties DEF ModulesType
      <4> QED
        BY <4>1, <4>2
    <3>2. t \in Tasks /\ Prepared(t)
      BY <3>1, ElementOfSeq DEF ModulesType, WorkIsPrepared
    <3>3. Prepared(t)'
      BY <1>2, <3>2
    <3> QED
      BY <3>3 DEF Prepared, HasTls
  <2> QED
    BY <2>1, <2>2
<1> QED
  BY <1>3 DEF WorkIsPrepared

LEMMA NoDrainAdded ==
  ASSUME ModulesType, NEW n, n \in 0..Len(work), NEW T, Over(work', n, T), \A t \in T : t.do # "drain"
  PROVE  \A a \in 1..Len(work') : work'[a].do = "drain" => a \in 1..Len(work) /\ work'[a] = work[a]
<1>1. Len(work) \in Nat
  BY LenProperties DEF ModulesType
<1>2. \A a \in 1..n : a \in 1..Len(work)
  BY <1>1
<1> QED
  BY <1>2 DEF Over

Loaded ==
  /\ modules' \in Seq(Libs) /\ NoModuleTwice'
  /\ Len(modules) <= Len(modules') /\ \A i \in 1..Len(modules) : modules'[i] = modules[i]

SlotsKept ==
  /\ TlsType' /\ TlsIsOwn' /\ \A m \in Libs : slot[m] # 0 => slot'[m] # 0

Called == UNCHANGED began \/ \E what, m : what # "handler" /\ <<what, m>> \in Calls /\ began' = Append(began, <<what, m>>)

(* A step by which no function registered for the end is moved.                *)
LEMMA StackStep ==
  ASSUME ModulesInv,
         NEW n, n \in 0..Len(work), NEW T, Over(work', n, T), \A t \in T : t.do # "drain" /\ Prepared(t)',
         imports' = imports, UNCHANGED lists, halted' \in BOOLEAN, Loaded, SlotsKept, Called,
         \A m \in initialised' : HasTls(m)'
  PROVE  ModulesInv'
<1>1. ModulesType'
  <2>1. began' \in Seq(Calls)
    <3>1. CASE UNCHANGED began
      BY <3>1 DEF ModulesInv, ModulesType
    <3>2. CASE ~UNCHANGED began
      <4> PICK what, m : <<what, m>> \in Calls /\ began' = Append(began, <<what, m>>)
        BY <3>2 DEF Called
      <4>1. began \in Seq(Calls)
        BY DEF ModulesInv, ModulesType
      <4> QED
        BY <4>1, OneMore
    <3> QED
      BY <3>1, <3>2
  <2> QED
    BY <2>1 DEF ModulesInv, ModulesType, Over, Loaded, lists
<1>2. HandlersInv'
  <2>1. \A a \in 1..Len(work') : work'[a].do = "drain" => a \in 1..Len(work) /\ work'[a] = work[a]
    BY NoDrainAdded DEF ModulesInv
  <2> QED
    BY <2>1, HandlersAside DEF ModulesInv, Called, lists
<1>3. WorkIsPrepared'
  BY StackIsPrepared DEF ModulesInv, TlsInv, Loaded, SlotsKept
<1> QED
  BY <1>1, <1>2, <1>3 DEF ModulesInv, TlsInv, Loaded, SlotsKept

LEMMA StackLeft ==
  ASSUME ModulesInv,
         NEW n, n \in 0..Len(work), Over(work', n, {}),
         imports' = imports, UNCHANGED lists, halted' \in BOOLEAN, Loaded, SlotsKept, Called,
         \A m \in initialised' : HasTls(m)'
  PROVE  ModulesInv'
<1> PICK T : T = {}
  OBVIOUS
<1>1. Over(work', n, T) /\ \A t \in T : t.do # "drain" /\ Prepared(t)'
  OBVIOUS
<1> QED
  BY <1>1, StackStep

(* A step by which one is, of the tasks, the lists and the calls alone.        *)
LEMMA HandlerStep ==
  ASSUME ModulesInv, HandlersInv',
         NEW n, n \in 0..Len(work), NEW T, Over(work', n, T), \A t \in T : t.do \notin {"init", "pending"},
         exits' \in [Keys -> Seq(Handlers)], tables' \in Seq(Keys), began' \in Seq(Calls), halted' \in BOOLEAN,
         UNCHANGED <<imports, modules, initialised, tls>>
  PROVE  ModulesInv'
<1>1. ModulesType'
  BY DEF ModulesInv, ModulesType, Over
<1>2. \A t \in T : Prepared(t)'
  BY DEF Prepared
<1>3. Len(modules) \in Nat
  BY LenProperties DEF ModulesInv, ModulesType
<1>4. WorkIsPrepared'
  <2>1. ModulesType /\ WorkIsPrepared /\ modules' \in Seq(Libs)
    BY DEF ModulesInv, ModulesType, TlsInv
  <2>2. (\A m \in Libs : slot[m] # 0 => slot'[m] # 0) /\ \A i \in 1..Len(modules) : modules'[i] = modules[i]
    BY DEF tls
  <2>3. Len(modules) <= Len(modules')
    BY <1>3
  <2> QED
    BY <1>2, <2>1, <2>2, <2>3, StackIsPrepared
<1>5. TlsType' /\ NoModuleTwice' /\ TlsIsOwn' /\ \A m \in initialised' : HasTls(m)'
  BY DEF ModulesInv, TlsInv, TlsType, NoModuleTwice, TlsIsOwn, HasTls, tls
<1> QED
  BY <1>1, <1>4, <1>5 DEF ModulesInv, TlsInv

-----------------------------------------------------------------------------
(* The steps.                                                                  *)

LEMMA ImportsAreLibs ==
  ASSUME ModulesType, NEW m \in Names
  PROVE  imports[m] \in Seq(Libs) /\ \A i \in 1..Len(imports[m]) : imports[m][i] \in Libs
<1>1. imports[m] \in Seq(Libs)
  BY ModulesAssumption DEF ModulesType, Names
<1> QED
  BY <1>1, ElementOfSeq

(* load_library: the library is at most added to the modules and to what is    *)
(* to be bound.                                                                *)
LEMMA LoadAdds ==
  ASSUME ModulesType, NoModuleTwice, NEW m \in Libs, NEW under, Load(m, under),
         NEW n, NEW T, Over(under, n, T)
  PROVE  Loaded /\ Over(work', n, T \cup {Bind(m, 1)})
<1>0. modules \in Seq(Libs)
  BY DEF ModulesType
<1>1. CASE m \in ToSet(modules)
  BY <1>0, <1>1, LenProperties DEF Load, Loaded, NoModuleTwice, Over
<1>2. CASE m \notin ToSet(modules)
  <2>1. modules' = Append(modules, m) /\ work' = Append(under, Bind(m, 1))
    BY <1>2 DEF Load, Push
  <2>2. Bind(m, 1) \in Tasks
    BY DEF Bind, Tasks, Names
  <2>3. Over(work', n, T \cup {Bind(m, 1)})
    BY <2>1, <2>2, Stacks DEF Over
  <2>4. /\ modules' \in Seq(Libs) /\ Len(modules') = Len(modules) + 1 /\ Len(modules) \in Nat
        /\ \A i \in 1..Len(modules) : modules'[i] = modules[i]
        /\ modules'[Len(modules) + 1] = m
        /\ \A i \in 1..Len(modules') : i \in 1..Len(modules) \/ i = Len(modules) + 1
    BY <1>0, <2>1, OneMore
  <2>5. \A i \in 1..Len(modules) : modules[i] # m
    BY <1>0, <1>2, LenProperties DEF ToSet
  <2>6. NoModuleTwice'
    BY <2>4, <2>5 DEF NoModuleTwice
  <2> QED
    BY <2>3, <2>4, <2>6 DEF Loaded
<1> QED
  BY <1>1, <1>2

LEMMA SlotsStay ==
  ASSUME TlsInv, UNCHANGED tls
  PROVE  SlotsKept
BY DEF TlsInv, TlsType, TlsIsOwn, SlotsKept, tls

LEMMA ModulesStay ==
  ASSUME ModulesInv, UNCHANGED modules
  PROVE  Loaded
BY LenProperties DEF ModulesInv, ModulesType, TlsInv, NoModuleTwice, Loaded

LEMMA BindImportsKeeps == ASSUME ModulesInv, BindImports PROVE ModulesInv'
<1> PICK t : t = Top
  OBVIOUS
<1> PICK w : w = Below
  OBVIOUS
<1>1. work \in Seq(Tasks) /\ work # <<>> /\ t.do = "bind"
  BY DEF BindImports, Doing, ModulesInv, ModulesType
<1>2. t \in Tasks /\ t.of \in Names /\ t.at \in Nat \ {0} /\ Len(work) - 1 \in 0..Len(work) /\ Over(w, Len(work) - 1, {})
  <2>1. t \in Tasks /\ Len(work) \in Nat \ {0}
    BY <1>1, BelowIsStack
  <2> QED
    BY <1>1, <2>1, TaskFields, Popped
<1>3. /\ imports' = imports /\ UNCHANGED lists /\ halted' \in BOOLEAN /\ Called
      /\ initialised' = initialised /\ \A m \in initialised : HasTls(m)
  BY DEF BindImports, Called, ModulesInv, ModulesType, TlsInv
<1>4. ASSUME SlotsKept PROVE \A m \in initialised' : HasTls(m)'
  BY <1>3, <1>4, ModulesAssumption DEF HasTls, SlotsKept
<1>8. Len(imports[t.of]) \in Nat /\ \A i \in 1..Len(imports[t.of]) : imports[t.of][i] \in Libs
  BY <1>2, ImportsAreLibs, LenProperties DEF ModulesInv
<1>5. CASE t.at <= Len(imports[t.of])
  <2>1. imports[t.of][t.at] \in Libs
    BY <1>2, <1>5, <1>8
  <2> DEFINE more == Bind(t.of, t.at + 1)
             m == imports[t.of][t.at]
  <2>2. more \in Tasks /\ more.do = "bind"
    BY <1>2 DEF Bind, Tasks
  <2>3. Load(m, Push(more, w)) /\ UNCHANGED tls
    BY <1>2, <1>5, ImportsAreLibs, LenProperties DEF BindImports, Then, Push, ModulesInv
  <2> HIDE DEF more
  <2>4. Over(Push(more, w), Len(work) - 1, {} \cup {more})
    BY <1>1, <1>2, <2>2, Pushed
  <2>5. Loaded /\ Over(work', Len(work) - 1, ({} \cup {more}) \cup {Bind(m, 1)})
    BY <2>1, <2>3, <2>4, LoadAdds DEF ModulesInv, TlsInv
  <2> PICK b : b = Bind(m, 1)
    OBVIOUS
  <2>6. SlotsKept
    BY <2>3, SlotsStay DEF ModulesInv
  <2>7. \A x \in {more, b} : x.do # "drain" /\ Prepared(x)'
    BY <2>2 DEF Prepared, Bind
  <2>8. Over(work', Len(work) - 1, {more, b})
    BY <2>5
  <2>9. \A x \in initialised' : HasTls(x)'
    BY <1>4, <2>6
  <2>10. Loaded
    BY <2>5
  <2> HIDE DEF m
  <2> QED
    BY <1>2, <1>3, <2>6, <2>7, <2>8, <2>9, <2>10, StackStep
<1>6. CASE t.at > Len(imports[t.of]) /\ ready
  <2> PICK i : i = InitTask(t.of, "start")
    OBVIOUS
  <2>1. SetUpTls(<<t.of>>) /\ work' = Push(i, w) /\ UNCHANGED modules
    BY <1>2, <1>6, ImportsAreLibs, LenProperties DEF BindImports, Then, Push, ModulesInv
  <2>2. i \in Tasks /\ i.do = "init" /\ i.of = t.of
    BY <1>2 DEF InitTask, Tasks
  <2>3. Over(work', Len(work) - 1, {i})
    BY <1>1, <1>2, <2>1, <2>2, Pushed
  <2>4. SlotsKept /\ HasTls(t.of)'
    <3> DEFINE ms == <<t.of>>
    <3>1. ms \in Seq(Names) /\ Len(ms) = 1 /\ ms[1] = t.of /\ \A x, y \in 1..Len(ms) : ms[x] = ms[y] => x = y
      BY <1>2
    <3>2. SetUpTls(ms)
      BY <2>1
    <3> HIDE DEF ms
    <3>3. /\ TlsType' /\ TlsIsOwn' /\ UNCHANGED threads
          /\ \A m \in Libs : slot[m] # 0 => slot'[m] = slot[m]
          /\ \A x \in 1..Len(ms) : HasTls(ms[x])'
      BY <3>1, <3>2, SlotsGiven DEF ModulesInv, TlsInv
    <3>4. HasTls(ms[1])'
      BY <3>1, <3>3
    <3> QED
      BY <3>1, <3>3, <3>4 DEF SlotsKept
  <2>5. Loaded
    BY <2>1, ModulesStay
  <2>6. \A x \in {i} : x.do # "drain" /\ Prepared(x)'
    BY <2>2, <2>4 DEF Prepared
  <2> QED
    BY <1>2, <1>3, <1>4, <2>3, <2>4, <2>5, <2>6, StackStep
<1>7. CASE t.at > Len(imports[t.of]) /\ ~ready
  <2>1. work' = w /\ UNCHANGED modules /\ UNCHANGED tls
    BY <1>2, <1>7, ImportsAreLibs, LenProperties DEF BindImports, ModulesInv
  <2>2. SlotsKept /\ Loaded
    BY <2>1, SlotsStay, ModulesStay DEF ModulesInv
  <2>3. Over(work', Len(work) - 1, {})
    BY <1>2, <2>1
  <2>4. \A x \in initialised' : HasTls(x)'
    BY <1>4, <2>2
  <2> QED
    BY <1>2, <1>3, <2>2, <2>3, <2>4, StackLeft
<1> QED
  BY <1>2, <1>5, <1>6, <1>7, <1>8

LEMMA EnvironmentUpKeeps == ASSUME ModulesInv, EnvironmentUp PROVE ModulesInv'
<1> PICK t : t = Pending(Len(modules))
  OBVIOUS
<1>1. /\ SetUpTls(modules) /\ work' = <<t>> /\ work = <<>>
      /\ imports' = imports /\ UNCHANGED lists /\ halted' \in BOOLEAN /\ Called /\ UNCHANGED modules
      /\ initialised' = initialised /\ \A m \in initialised : HasTls(m)
  BY DEF EnvironmentUp, Called, ModulesInv, ModulesType, TlsInv
<1>2. modules \in Seq(Names) /\ Len(modules) \in Nat /\ \A i, j \in 1..Len(modules) : modules[i] = modules[j] => i = j
  BY LenProperties DEF ModulesInv, ModulesType, TlsInv, NoModuleTwice, Names
<1>3. /\ TlsType' /\ TlsIsOwn' /\ UNCHANGED threads
      /\ \A m \in Libs : slot[m] # 0 => slot'[m] = slot[m]
      /\ \A x \in 1..Len(modules) : HasTls(modules[x])'
  BY <1>1, <1>2, SlotsGiven, Zenon DEF ModulesInv, TlsInv
<1>4. SlotsKept /\ Loaded
  BY <1>1, <1>3, ModulesStay DEF SlotsKept
<1>5. t \in Tasks /\ t.do = "pending" /\ t.at = Len(modules)
  BY <1>2 DEF Pending, Tasks
<1>6. 0 \in 0..Len(work) /\ Over(work', 0, {t})
  <2>1. Len(work) = 0 /\ <<t>> \in Seq(Tasks) /\ Len(<<t>>) = 1 /\ <<t>>[1] = t
    BY <1>1, <1>5
  <2> QED
    BY <1>1, <2>1 DEF Over
<1>7. \A x \in {t} : x.do # "drain" /\ Prepared(x)'
  BY <1>1, <1>2, <1>3, <1>5 DEF Prepared, HasTls
<1>8. \A m \in initialised' : HasTls(m)'
  BY <1>1, <1>4, ModulesAssumption DEF HasTls, SlotsKept
<1> QED
  BY <1>1, <1>4, <1>6, <1>7, <1>8, StackStep

(* What the steps that load nothing and set up no slot leave alone.            *)
LEMMA Aside ==
  ASSUME ModulesInv, UNCHANGED <<imports, modules, tls, lists>>
  PROVE  imports' = imports /\ UNCHANGED lists /\ Loaded /\ SlotsKept /\ \A m : HasTls(m) => HasTls(m)'
BY SlotsStay, ModulesStay DEF HasTls, tls, ModulesInv

LEMMA ReadyInit ==
  ASSUME NEW m \in Names, NEW when \in {"start", "called"}
  PROVE  /\ InitTask(m, when) \in Tasks /\ InitTask(m, when).do = "init" /\ InitTask(m, when).of = m
BY DEF InitTask, Tasks

LEMMA RunTask ==
  ASSUME NEW m \in Names \cup Handlers, NEW b \in BOOLEAN
  PROVE  Running(m, b) \in Tasks /\ Running(m, b).do = "run"
BY DEF Running, Tasks

(* call_guest *)
LEMMA GuestCalled ==
  ASSUME ModulesInv, UNCHANGED <<imports, modules, tls, lists>>,
         NEW n, n \in 0..Len(work), NEW T, NEW under, Over(under, n, T), \A t \in T : t.do # "drain" /\ Prepared(t)',
         NEW m \in Names, NEW what \in {"main", "callback", "DllMain"}, CallGuest(m, what, under),
         \A x \in initialised' : HasTls(x)'
  PROVE  ModulesInv'
<1> PICK r : r = Running(m, halted)
  OBVIOUS
<1>1. work \in Seq(Tasks) /\ halted \in BOOLEAN
  BY DEF ModulesInv, ModulesType
<1>2. r \in Tasks /\ r.do = "run"
  BY <1>1, RunTask
<1>3. work' = Push(r, under) /\ halted' \in BOOLEAN /\ began' = Append(began, <<what, m>>)
  BY DEF CallGuest
<1>4. Called
  <2>1. what # "handler" /\ <<what, m>> \in Calls
    BY DEF Calls
  <2> QED
    BY <1>3, <2>1 DEF Called
<1> PICK U : U = T \cup {r}
  OBVIOUS
<1>5. Over(work', n, U)
  BY <1>1, <1>2, <1>3, Pushed
<1>6. \A x \in U : x.do # "drain" /\ Prepared(x)'
  <2>1. Prepared(r)'
    BY <1>2 DEF Prepared
  <2> QED
    BY <1>2, <2>1
<1>7. imports' = imports /\ UNCHANGED lists /\ Loaded /\ SlotsKept
  BY Aside
<1> QED
  BY <1>3, <1>4, <1>5, <1>6, <1>7, StackStep

LEMMA InitPendingKeeps == ASSUME ModulesInv, InitPending PROVE ModulesInv'
<1> PICK t : t = Top
  OBVIOUS
<1> PICK w : w = Below
  OBVIOUS
<1>1. work \in Seq(Tasks) /\ work # <<>> /\ t.do = "pending"
  BY DEF InitPending, Doing, ModulesInv, ModulesType
<1>2. /\ t \in Tasks /\ t.at \in Nat /\ Len(work) - 1 \in 0..Len(work) /\ Over(w, Len(work) - 1, {})
      /\ Len(work) \in 1..Len(work) /\ t = work[Len(work)]
  <2>1. t \in Tasks /\ Len(work) \in Nat \ {0} /\ t = work[Len(work)]
    BY <1>1, BelowIsStack
  <2> QED
    BY <1>1, <2>1, TaskFields, Popped
<1>3. imports' = imports /\ UNCHANGED lists /\ Loaded /\ SlotsKept /\ \A m : HasTls(m) => HasTls(m)'
  BY Aside DEF InitPending
<1>4. \A m \in initialised' : HasTls(m)'
  BY <1>3 DEF InitPending, ModulesInv, TlsInv
<1>5. CASE t.at = 0 /\ halted
  <2>1. work' = w /\ halted' \in BOOLEAN /\ Called
    BY <1>5 DEF InitPending, Called, ModulesInv, ModulesType
  <2> QED
    BY <1>2, <1>3, <1>4, <2>1, StackLeft
<1>6. CASE t.at = 0 /\ ~halted
  <2> PICK T : T = {}
    OBVIOUS
  <2>1. CallGuest("exe", "main", w) /\ Over(w, Len(work) - 1, T) /\ \A x \in T : x.do # "drain" /\ Prepared(x)'
    BY <1>2, <1>6 DEF InitPending
  <2>2. "exe" \in Names /\ UNCHANGED <<imports, modules, tls, lists>>
    BY DEF InitPending, Names
  <2> QED
    BY <1>2, <1>4, <2>1, <2>2, GuestCalled
<1>7. CASE t.at # 0
  <2>1. t.at <= Len(modules) /\ \A j \in 1..t.at : HasTls(modules[j])
    BY <1>1, <1>2 DEF ModulesInv, TlsInv, WorkIsPrepared, Prepared
  <2>2. Len(modules) \in Nat /\ \A j \in 1..Len(modules) : modules[j] \in Names
    BY LenProperties, ElementOfSeq DEF ModulesInv, ModulesType, Names
  <2> PICK m : m = modules[t.at]
    OBVIOUS
  <2>3. m \in Names /\ HasTls(m)'
    BY <1>2, <1>3, <1>7, <2>1, <2>2
  <2> PICK p : p = Pending(t.at - 1)
    OBVIOUS
  <2> PICK i : i = InitTask(m, "start")
    OBVIOUS
  <2>4. work' = Push(i, Push(p, w)) /\ halted' \in BOOLEAN /\ Called
    BY <1>7 DEF InitPending, Then, Push, Called, ModulesInv, ModulesType
  <2>5. p \in Tasks /\ p.do = "pending" /\ p.at = t.at - 1 /\ i \in Tasks /\ i.do = "init" /\ i.of = m
    <3>1. p \in Tasks /\ p.do = "pending" /\ p.at = t.at - 1
      BY <1>2, <1>7 DEF Pending, Tasks
    <3> QED
      BY <2>3, <3>1, ReadyInit
  <2>6. Over(Push(p, w), Len(work) - 1, {} \cup {p})
    BY <1>1, <1>2, <2>5, Pushed
  <2>7. Over(work', Len(work) - 1, ({} \cup {p}) \cup {i})
    BY <1>1, <2>4, <2>5, <2>6, Pushed
  <2>8. Prepared(i)'
    BY <2>3, <2>5 DEF Prepared
  <2>9. Prepared(p)'
    <3>1. p.at <= Len(modules) /\ modules' = modules
      BY <1>2, <1>7, <2>1, <2>2, <2>5 DEF InitPending
    <3>2. \A j \in 1..p.at : j \in 1..t.at
      BY <1>2, <2>5
    <3>3. \A j \in 1..p.at : HasTls(modules[j])'
      <4> TAKE j \in 1..p.at
      <4> PICK x : x = modules[j]
        OBVIOUS
      <4>1. HasTls(x)'
        BY <1>3, <2>1, <3>2
      <4> QED
        BY <3>1, <4>1 DEF HasTls
    <3> QED
      BY <2>5, <3>1, <3>3 DEF Prepared
  <2>10. Over(work', Len(work) - 1, {p, i})
    BY <2>7
  <2>11. \A x \in {p, i} : x.do # "drain" /\ Prepared(x)'
    BY <2>5, <2>8, <2>9
  <2> QED
    BY <1>2, <1>3, <1>4, <2>4, <2>10, <2>11, StackStep
<1> QED
  BY <1>5, <1>6, <1>7

LEMMA StartInitKeeps == ASSUME ModulesInv, StartInit \/ CallDllMain PROVE ModulesInv'
<1> PICK t : t = Top
  OBVIOUS
<1> PICK w : w = Below
  OBVIOUS
<1>1. work \in Seq(Tasks) /\ work # <<>> /\ t.do = "init"
  BY DEF StartInit, CallDllMain, Doing, ModulesInv, ModulesType
<1>2. /\ t \in Tasks /\ t.of \in Names /\ Len(work) - 1 \in 0..Len(work) /\ Over(w, Len(work) - 1, {})
      /\ Len(work) \in 1..Len(work) /\ t = work[Len(work)]
  <2>1. t \in Tasks /\ Len(work) \in Nat \ {0} /\ t = work[Len(work)]
    BY <1>1, BelowIsStack
  <2> QED
    BY <1>1, <2>1, TaskFields, Popped
<1>3. UNCHANGED <<imports, modules, tls, lists>>
  BY DEF StartInit, CallDllMain
<1>4. imports' = imports /\ UNCHANGED lists /\ Loaded /\ SlotsKept /\ \A m : HasTls(m) => HasTls(m)'
  BY <1>3, Aside
<1>5. HasTls(t.of)'
  BY <1>1, <1>2, <1>4 DEF ModulesInv, TlsInv, WorkIsPrepared, Prepared
<1>6. \A m \in initialised' : HasTls(m)'
  <2>1. \A m \in initialised' : m \in initialised \/ m = t.of
    BY DEF StartInit, CallDllMain
  <2>2. \A m \in initialised : HasTls(m)'
    BY <1>4 DEF ModulesInv, TlsInv
  <2> QED
    BY <1>5, <2>1, <2>2
<1>7. CASE work' = w /\ UNCHANGED <<halted, began>>
  <2>1. halted' \in BOOLEAN /\ Called
    BY <1>7 DEF Called, ModulesInv, ModulesType
  <2> QED
    BY <1>2, <1>4, <1>6, <1>7, <2>1, StackLeft
<1>8. CASE CallGuest(t.of, "DllMain", w)
  <2> PICK T : T = {}
    OBVIOUS
  <2>1. Over(w, Len(work) - 1, T) /\ \A x \in T : x.do # "drain" /\ Prepared(x)'
    BY <1>2
  <2> QED
    BY <1>2, <1>3, <1>6, <1>8, <2>1, GuestCalled
<1>9. CASE CallGuest(t.of, "callback", Push(InitTask(t.of, "called"), w))
  <2> PICK i : i = InitTask(t.of, "called")
    OBVIOUS
  <2> PICK T : T = {i}
    OBVIOUS
  <2>1. i \in Tasks /\ i.do = "init" /\ i.of = t.of
    BY <1>2, ReadyInit
  <2>2. Over(Push(i, w), Len(work) - 1, T)
    BY <1>1, <1>2, <2>1, Pushed
  <2>3. \A x \in T : x.do # "drain" /\ Prepared(x)'
    BY <1>5, <2>1 DEF Prepared
  <2> QED
    BY <1>2, <1>3, <1>6, <1>9, <2>2, <2>3, GuestCalled
<1> QED
  BY <1>7, <1>8, <1>9, Zenon DEF StartInit, CallDllMain, Then, Push

LEMMA ReturnsKeeps == ASSUME ModulesInv, GuestReturns \/ ExitProcess PROVE ModulesInv'
<1> PICK w : w = Below
  OBVIOUS
<1>1. work \in Seq(Tasks) /\ work # <<>>
  BY DEF GuestReturns, ExitProcess, Doing, ModulesInv, ModulesType
<1>2. Len(work) - 1 \in 0..Len(work) /\ Over(w, Len(work) - 1, {})
  BY <1>1, BelowIsStack, Popped
<1>3. imports' = imports /\ UNCHANGED lists /\ Loaded /\ SlotsKept /\ \A m : HasTls(m) => HasTls(m)'
  BY Aside DEF GuestReturns, ExitProcess
<1>4. \A m \in initialised' : HasTls(m)'
  BY <1>3 DEF GuestReturns, ExitProcess, ModulesInv, TlsInv
<1>5. work' = w /\ Called
  BY DEF GuestReturns, ExitProcess, Called
<1>6. halted' \in BOOLEAN
  BY DEF GuestReturns, ExitProcess
<1> QED
  BY <1>2, <1>3, <1>4, <1>5, <1>6, StackLeft

LEMMA CallLoadLibraryKeeps ==
  ASSUME ModulesInv, NEW m \in Libs, CallLoadLibrary(m) PROVE ModulesInv'
<1>1. work \in Seq(Tasks) /\ Over(work, Len(work), {}) /\ Len(work) \in 0..Len(work)
  <2>1. work \in Seq(Tasks) /\ Len(work) \in Nat
    BY LenProperties DEF ModulesInv, ModulesType
  <2> QED
    BY <2>1, Untouched
<1>2. Loaded /\ Over(work', Len(work), {} \cup {Bind(m, 1)})
  BY <1>1, LoadAdds DEF CallLoadLibrary, ModulesInv, TlsInv
<1> PICK T : T = {Bind(m, 1)}
  OBVIOUS
<1>3. Over(work', Len(work), T)
  BY <1>2
<1>4. \A x \in T : x.do # "drain" /\ Prepared(x)'
  BY DEF Bind, Prepared
<1>5. SlotsKept /\ \A x \in initialised' : HasTls(x)'
  BY SlotsStay DEF CallLoadLibrary, ModulesInv, TlsInv, HasTls, tls
<1>6. imports' = imports /\ UNCHANGED lists /\ halted' \in BOOLEAN /\ Called
  BY DEF CallLoadLibrary, Called, ModulesInv, ModulesType
<1> QED
  BY <1>1, <1>2, <1>3, <1>4, <1>5, <1>6, StackStep

LEMMA CreateThreadKeeps == ASSUME ModulesInv, CreateThread PROVE ModulesInv'
<1>1. /\ UNCHANGED <<imports, modules, initialised, work, halted, slot, lastSlot, lists, began>>
      /\ threads' = threads + 1
      /\ block' = block \cup {<<threads + 1, slot[m]>> : m \in {n \in Libs : slot[n] # 0}}
  BY DEF CreateThread
<1>2. work \in Seq(Tasks) /\ Over(work, Len(work), {}) /\ Len(work) \in 0..Len(work)
  <2>1. work \in Seq(Tasks) /\ Len(work) \in Nat
    BY LenProperties DEF ModulesInv, ModulesType
  <2> QED
    BY <2>1, Untouched
<1>3. TlsType /\ TlsIsOwn
  BY DEF ModulesInv, TlsInv
<1>4. ASSUME NEW m \in Libs, slot[m] # 0, NEW t \in 1..threads' PROVE <<t, slot[m]>> \in block'
  <2>1. t \in 1..threads \/ t = threads + 1
    BY <1>1, <1>3 DEF TlsType
  <2> QED
    BY <1>1, <1>3, <1>4, <2>1 DEF TlsIsOwn
<1>5. SlotsKept
  BY <1>1, <1>3, <1>4 DEF SlotsKept, TlsType, TlsIsOwn
<1>6. Over(work', Len(work), {}) /\ Loaded /\ \A x \in initialised' : HasTls(x)'
  BY <1>1, <1>2, ModulesStay DEF ModulesInv, TlsInv, HasTls
<1>7. imports' = imports /\ UNCHANGED lists /\ halted' \in BOOLEAN /\ Called
  BY <1>1 DEF Called, ModulesInv, ModulesType
<1> QED
  BY <1>2, <1>5, <1>6, <1>7, StackLeft

LEMMA AddAtExitKeeps ==
  ASSUME ModulesInv, NEW h \in Handlers, NEW k \in Keys, AddAtExit(h, k) PROVE ModulesInv'
<1>1. HandlersInv'
  BY HandlerAdded DEF ModulesInv
<1>2. /\ UNCHANGED <<imports, modules, initialised, tls, work, began, halted>>
      /\ exits' = [exits EXCEPT ![k] = Append(exits[k], h)]
      /\ tables' = tables \/ tables' = Append(tables, k)
  BY DEF AddAtExit
<1>3. exits \in [Keys -> Seq(Handlers)] /\ tables \in Seq(Keys) /\ work \in Seq(Tasks)
  BY DEF ModulesInv, ModulesType
<1>4. exits' \in [Keys -> Seq(Handlers)] /\ tables' \in Seq(Keys)
  <2>1. Append(exits[k], h) \in Seq(Handlers)
    BY <1>3, OneMore
  <2>2. Append(tables, k) \in Seq(Keys)
    BY <1>3, OneMore
  <2> QED
    BY <1>2, <1>3, <2>1, <2>2
<1> PICK T : T = {}
  OBVIOUS
<1>5. Len(work) \in 0..Len(work) /\ Over(work', Len(work), T) /\ \A t \in T : t.do \notin {"init", "pending"}
  <2>1. Len(work) \in Nat
    BY <1>3, LenProperties
  <2> QED
    BY <1>2, <1>3, <2>1, Untouched
<1>6. began' \in Seq(Calls) /\ halted' \in BOOLEAN
  BY <1>2 DEF ModulesInv, ModulesType
<1> QED
  BY <1>1, <1>2, <1>4, <1>5, <1>6, HandlerStep

LEMMA EmptiedList ==
  ASSUME ModulesType, NEW k \in Keys
  PROVE  Emptied(k) \in [Keys -> Seq(Handlers)]
BY DEF ModulesType, Emptied

LEMMA RunTableKeeps ==
  ASSUME ModulesInv, NEW k \in Libs, RunTable(k) PROVE ModulesInv'
<1> PICK d : d = Drain(exits[k])
  OBVIOUS
<1>1. /\ UNCHANGED <<imports, modules, initialised, tls, began, halted, tables>>
      /\ work' = Append(work, d)
      /\ exits' = Emptied(k)
  BY DEF RunTable, Emptied
<1>2. /\ exits \in [Keys -> Seq(Handlers)] /\ work \in Seq(Tasks) /\ tables' \in Seq(Keys) /\ began' \in Seq(Calls)
      /\ halted' \in BOOLEAN /\ k \in Keys
  BY <1>1 DEF ModulesInv, ModulesType, Keys
<1>3. d \in Tasks /\ d.do = "drain" /\ d.list = exits[k]
  BY <1>2 DEF Drain, Tasks
<1>4. /\ work' \in Seq(Tasks) /\ Len(work) \in Nat /\ \A a \in 1..Len(work) : work'[a] = work[a]
      /\ work'[Len(work) + 1] = d /\ \A a \in 1..Len(work') : a \in 1..Len(work) \/ a = Len(work) + 1
  BY <1>1, <1>2, <1>3, OneMore
<1> PICK p : p = Len(work) + 1
  OBVIOUS
<1>5. p \notin 1..Len(work)
  BY <1>4
<1>6. \A a \in 1..Len(work') : \/ a = p /\ work'[a].list = exits[k]
                               \/ a # p /\ a \in 1..Len(work) /\ work'[a] = work[a]
  BY <1>3, <1>4, <1>5
<1>7. HandlersInv'
  <2>1. ModulesType /\ HandlersInv /\ UNCHANGED began
    BY <1>1 DEF ModulesInv
  <2>2. AlsoDraining(work', p, exits[k])
    BY <1>6 DEF AlsoDraining
  <2> QED
    BY <1>1, <1>2, <2>1, <2>2, ListTaken
<1> PICK T : T = {d}
  OBVIOUS
<1>8. Len(work) \in 0..Len(work) /\ Over(work', Len(work), T) /\ \A t \in T : t.do \notin {"init", "pending"}
  BY <1>3, <1>4 DEF Over
<1>9. exits' \in [Keys -> Seq(Handlers)]
  BY <1>1, <1>2, EmptiedList DEF ModulesInv
<1> QED
  BY <1>1, <1>2, <1>7, <1>8, <1>9, HandlerStep

LEMMA ExitKeeps == ASSUME ModulesInv, Exit PROVE ModulesInv'
<1> PICK k : k = "process"
  OBVIOUS
<1> PICK d : d = Drain(exits[k])
  OBVIOUS
<1> PICK e : e = Exiting
  OBVIOUS
<1> PICK u : u = Tables(1)
  OBVIOUS
<1>1. /\ UNCHANGED <<imports, modules, initialised, tls, began, halted, tables>>
      /\ work' = work \o <<e, u, d>>
      /\ exits' = Emptied(k)
  BY DEF Exit, Emptied
<1>2. /\ exits \in [Keys -> Seq(Handlers)] /\ work \in Seq(Tasks) /\ tables' \in Seq(Keys) /\ began' \in Seq(Calls)
      /\ halted' \in BOOLEAN /\ k \in Keys
  BY <1>1 DEF ModulesInv, ModulesType, Keys
<1>3. /\ d \in Tasks /\ d.do = "drain" /\ d.list = exits[k]
      /\ e \in Tasks /\ e.do = "exit" /\ u \in Tasks /\ u.do = "tables"
  BY <1>2 DEF Drain, Tasks, Exiting, Tables
<1> DEFINE more == <<e, u, d>>
<1>4. more \in Seq(Tasks) /\ Len(more) = 3 /\ more[1] = e /\ more[2] = u /\ more[3] = d
  BY <1>3
<1>a. work' = work \o more
  BY <1>1
<1> HIDE DEF more
<1>5. /\ work' \in Seq(Tasks) /\ Len(work') = Len(work) + Len(more) /\ Len(work) \in Nat
      /\ \A a \in 1..Len(work') : work'[a] = IF a <= Len(work) THEN work[a] ELSE more[a - Len(work)]
  <2>1. /\ work \o more \in Seq(Tasks) /\ Len(work \o more) = Len(work) + Len(more)
        /\ \A a \in 1..Len(work) + Len(more) :
             (work \o more)[a] = IF a <= Len(work) THEN work[a] ELSE more[a - Len(work)]
    BY <1>2, <1>4, ConcatProperties
  <2> QED
    BY <1>2, <1>a, <2>1, LenProperties
<1> PICK p : p = Len(work) + 3
  OBVIOUS
<1>6. \A a \in 1..Len(work') : \/ a = p /\ work'[a] = d
                               \/ a # p /\ a \in 1..Len(work) /\ work'[a] = work[a]
                               \/ a # p /\ (work'[a] = e \/ work'[a] = u)
  <2> TAKE a \in 1..Len(work')
  <2>1. a \in 1..Len(work) \/ a = Len(work) + 1 \/ a = Len(work) + 2 \/ a = Len(work) + 3
    BY <1>4, <1>5
  <2>2. CASE a \in 1..Len(work)
    BY <1>5, <2>2
  <2>3. CASE a = Len(work) + 1
    BY <1>4, <1>5, <2>3
  <2>4. CASE a = Len(work) + 2
    BY <1>4, <1>5, <2>4
  <2>5. CASE a = Len(work) + 3
    BY <1>4, <1>5, <2>5
  <2> QED
    BY <2>1, <2>2, <2>3, <2>4, <2>5
<1>7. AlsoDraining(work', p, exits[k])
  BY <1>3, <1>6 DEF AlsoDraining
<1>8. HandlersInv'
  <2>1. ModulesType /\ HandlersInv /\ UNCHANGED began
    BY <1>1 DEF ModulesInv
  <2> QED
    BY <1>1, <1>2, <1>7, <2>1, ListTaken
<1> PICK T : T = {d, e, u}
  OBVIOUS
<1>9. Len(work) \in 0..Len(work) /\ Over(work', Len(work), T) /\ \A t \in T : t.do \notin {"init", "pending"}
  BY <1>3, <1>5, <1>6 DEF Over
<1>10. exits' \in [Keys -> Seq(Handlers)]
  BY <1>1, <1>2, EmptiedList DEF ModulesInv
<1> QED
  BY <1>1, <1>2, <1>8, <1>9, <1>10, HandlerStep

(* Under a task that is left, and under one that takes its place and another   *)
(* on it.                                                                      *)
LEMMA TwoTasks ==
  ASSUME work \in Seq(Tasks), work # <<>>, NEW x \in Tasks, NEW y \in Tasks
  PROVE  /\ Append(Append(Below, x), y) \in Seq(Tasks) /\ Len(work) \in Nat \ {0}
         /\ \A a \in 1..Len(Append(Append(Below, x), y)) :
              \/ a \in 1..Len(work) - 1 /\ Append(Append(Below, x), y)[a] = work[a]
              \/ a = Len(work) /\ Append(Append(Below, x), y)[a] = x
              \/ a = Len(work) + 1 /\ Append(Append(Below, x), y)[a] = y
<1> PICK w : w = Below
  OBVIOUS
<1>1. w \in Seq(Tasks) /\ Len(w) = Len(work) - 1 /\ Len(work) \in Nat \ {0} /\ \A a \in 1..Len(work) - 1 : w[a] = work[a]
  BY BelowIsStack
<1> PICK v : v = Append(w, x)
  OBVIOUS
<1>2. /\ v \in Seq(Tasks) /\ Len(v) = Len(w) + 1 /\ v[Len(w) + 1] = x /\ \A a \in 1..Len(w) : v[a] = w[a]
      /\ \A a \in 1..Len(v) : a \in 1..Len(w) \/ a = Len(w) + 1
  BY <1>1, OneMore
<1> PICK z : z = Append(v, y)
  OBVIOUS
<1>3. /\ z \in Seq(Tasks) /\ Len(z) = Len(v) + 1 /\ z[Len(v) + 1] = y /\ \A a \in 1..Len(v) : z[a] = v[a]
      /\ \A a \in 1..Len(z) : a \in 1..Len(v) \/ a = Len(v) + 1
  BY <1>2, OneMore
<1>4. \A a \in 1..Len(z) : \/ a \in 1..Len(work) - 1 /\ z[a] = work[a]
                           \/ a = Len(work) /\ z[a] = x
                           \/ a = Len(work) + 1 /\ z[a] = y
  <2> TAKE a \in 1..Len(z)
  <2>1. CASE a \in 1..Len(w)
    BY <1>1, <1>2, <1>3, <2>1
  <2>2. CASE a = Len(w) + 1
    BY <1>1, <1>2, <1>3, <2>2
  <2>3. CASE a = Len(v) + 1
    BY <1>1, <1>2, <1>3, <2>3
  <2> QED
    BY <1>2, <1>3, <2>1, <2>2, <2>3
<1> QED
  BY <1>1, <1>3, <1>4

LEMMA RunTablesKeeps == ASSUME ModulesInv, RunTables PROVE ModulesInv'
<1> PICK t : t = Top
  OBVIOUS
<1> PICK w : w = Below
  OBVIOUS
<1>1. /\ work \in Seq(Tasks) /\ work # <<>> /\ t.do = "tables" /\ exits \in [Keys -> Seq(Handlers)]
      /\ UNCHANGED <<imports, modules, initialised, tls, began, halted, tables>>
      /\ tables' \in Seq(Keys) /\ began' \in Seq(Calls) /\ halted' \in BOOLEAN /\ tables \in Seq(Keys)
  BY DEF RunTables, Doing, ModulesInv, ModulesType
<1>2. /\ t \in Tasks /\ t.at \in Nat \ {0} /\ Len(work) - 1 \in 0..Len(work) /\ Over(w, Len(work) - 1, {})
      /\ Len(work) \in Nat \ {0} /\ t = work[Len(work)] /\ Len(tables) \in Nat
  <2>1. t \in Tasks /\ Len(work) \in Nat \ {0} /\ t = work[Len(work)]
    BY <1>1, BelowIsStack
  <2> QED
    BY <1>1, <2>1, TaskFields, Popped, LenProperties
<1>3. CASE halted \/ t.at > Len(tables)
  <2>1. work' = w /\ UNCHANGED exits
    BY <1>3 DEF RunTables
  <2>2. imports' = imports /\ UNCHANGED lists /\ Loaded /\ SlotsKept /\ \A m : HasTls(m) => HasTls(m)'
    BY <1>1, <2>1, Aside DEF lists
  <2>3. Called /\ \A m \in initialised' : HasTls(m)'
    BY <1>1, <2>2 DEF Called, ModulesInv, TlsInv
  <2> QED
    BY <1>1, <1>2, <2>1, <2>2, <2>3, StackLeft
<1>4. CASE ~(halted \/ t.at > Len(tables))
  <2> PICK k : k = tables[t.at]
    OBVIOUS
  <2> PICK d : d = Drain(exits[k])
    OBVIOUS
  <2> PICK u : u = Tables(t.at + 1)
    OBVIOUS
  <2> PICK p : p = Len(work) + 1
    OBVIOUS
  <2>1. work' = Append(Append(Below, u), d) /\ exits' = Emptied(k)
    BY <1>4 DEF RunTables, Then, Push, Emptied
  <2>2. k \in Keys
    <3>1. t.at \in 1..Len(tables)
      BY <1>2, <1>4
    <3> QED
      BY <1>1, <3>1, ElementOfSeq
  <2>3. d \in Tasks /\ d.do = "drain" /\ d.list = exits[k] /\ u \in Tasks /\ u.do = "tables"
    BY <1>1, <1>2, <2>2 DEF Drain, Tables, Tasks
  <2>4. /\ work' \in Seq(Tasks)
        /\ \A a \in 1..Len(work') : \/ a \in 1..Len(work) - 1 /\ work'[a] = work[a]
                                    \/ a = Len(work) /\ work'[a] = u
                                    \/ a = Len(work) + 1 /\ work'[a] = d
    BY <1>1, <2>1, <2>3, TwoTasks
  <2>5. \A a \in 1..Len(work) - 1 : a # p /\ a \in 1..Len(work)
    BY <1>2
  <2>6. AlsoDraining(work', p, exits[k])
    BY <2>3, <2>4, <2>5 DEF AlsoDraining
  <2>7. ModulesType /\ HandlersInv
    BY DEF ModulesInv
  <2>8. HandlersInv'
    BY <1>1, <2>1, <2>2, <2>6, <2>7, ListTaken
  <2> PICK T : T = {d, u}
    OBVIOUS
  <2>9. Over(work', Len(work) - 1, T) /\ \A x \in T : x.do \notin {"init", "pending"}
    BY <2>3, <2>4 DEF Over
  <2>10. exits' \in [Keys -> Seq(Handlers)]
    BY <2>1, <2>2, <2>7, EmptiedList
  <2> QED
    BY <1>1, <1>2, <2>8, <2>9, <2>10, HandlerStep
<1> QED
  BY <1>3, <1>4

LEMMA LastOfList ==
  ASSUME NEW list \in Seq(Handlers), list # <<>>
  PROVE  /\ Len(list) \in Nat \ {0} /\ list[Len(list)] \in Handlers
         /\ Front(list) \in Seq(Handlers) /\ Len(Front(list)) = Len(list) - 1
         /\ \A i \in 1..Len(list) - 1 : Front(list)[i] = list[i]
<1>1. Len(list) \in Nat \ {0} /\ \A i \in 1..Len(list) : list[i] \in Handlers
  BY EmptySeq, ElementOfSeq, LenProperties
<1> DEFINE n == Len(list) - 1
<1>2. n \in Nat /\ n - 1 + 1 = n /\ \A a \in 1..n : a \in 1..Len(list) /\ 1 + a - 1 = a
  BY <1>1
<1>3. Front(list) = SubSeq(list, 1, n)
  BY DEF Front
<1> HIDE DEF n
<1>4. /\ SubSeq(list, 1, n) \in Seq(Handlers)
      /\ Len(SubSeq(list, 1, n)) = IF 1 <= n THEN n - 1 + 1 ELSE 0
      /\ \A a \in 1..n - 1 + 1 : SubSeq(list, 1, n)[a] = list[1 + a - 1]
  BY <1>1, <1>2, SubSeqProperties
<1>5. Len(Front(list)) = n
  BY <1>2, <1>3, <1>4
<1>6. \A a \in 1..n : Front(list)[a] = list[a]
  BY <1>2, <1>3, <1>4
<1> QED
  BY <1>1, <1>3, <1>4, <1>5, <1>6 DEF n

LEMMA RunHandlersKeeps == ASSUME ModulesInv, RunHandlers PROVE ModulesInv'
<1> PICK t : t = Top
  OBVIOUS
<1> PICK w : w = Below
  OBVIOUS
<1> PICK p : p = Len(work)
  OBVIOUS
<1>1. /\ work \in Seq(Tasks) /\ work # <<>> /\ t.do = "drain" /\ exits \in [Keys -> Seq(Handlers)]
      /\ UNCHANGED <<imports, modules, initialised, tls, exits, tables>>
      /\ tables' \in Seq(Keys) /\ exits' \in [Keys -> Seq(Handlers)] /\ began \in Seq(Calls) /\ halted \in BOOLEAN
  BY DEF RunHandlers, Doing, ModulesInv, ModulesType, lists
<1>2. /\ t \in Tasks /\ t.list \in Seq(Handlers) /\ p - 1 \in 0..Len(work) /\ Over(w, p - 1, {})
      /\ p \in Nat \ {0} /\ p \in 1..Len(work) /\ t = work[p]
  <2>1. t \in Tasks /\ Len(work) \in Nat \ {0} /\ t = work[p]
    BY <1>1, BelowIsStack
  <2> QED
    BY <1>1, <2>1, TaskFields, Popped
<1>3. CASE halted \/ t.list = <<>>
  <2>1. work' = w /\ UNCHANGED <<halted, began>>
    BY <1>3 DEF RunHandlers
  <2>2. imports' = imports /\ UNCHANGED lists /\ Loaded /\ SlotsKept /\ \A m : HasTls(m) => HasTls(m)'
    BY <1>1, Aside DEF lists
  <2>3. Called /\ halted' \in BOOLEAN /\ \A m \in initialised' : HasTls(m)'
    BY <1>1, <2>1, <2>2 DEF Called, ModulesInv, TlsInv
  <2> QED
    BY <1>1, <1>2, <2>1, <2>2, <2>3, StackLeft
<1>4. CASE ~(halted \/ t.list = <<>>)
  <2> PICK n : n = Len(t.list)
    OBVIOUS
  <2> PICK h : h = t.list[n]
    OBVIOUS
  <2> PICK d : d = Drain(Front(t.list))
    OBVIOUS
  <2> PICK r : r = Running(h, halted)
    OBVIOUS
  <2>1. work' = Append(Append(Below, d), r) /\ halted' = FALSE /\ began' = Append(began, <<"handler", h>>)
    BY <1>4 DEF RunHandlers, Then, Push
  <2>2. /\ n \in Nat \ {0} /\ h \in Handlers /\ Front(t.list) \in Seq(Handlers) /\ Len(Front(t.list)) = n - 1
        /\ \A i \in 1..n - 1 : Front(t.list)[i] = t.list[i]
    BY <1>2, <1>4, LastOfList
  <2>3. d \in Tasks /\ d.do = "drain" /\ d.list = Front(t.list) /\ r \in Tasks /\ r.do = "run"
    BY <1>1, <2>2, RunTask DEF Drain, Tasks
  <2>4. /\ work' \in Seq(Tasks)
        /\ \A a \in 1..Len(work') : \/ a \in 1..p - 1 /\ work'[a] = work[a]
                                    \/ a = p /\ work'[a] = d
                                    \/ a = p + 1 /\ work'[a] = r
    BY <1>1, <2>1, <2>3, TwoTasks
  <2>5. \A a \in 1..p - 1 : a # p /\ a \in 1..Len(work)
    BY <1>2
  <2>6. \A a \in 1..Len(work') : work'[a].do = "drain" =>
          \/ /\ a = p /\ Len(work'[a].list) = n - 1
             /\ \A i \in 1..n - 1 : work'[a].list[i] = work[p].list[i]
          \/ a # p /\ a \in 1..Len(work) /\ work'[a] = work[a]
    BY <1>2, <2>2, <2>3, <2>4, <2>5
  <2>7. HandlersInv'
    <3>1. ModulesType /\ HandlersInv /\ UNCHANGED exits
      BY <1>1 DEF ModulesInv
    <3>2. RestWaits(work', p, n)
      BY <2>6 DEF RestWaits
    <3>3. p \in 1..Len(work) /\ work[p].do = "drain" /\ n = Len(work[p].list) /\ h = work[p].list[n]
      BY <1>1, <1>2
    <3> QED
      BY <2>1, <2>2, <3>1, <3>2, <3>3, HandlerCalled
  <2> PICK T : T = {d, r}
    OBVIOUS
  <2>8. Over(work', p - 1, T) /\ \A x \in T : x.do \notin {"init", "pending"}
    BY <2>3, <2>4 DEF Over
  <2>9. began' \in Seq(Calls) /\ halted' \in BOOLEAN
    <3>1. <<"handler", h>> \in Calls
      BY <2>2 DEF Calls
    <3> QED
      BY <1>1, <2>1, <3>1, OneMore
  <2> QED
    BY <1>1, <1>2, <2>7, <2>8, <2>9, HandlerStep
<1> QED
  BY <1>3, <1>4

LEMMA ModulesStart == ASSUME ModulesInit PROVE ModulesInv
<1> PICK t : t = Bind("exe", 1)
  OBVIOUS
<1>1. t \in Tasks /\ t.do = "bind" /\ work = <<t>>
  BY DEF ModulesInit, Bind, Tasks, Names
<1>2. work \in Seq(Tasks) /\ Len(work) = 1 /\ work[1] = t
  BY <1>1
<1>3. /\ imports \in Graphs /\ modules = <<>> /\ halted = FALSE /\ tables = <<>> /\ began = <<>> /\ initialised = {}
      /\ threads = 1 /\ slot = [m \in Libs |-> 0] /\ lastSlot = 0
      /\ exits = [k \in Keys |-> <<>>]
  BY DEF ModulesInit, Keys
<1>4. ModulesType
  <2>1. modules \in Seq(Libs) /\ tables \in Seq(Keys) /\ began \in Seq(Calls) /\ exits \in [Keys -> Seq(Handlers)]
    BY <1>3
  <2> QED
    BY <1>2, <1>3, <2>1 DEF ModulesType
<1>5. HandlersInv
  <2>1. Len(began) = 0 /\ \A k \in Keys : Len(exits[k]) = 0
    BY <1>3
  <2>2. \A a \in 1..Len(work) : ~Draining(a)
    BY <1>1, <1>2 DEF Draining
  <2> QED
    BY <2>1, <2>2 DEF HandlersInv, BeganOnce, ListsAreApart, ListsWait, DrainsAreApart, DrainsWait
<1>6. TlsInv
  <2>1. TlsType /\ NoModuleTwice /\ TlsIsOwn
    BY <1>3 DEF TlsType, NoModuleTwice, TlsIsOwn
  <2>2. WorkIsPrepared
    BY <1>1, <1>2 DEF WorkIsPrepared, Prepared
  <2> QED
    BY <1>3, <2>1, <2>2 DEF TlsInv
<1> QED
  BY <1>4, <1>5, <1>6 DEF ModulesInv

LEMMA ModulesStutter == ASSUME ModulesInv, UNCHANGED moduleVars PROVE ModulesInv'
<1>1. ModulesType'
  BY DEF moduleVars, lists, ModulesInv, ModulesType
<1>2. HandlersInv'
  BY DEF moduleVars, lists, ModulesInv, HandlersInv, BeganOnce, ListsAreApart, ListsWait, DrainsAreApart, DrainsWait,
     NotBegan, Draining
<1>3. TlsInv'
  BY DEF moduleVars, tls, ModulesInv, TlsInv, TlsType, NoModuleTwice, TlsIsOwn, WorkIsPrepared, Prepared, HasTls
<1> QED
  BY <1>1, <1>2, <1>3 DEF ModulesInv

(* ModulesInv holds in every state of a guest.                                 *)
THEOREM ModulesAreRecorded == ModulesSpec => []ModulesInv
<1>1. ModulesInit => ModulesInv
  BY ModulesStart
<1>2. ModulesInv /\ [ModulesNext]_moduleVars => ModulesInv'
  <2> SUFFICES ASSUME ModulesInv, [ModulesNext]_moduleVars PROVE ModulesInv'
    OBVIOUS
  <2>0. DOMAIN exits = Keys
    BY DEF ModulesInv, ModulesType
  <2>1. CASE BindImports \/ EnvironmentUp \/ InitPending \/ StartInit \/ CallDllMain
    BY <2>1, BindImportsKeeps, EnvironmentUpKeeps, InitPendingKeeps, StartInitKeeps
  <2>2. CASE GuestReturns \/ CreateThread \/ Exit \/ RunHandlers \/ RunTables \/ ExitProcess
    BY <2>2, ReturnsKeeps, CreateThreadKeeps, ExitKeeps, RunHandlersKeeps, RunTablesKeeps
  <2>3. ASSUME NEW m \in Libs, CallLoadLibrary(m) \/ RunTable(m) PROVE ModulesInv'
    BY <2>3, CallLoadLibraryKeeps, RunTableKeeps
  <2>4. ASSUME NEW h \in Handlers, NEW k \in Keys, AddAtExit(h, k) PROVE ModulesInv'
    BY <2>4, AddAtExitKeeps
  <2>5. CASE UNCHANGED moduleVars
    BY <2>5, ModulesStutter
  <2> QED
    BY <2>0, <2>1, <2>2, <2>3, <2>4, <2>5 DEF ModulesNext
<1> QED
  BY <1>1, <1>2, PTL DEF ModulesSpec

(* Each module whose code has run has a TLS slot to itself and every thread a  *)
(* block in it; no function registered for the end is called twice, and none   *)
(* that waits in a list has been: for any libraries, imports, handlers and     *)
(* threads (setup_static_tls, run_onexit_table).                               *)
THEOREM ModulesKept == ModulesSpec => []ModulesAreKept
<1>1. ModulesInv => ModulesAreKept
  <2> SUFFICES ASSUME ModulesInv PROVE OwnTls /\ HandlersRunOnce
    BY DEF ModulesAreKept
  <2>1. OwnTls
    <3> SUFFICES ASSUME NEW m \in initialised, m \in WithTls
                 PROVE  /\ slot[m] # 0 /\ \A n \in Libs \ {m} : slot[n] # slot[m]
                        /\ \A t \in 1..threads : <<t, slot[m]>> \in block
      BY DEF OwnTls
    <3>1. m \in Libs /\ slot[m] # 0
      BY ModulesAssumption DEF ModulesInv, TlsInv, HasTls
    <3> QED
      BY <3>1 DEF ModulesInv, TlsInv, TlsIsOwn
  <2>2. HandlersRunOnce
    <3>1. BeganOnce /\ ListsWait
      BY DEF ModulesInv, HandlersInv
    <3>2. exits \in [Keys -> Seq(Handlers)] /\ began \in Seq(Calls)
      BY DEF ModulesInv, ModulesType
    <3>3. ASSUME NEW h \in Registered PROVE <<"handler", h>> \notin ToSet(began)
      <4> PICK k \in Keys : h \in ToSet(exits[k])
        BY <3>2 DEF Registered
      <4>1. DOMAIN exits[k] = 1..Len(exits[k]) /\ DOMAIN began = 1..Len(began)
        BY <3>2, LenProperties
      <4> PICK i \in 1..Len(exits[k]) : h = exits[k][i]
        BY <4>1 DEF ToSet
      <4>2. NotBegan(h)
        BY <3>1 DEF ListsWait
      <4> QED
        BY <4>1, <4>2 DEF NotBegan, ToSet
    <3> QED
      BY <3>1, <3>3 DEF HandlersRunOnce, BeganOnce
  <2> QED
    BY <2>1, <2>2
<1> QED
  BY <1>1, ModulesAreRecorded, PTL

-----------------------------------------------------------------------------
(* Output.  The lines of a process that are on their way are those it has  *)
(* written; a line that overtakes the buffer is of another way out than    *)
(* those in it, and where nothing is buffered nothing is in a buffer.      *)

Line == [path : Paths, n : Nat, cr : Nat]

OutputType ==
  /\ status \in [Processes -> {"none", "alive", "over", "abandoned"}]
  /\ buffered \in [Processes -> BOOLEAN]
  /\ buffer \in [Processes -> Seq(Line)] /\ arrived \in [Processes -> Seq(Line)]
  /\ written \in [Processes -> Seq(Line)]

Sound(lines, all) == InOrder(lines) /\ IsOf(lines, all) /\ HasAll(lines, all)

IsText(lines) == \A i \in 1..Len(lines) : lines[i].path = "text"

ProcessInv(p) ==
  /\ Sound(OnItsWay(p), written[p])
  /\ IsText(buffer[p])
  /\ ~buffered[p] \/ status[p] \in {"none", "over"} => buffer[p] = <<>>

OutputInv == OutputType /\ \A p \in Processes : ProcessInv(p)

Same(k, l) == k.path = l.path /\ k.n = l.n
SameLines(c, d) == Len(c) = Len(d) /\ \A i \in 1..Len(c) : Same(c[i], d[i])

LEMMA SoundBySame ==
  ASSUME NEW w \in Seq(Line), NEW c \in Seq(Line), NEW d \in Seq(Line), Sound(c, w), SameLines(c, d)
  PROVE  Sound(d, w)
<1>1. DOMAIN c = 1..Len(c) /\ DOMAIN d = 1..Len(c)
  BY LenProperties DEF SameLines
<1>2. \A i \in 1..Len(c) : c[i].path = d[i].path /\ c[i].n = d[i].n
  BY DEF SameLines, Same
<1>3. InOrder(d)
  BY <1>1, <1>2 DEF Sound, InOrder
<1>4. IsOf(d, w)
  BY <1>1, <1>2 DEF Sound, IsOf
<1>5. HasAll(d, w)
  BY <1>1, <1>2 DEF Sound, HasAll
<1> QED
  BY <1>3, <1>4, <1>5 DEF Sound

(* d is c with the line l put in at place m.                                   *)
PutIn(c, l, m, d) ==
  /\ Len(d) = Len(c) + 1 /\ m \in 1..Len(c) + 1
  /\ Same(d[m], l)
  /\ \A i \in 1..m - 1 : Same(d[i], c[i])
  /\ \A i \in m + 1..Len(c) + 1 : Same(d[i], c[i - 1]) /\ d[i].path # l.path

LEMMA SoundWithOneMore ==
  ASSUME NEW w \in Seq(Line), NEW c \in Seq(Line), NEW d \in Seq(Line), Sound(c, w),
         NEW l \in Line, l.n = Len(w) + 1, NEW m, PutIn(c, l, m, d)
  PROVE  Sound(d, Append(w, l))
<1> PICK v : v = Append(w, l)
  OBVIOUS
<1>1. /\ Len(c) \in Nat /\ Len(w) \in Nat /\ DOMAIN c = 1..Len(c) /\ DOMAIN d = 1..Len(c) + 1 /\ DOMAIN w = 1..Len(w)
      /\ DOMAIN v = 1..Len(w) + 1 /\ v[Len(w) + 1] = l /\ \A i \in 1..Len(w) : v[i] = w[i]
  <2>1. /\ v \in Seq(Line) /\ Len(v) = Len(w) + 1 /\ v[Len(w) + 1] = l /\ \A i \in 1..Len(w) : v[i] = w[i]
    BY OneMore
  <2> QED
    BY <2>1, LenProperties DEF PutIn
<1> DEFINE From(i) == IF i < m THEN i ELSE i - 1
<1>2. m \in 1..Len(c) + 1 /\ d[m].path = l.path /\ d[m].n = Len(w) + 1
  BY DEF PutIn, Same
<1>3. ASSUME NEW i \in 1..Len(c) + 1, i # m
      PROVE  /\ From(i) \in 1..Len(c) /\ d[i].path = c[From(i)].path /\ d[i].n = c[From(i)].n
             /\ i > m => d[i].path # l.path
  <2>1. CASE i < m
    <3>1. i \in 1..m - 1 /\ i \in 1..Len(c) /\ ~(i > m)
      BY <1>1, <1>2, <2>1
    <3> QED
      BY <2>1, <3>1 DEF PutIn, Same
  <2>2. CASE i > m
    <3>1. i \in m + 1..Len(c) + 1 /\ i - 1 \in 1..Len(c) /\ ~(i < m)
      BY <1>1, <1>2, <2>2
    <3> QED
      BY <2>2, <3>1 DEF PutIn, Same
  <2> QED
    BY <1>2, <1>3, <2>1, <2>2
<1>4. \A i \in 1..Len(c) : /\ c[i].n \in 1..Len(w) /\ w[c[i].n].path = c[i].path
  BY <1>1 DEF Sound, IsOf
<1>5. InOrder(d)
  <2> SUFFICES ASSUME NEW i \in 1..Len(c) + 1, NEW j \in 1..Len(c) + 1, i < j, d[i].path = d[j].path
               PROVE  d[i].n < d[j].n
    BY <1>1 DEF InOrder
  <2>1. CASE i = m
    <3>1. j # m /\ j > m
      BY <1>2, <2>1
    <3> QED
      BY <1>2, <1>3, <2>1, <3>1
  <2>2. CASE j = m
    <3>1. i # m
      BY <1>2, <2>2
    <3>2. From(i) \in 1..Len(c) /\ d[i].n = c[From(i)].n
      BY <1>3, <3>1
    <3>3. d[i].n \in 1..Len(w)
      BY <1>4, <3>2
    <3> QED
      BY <1>1, <1>2, <2>2, <3>3
  <2>3. CASE i # m /\ j # m
    <3>1. /\ From(i) \in 1..Len(c) /\ d[i].path = c[From(i)].path /\ d[i].n = c[From(i)].n
          /\ From(j) \in 1..Len(c) /\ d[j].path = c[From(j)].path /\ d[j].n = c[From(j)].n
      BY <1>3, <2>3
    <3>2. From(i) < From(j)
      BY <1>2, <2>3
    <3> HIDE DEF From
    <3>3. \A x, y \in 1..Len(c) : x < y /\ c[x].path = c[y].path => c[x].n < c[y].n
      BY <1>1 DEF Sound, InOrder
    <3> QED
      BY <3>1, <3>2, <3>3
  <2> QED
    BY <2>1, <2>2, <2>3
<1>6. IsOf(d, v)
  <2> SUFFICES ASSUME NEW i \in 1..Len(c) + 1 PROVE d[i].n \in 1..Len(w) + 1 /\ v[d[i].n].path = d[i].path
    BY <1>1 DEF IsOf
  <2>1. CASE i = m
    BY <1>1, <1>2, <2>1
  <2>2. CASE i # m
    <3> PICK x \in 1..Len(c) : d[i].path = c[x].path /\ d[i].n = c[x].n
      BY <1>3, <2>2
    <3>1. d[i].n \in 1..Len(w) /\ w[d[i].n].path = d[i].path
      BY <1>4
    <3> QED
      BY <1>1, <3>1
  <2> QED
    BY <2>1, <2>2
<1>7. HasAll(d, v)
  <2> SUFFICES ASSUME NEW n \in 1..Len(w) + 1 PROVE \E i \in 1..Len(c) + 1 : d[i].n = n
    BY <1>1 DEF HasAll
  <2>1. CASE n = Len(w) + 1
    BY <1>2, <2>1
  <2>2. CASE n # Len(w) + 1
    <3>1. n \in 1..Len(w)
      BY <1>1, <2>2
    <3> PICK x \in 1..Len(c) : c[x].n = n
      BY <1>1, <3>1 DEF Sound, HasAll
    <3> PICK i : i = IF x < m THEN x ELSE x + 1
      OBVIOUS
    <3>2. i \in 1..Len(c) + 1 /\ i # m /\ From(i) = x
      BY <1>1, <1>2
    <3> QED
      BY <1>3, <3>2
  <2> QED
    BY <2>1, <2>2
<1> QED
  BY <1>5, <1>6, <1>7 DEF Sound

LEMMA Concat ==
  ASSUME NEW S, NEW a \in Seq(S), NEW b \in Seq(S)
  PROVE  /\ a \o b \in Seq(S) /\ Len(a \o b) = Len(a) + Len(b) /\ Len(a) \in Nat /\ Len(b) \in Nat
         /\ \A i \in 1..Len(a) : (a \o b)[i] = a[i]
         /\ \A i \in Len(a) + 1..Len(a) + Len(b) : (a \o b)[i] = b[i - Len(a)] /\ i - Len(a) \in 1..Len(b)
<1>1. /\ a \o b \in Seq(S) /\ Len(a \o b) = Len(a) + Len(b) /\ Len(a) \in Nat /\ Len(b) \in Nat
      /\ \A i \in 1..Len(a) + Len(b) : (a \o b)[i] = IF i <= Len(a) THEN a[i] ELSE b[i - Len(a)]
  BY ConcatProperties, LenProperties
<1>2. \A i \in 1..Len(a) : i \in 1..Len(a) + Len(b) /\ i <= Len(a)
  BY <1>1
<1>3. \A i \in Len(a) + 1..Len(a) + Len(b) : i \in 1..Len(a) + Len(b) /\ ~(i <= Len(a)) /\ i - Len(a) \in 1..Len(b)
  BY <1>1
<1> QED
  BY <1>1, <1>2, <1>3

LEMMA ReachesSame ==
  ASSUME NEW lines \in Seq(Line), NEW t
  PROVE  Reaches(t, lines) \in Seq(Line) /\ SameLines(Reaches(t, lines), lines)
<1>1. DOMAIN lines = 1..Len(lines) /\ Len(lines) \in Nat
  BY LenProperties
<1> DEFINE over(i) == IF t = "text" THEN [lines[i] EXCEPT !.cr = @ + 1] ELSE lines[i]
<1>2. \A i \in 1..Len(lines) : over(i) \in Line /\ Same(over(i), lines[i])
  <2> TAKE i \in 1..Len(lines)
  <2>1. lines[i] \in Line
    BY ElementOfSeq
  <2> QED
    BY <2>1 DEF Line, Same
<1>3. Reaches(t, lines) = [i \in 1..Len(lines) |-> over(i)]
  BY <1>1 DEF Reaches
<1> HIDE DEF over
<1>4. Reaches(t, lines) \in Seq(Line) /\ Len(Reaches(t, lines)) = Len(lines)
  BY <1>1, <1>2, <1>3
<1>5. \A i \in 1..Len(lines) : Reaches(t, lines)[i] = over(i)
  BY <1>3
<1> QED
  BY <1>2, <1>4, <1>5 DEF SameLines

(* A line that arrives past a buffer of lines of other ways out.               *)
LEMMA PutBetween ==
  ASSUME NEW a \in Seq(Line), NEW b \in Seq(Line), NEW l \in Line, NEW z \in Seq(Line),
         Len(z) = 1, Same(z[1], l), \A i \in 1..Len(b) : b[i].path # l.path
  PROVE  PutIn(a \o b, l, Len(a) + 1, (a \o z) \o b)
<1> PICK c : c = a \o b
  OBVIOUS
<1> PICK x : x = a \o z
  OBVIOUS
<1> PICK d : d = x \o b
  OBVIOUS
<1>1. /\ Len(c) = Len(a) + Len(b) /\ Len(a) \in Nat /\ Len(b) \in Nat
      /\ \A i \in 1..Len(a) : c[i] = a[i]
      /\ \A i \in Len(a) + 1..Len(a) + Len(b) : c[i] = b[i - Len(a)] /\ i - Len(a) \in 1..Len(b)
  BY Concat
<1>2. /\ x \in Seq(Line) /\ Len(x) = Len(a) + 1
      /\ \A i \in 1..Len(a) : x[i] = a[i]
      /\ x[Len(a) + 1] = z[1]
  <2>1. /\ x \in Seq(Line) /\ Len(x) = Len(a) + Len(z)
        /\ \A i \in 1..Len(a) : x[i] = a[i]
        /\ \A i \in Len(a) + 1..Len(a) + Len(z) : x[i] = z[i - Len(a)]
    BY Concat
  <2>2. Len(a) + 1 \in Len(a) + 1..Len(a) + Len(z) /\ Len(a) + 1 - Len(a) = 1
    BY <1>1
  <2>3. x[Len(a) + 1] = z[Len(a) + 1 - Len(a)]
    BY <2>1, <2>2
  <2> QED
    BY <2>1, <2>2, <2>3
<1>3. /\ Len(d) = Len(x) + Len(b)
      /\ \A i \in 1..Len(x) : d[i] = x[i]
      /\ \A i \in Len(x) + 1..Len(x) + Len(b) : d[i] = b[i - Len(x)] /\ i - Len(x) \in 1..Len(b)
  BY <1>2, Concat
<1>4. Len(d) = Len(c) + 1 /\ Len(a) + 1 \in 1..Len(c) + 1
  BY <1>1, <1>2, <1>3
<1>5. Same(d[Len(a) + 1], l)
  <2>1. Len(a) + 1 \in 1..Len(x)
    BY <1>1, <1>2
  <2> QED
    BY <1>2, <1>3, <2>1
<1>6. \A i \in 1..Len(a) + 1 - 1 : Same(d[i], c[i])
  <2> TAKE i \in 1..Len(a) + 1 - 1
  <2>1. i \in 1..Len(a) /\ i \in 1..Len(x)
    BY <1>1, <1>2
  <2> QED
    BY <1>1, <1>2, <1>3, <2>1 DEF Same
<1>7. \A i \in Len(a) + 1 + 1..Len(c) + 1 : Same(d[i], c[i - 1]) /\ d[i].path # l.path
  <2> TAKE i \in Len(a) + 1 + 1..Len(c) + 1
  <2>1. i \in Len(x) + 1..Len(x) + Len(b) /\ i - 1 \in Len(a) + 1..Len(a) + Len(b) /\ i - Len(x) = i - 1 - Len(a)
    BY <1>1, <1>2
  <2>2. d[i] = b[i - Len(x)] /\ i - Len(x) \in 1..Len(b) /\ c[i - 1] = b[i - Len(x)]
    BY <1>1, <1>3, <2>1
  <2> QED
    BY <2>2 DEF Same
<1> QED
  BY <1>4, <1>5, <1>6, <1>7 DEF PutIn

(* A line put last, whatever of the others has arrived in the meantime.        *)
LEMMA PutLast ==
  ASSUME NEW c \in Seq(Line), NEW l \in Line, NEW d, SameLines(Append(c, l), d)
  PROVE  PutIn(c, l, Len(c) + 1, d)
<1> PICK e : e = Append(c, l)
  OBVIOUS
<1>1. /\ Len(e) = Len(c) + 1 /\ Len(c) \in Nat /\ e[Len(c) + 1] = l
      /\ \A i \in 1..Len(c) : e[i] = c[i]
  BY OneMore
<1>2. Len(d) = Len(c) + 1 /\ Len(c) + 1 \in 1..Len(c) + 1
  BY <1>1 DEF SameLines
<1>3. Same(d[Len(c) + 1], l)
  BY <1>1, <1>2 DEF SameLines, Same
<1>4. \A i \in 1..Len(c) + 1 - 1 : Same(d[i], c[i])
  <2> TAKE i \in 1..Len(c) + 1 - 1
  <2>1. i \in 1..Len(c) /\ i \in 1..Len(e)
    BY <1>1
  <2> QED
    BY <1>1, <2>1 DEF SameLines, Same
<1>5. \A i \in Len(c) + 1 + 1..Len(c) + 1 : FALSE
  BY <1>1
<1> QED
  BY <1>2, <1>3, <1>4, <1>5 DEF PutIn

LEMMA PutInBySame ==
  ASSUME NEW c, NEW l, NEW m, NEW d, NEW e, PutIn(c, l, m, d), SameLines(d, e), Len(c) \in Nat
  PROVE  PutIn(c, l, m, e)
<1>1. \A i \in 1..Len(c) + 1 : Same(d[i], e[i])
  BY DEF PutIn, SameLines
<1>2. m \in 1..Len(c) + 1 /\ Len(e) = Len(c) + 1 /\ Same(e[m], l)
  BY <1>1 DEF PutIn, SameLines, Same
<1>3. \A i \in 1..m - 1 : Same(e[i], c[i])
  <2> TAKE i \in 1..m - 1
  <2>1. i \in 1..Len(c) + 1
    BY <1>2
  <2> QED
    BY <1>1, <2>1 DEF PutIn, Same
<1>4. \A i \in m + 1..Len(c) + 1 : Same(e[i], c[i - 1]) /\ e[i].path # l.path
  <2> TAKE i \in m + 1..Len(c) + 1
  <2>1. i \in 1..Len(c) + 1
    BY <1>2
  <2> QED
    BY <1>1, <2>1 DEF PutIn, Same
<1> QED
  BY <1>2, <1>3, <1>4 DEF PutIn

LEMMA SameInPart ==
  ASSUME NEW a \in Seq(Line), NEW b \in Seq(Line), NEW z \in Seq(Line), SameLines(b, z)
  PROVE  SameLines(a \o b, a \o z)
<1> PICK c : c = a \o b
  OBVIOUS
<1> PICK d : d = a \o z
  OBVIOUS
<1>1. /\ Len(c) = Len(a) + Len(b) /\ Len(a) \in Nat /\ Len(b) \in Nat
      /\ \A i \in 1..Len(a) : c[i] = a[i]
      /\ \A i \in Len(a) + 1..Len(a) + Len(b) : c[i] = b[i - Len(a)] /\ i - Len(a) \in 1..Len(b)
  BY Concat
<1>2. /\ Len(d) = Len(a) + Len(z)
      /\ \A i \in 1..Len(a) : d[i] = a[i]
      /\ \A i \in Len(a) + 1..Len(a) + Len(z) : d[i] = z[i - Len(a)]
  BY Concat
<1>3. Len(b) = Len(z) /\ \A i \in 1..Len(b) : Same(b[i], z[i])
  BY DEF SameLines
<1>4. ASSUME NEW i \in 1..Len(c) PROVE Same(c[i], d[i])
  <2>1. i \in 1..Len(a) \/ i \in Len(a) + 1..Len(a) + Len(b)
    BY <1>1
  <2>2. CASE i \in 1..Len(a)
    BY <1>1, <1>2, <2>2 DEF Same
  <2>3. CASE i \in Len(a) + 1..Len(a) + Len(b)
    <3>1. c[i] = b[i - Len(a)] /\ i - Len(a) \in 1..Len(b) /\ d[i] = z[i - Len(a)]
      BY <1>1, <1>2, <1>3, <2>3
    <3> QED
      BY <1>3, <3>1
  <2> QED
    BY <2>1, <2>2, <2>3
<1> QED
  BY <1>1, <1>2, <1>3, <1>4 DEF SameLines

LEMMA NothingAfter ==
  ASSUME NEW a \in Seq(Line)
  PROVE  a \o <<>> = a
BY ConcatEmptySeq

LEMMA LastAfter ==
  ASSUME NEW a \in Seq(Line), NEW b \in Seq(Line), NEW l \in Line
  PROVE  Append(a \o b, l) = a \o Append(b, l)
<1>1. <<l>> \in Seq(Line) /\ a \o b \in Seq(Line)
  BY Concat
<1>2. Append(a \o b, l) = (a \o b) \o <<l>> /\ Append(b, l) = b \o <<l>>
  BY <1>1, AppendIsConcat
<1> PICK u : u = <<l>>
  OBVIOUS
<1>3. (a \o b) \o u = a \o (b \o u)
  BY <1>1, ConcatAssociative
<1> QED
  BY <1>2, <1>3

(* The steps.  A process that a step is not of stays as it is, but for being   *)
(* given up.                                                                   *)
LEMMA OthersStay ==
  ASSUME OutputInv, NEW q \in Processes,
         buffer'[q] = buffer[q], arrived'[q] = arrived[q], written'[q] = written[q], buffered'[q] = buffered[q],
         status'[q] \in {"none", "over"} => status[q] = status'[q]
  PROVE  ProcessInv(q)'
<1>1. ProcessInv(q)
  BY DEF OutputInv
<1>2. OnItsWay(q)' = OnItsWay(q)
  BY DEF OnItsWay
<1> PICK c : c = OnItsWay(q)
  OBVIOUS
<1>3. Sound(c, written[q])
  BY <1>1 DEF ProcessInv
<1>4. Sound(c, written'[q])
  BY <1>3
<1>5. Sound(OnItsWay(q), written[q])'
  BY <1>2, <1>4 DEF Sound, InOrder, IsOf, HasAll
<1>6. IsText(buffer[q])'
  BY <1>1 DEF ProcessInv, IsText
<1> QED
  BY <1>1, <1>5, <1>6 DEF ProcessInv

With(f, p, v) == [f EXCEPT ![p] = v]

(* A process writes the line l.                                                *)
LEMMA WrittenKeeps ==
  ASSUME OutputInv, NEW p \in Processes, NEW l \in Line, l.n = Len(written[p]) + 1,
         written' = With(written, p, Append(written[p], l)),
         NEW a \in Seq(Line), arrived' = With(arrived, p, a),
         NEW b \in Seq(Line), buffer' = With(buffer, p, b),
         IsText(b), ~buffered[p] => b = <<>>,
         NEW m, PutIn(OnItsWay(p), l, m, a \o b),
         status[p] = "alive", UNCHANGED <<status, buffered>>
  PROVE  OutputInv'
<1> PICK w : w = written[p]
  OBVIOUS
<1> PICK c : c = OnItsWay(p)
  OBVIOUS
<1> PICK d : d = a \o b
  OBVIOUS
<1>1. w \in Seq(Line) /\ c \in Seq(Line) /\ d \in Seq(Line)
  BY Concat DEF OutputInv, OutputType, OnItsWay
<1>2. Sound(c, w)
  BY DEF OutputInv, ProcessInv
<1>3. Sound(d, Append(w, l))
  BY <1>1, <1>2, SoundWithOneMore
<1>4. Append(w, l) \in Seq(Line)
  BY <1>1, OneMore
<1>5. written'[p] = Append(w, l) /\ arrived'[p] = a /\ buffer'[p] = b
  BY DEF OutputInv, OutputType, With
<1>6. OutputType'
  BY <1>4 DEF OutputInv, OutputType, With
<1>7. ProcessInv(p)'
  <2>1. OnItsWay(p)' = d
    BY <1>5 DEF OnItsWay
  <2>2. Sound(OnItsWay(p), written[p])'
    BY <1>3, <1>5, <2>1 DEF Sound, InOrder, IsOf, HasAll
  <2>3. IsText(buffer[p])'
    BY <1>5 DEF IsText
  <2> QED
    BY <1>5, <2>2, <2>3 DEF ProcessInv
<1>8. ASSUME NEW q \in Processes, q # p PROVE ProcessInv(q)'
  <2>1. buffer'[q] = buffer[q] /\ arrived'[q] = arrived[q] /\ written'[q] = written[q] /\ buffered'[q] = buffered[q]
    BY <1>8 DEF OutputInv, OutputType, With
  <2> QED
    BY <2>1, OthersStay
<1> QED
  BY <1>6, <1>7, <1>8 DEF OutputInv

LEMMA FlushedKeeps ==
  ASSUME OutputInv, NEW p \in Processes, FlushGuestOutput(p), UNCHANGED <<buffered, written>>,
         status' \in [Processes -> {"none", "alive", "over", "abandoned"}],
         \A q \in Processes : q # p /\ status'[q] \in {"none", "over"} => status[q] = status'[q]
  PROVE  OutputInv'
<1> PICK w : w = written[p]
  OBVIOUS
<1> PICK a : a = arrived[p]
  OBVIOUS
<1> PICK b : b = buffer[p]
  OBVIOUS
<1> PICK z : z = Reaches(out[p], b)
  OBVIOUS
<1>1. w \in Seq(Line) /\ a \in Seq(Line) /\ b \in Seq(Line) /\ z \in Seq(Line)
  BY ReachesSame DEF OutputInv, OutputType
<1>2. arrived' = [arrived EXCEPT ![p] = a \o z] /\ buffer' = [buffer EXCEPT ![p] = <<>>]
  BY DEF FlushGuestOutput, Arrive
<1>3. arrived'[p] = a \o z /\ buffer'[p] = <<>> /\ a \o z \in Seq(Line)
  BY <1>1, <1>2, Concat DEF OutputInv, OutputType
<1>4. OutputType'
  <2>1. <<>> \in Seq(Line)
    OBVIOUS
  <2> QED
    BY <1>2, <1>3, <2>1 DEF OutputInv, OutputType
<1>5. Sound(a \o z, w)
  <2>1. Sound(a \o b, w)
    BY DEF OutputInv, ProcessInv, OnItsWay
  <2>2. SameLines(b, z)
    BY <1>1, ReachesSame DEF SameLines, Same
  <2>3. SameLines(a \o b, a \o z)
    BY <1>1, <2>2, SameInPart
  <2>4. a \o b \in Seq(Line)
    BY <1>1, Concat
  <2> QED
    BY <1>1, <1>3, <2>1, <2>3, <2>4, SoundBySame
<1>6. ProcessInv(p)'
  <2>1. OnItsWay(p)' = a \o z
    BY <1>1, <1>3, NothingAfter DEF OnItsWay
  <2> PICK d : d = a \o z
    OBVIOUS
  <2>4. OnItsWay(p)' = d /\ written'[p] = w /\ Sound(d, w)
    BY <1>5, <2>1
  <2>2. Sound(OnItsWay(p), written[p])'
    BY <2>4 DEF Sound, InOrder, IsOf, HasAll
  <2>3. IsText(buffer[p])'
    BY <1>3 DEF IsText
  <2> QED
    BY <1>3, <2>2, <2>3 DEF ProcessInv
<1>7. ASSUME NEW q \in Processes, q # p PROVE ProcessInv(q)'
  <2>1. buffer'[q] = buffer[q] /\ arrived'[q] = arrived[q] /\ written'[q] = written[q] /\ buffered'[q] = buffered[q]
    BY <1>2, <1>7 DEF OutputInv, OutputType
  <2> QED
    BY <1>7, <2>1, OthersStay
<1> QED
  BY <1>4, <1>6, <1>7 DEF OutputInv

LEMMA NewLines ==
  ASSUME OutputInv, NEW p \in Processes, NEW path \in Paths
  PROVE  /\ NewLine(p, path) \in Line /\ NewLine(p, path).n = Len(written[p]) + 1 /\ NewLine(p, path).path = path
         /\ Translated(NewLine(p, path)) \in Line /\ Same(Translated(NewLine(p, path)), NewLine(p, path))
<1>1. Len(written[p]) \in Nat
  BY LenProperties DEF OutputInv, OutputType
<1> QED
  BY <1>1 DEF NewLine, Translated, Line, Same

LEMMA WriteOutKeeps ==
  ASSUME OutputInv, NEW p \in Processes, status[p] = "alive", NEW path \in Paths, Write(p, path),
         NEW z \in Seq(Line), Len(z) = 1, Same(z[1], NewLine(p, path)), Arrive(p, z),
         UNCHANGED <<status, buffered, buffer>>, buffer[p] # <<>> => path # "text"
  PROVE  OutputInv'
<1> PICK l : l = NewLine(p, path)
  OBVIOUS
<1> PICK a : a = arrived[p]
  OBVIOUS
<1> PICK b : b = buffer[p]
  OBVIOUS
<1>1. /\ a \in Seq(Line) /\ b \in Seq(Line) /\ l \in Line /\ l.n = Len(written[p]) + 1 /\ l.path = path
      /\ IsText(b) /\ (~buffered[p] => b = <<>>)
  BY NewLines DEF OutputInv, OutputType, ProcessInv
<1>2. \A i \in 1..Len(b) : b[i].path # l.path
  <2> SUFFICES ASSUME NEW i \in 1..Len(b) PROVE b[i].path # l.path
    OBVIOUS
  <2>1. b # <<>>
    BY <1>1, EmptySeq
  <2> QED
    BY <1>1, <2>1 DEF IsText
<1>3. PutIn(a \o b, l, Len(a) + 1, (a \o z) \o b)
  BY <1>1, <1>2, PutBetween
<1>4. OnItsWay(p) = a \o b /\ a \o z \in Seq(Line)
  BY <1>1, Concat DEF OnItsWay
<1>5. /\ written' = With(written, p, Append(written[p], l)) /\ arrived' = With(arrived, p, a \o z)
      /\ buffer' = With(buffer, p, b)
  BY DEF Write, Arrive, OutputInv, OutputType, With
<1> QED
  BY <1>1, <1>3, <1>4, <1>5, WrittenKeeps

LEMMA OneReached ==
  ASSUME NEW l \in Line, NEW k \in Line, Same(l, k), NEW t
  PROVE  Reaches(t, <<l>>) \in Seq(Line) /\ Len(Reaches(t, <<l>>)) = 1 /\ Same(Reaches(t, <<l>>)[1], k)
<1> DEFINE one == <<l>>
<1>1. one \in Seq(Line) /\ Len(one) = 1 /\ one[1] = l
  OBVIOUS
<1> HIDE DEF one
<1>2. Reaches(t, one) \in Seq(Line) /\ SameLines(Reaches(t, one), one)
  BY <1>1, ReachesSame
<1>3. Len(Reaches(t, one)) = 1 /\ Same(Reaches(t, one)[1], k)
  BY <1>1, <1>2 DEF SameLines, Same
<1> QED
  BY <1>2, <1>3 DEF one

LEMMA WriteErrorKeeps ==
  ASSUME OutputInv, NEW p \in Processes, WriteError(p) \/ WriteRaw(p) PROVE OutputInv'
<1>1. CASE WriteError(p)
  <2> PICK z : z = <<Translated(NewLine(p, "error"))>>
    OBVIOUS
  <2>1. z \in Seq(Line) /\ Len(z) = 1 /\ Same(z[1], NewLine(p, "error")) /\ "error" \in Paths
    <3>1. "error" \in Paths
      BY DEF Paths
    <3> QED
      BY <3>1, NewLines
  <2> QED
    BY <1>1, <2>1, WriteOutKeeps DEF WriteError, MayWrite
<1>2. CASE WriteRaw(p)
  <2> PICK z : z = Reaches(out[p], <<NewLine(p, "raw")>>)
    OBVIOUS
  <2>1. z \in Seq(Line) /\ Len(z) = 1 /\ Same(z[1], NewLine(p, "raw")) /\ "raw" \in Paths
    <3>1. "raw" \in Paths /\ Same(NewLine(p, "raw"), NewLine(p, "raw"))
      BY DEF Paths, Same
    <3> QED
      BY <3>1, NewLines, OneReached
  <2> QED
    BY <1>2, <2>1, WriteOutKeeps DEF WriteRaw, MayWrite
<1> QED
  BY <1>1, <1>2

LEMMA WriteTextKeeps == ASSUME OutputInv, NEW p \in Processes, WriteText(p) PROVE OutputInv'
<1> PICK l : l = NewLine(p, "text")
  OBVIOUS
<1> PICK k : k = Translated(l)
  OBVIOUS
<1> PICK a : a = arrived[p]
  OBVIOUS
<1> PICK b : b = buffer[p]
  OBVIOUS
<1> PICK full : full = Append(b, k)
  OBVIOUS
<1>1. /\ a \in Seq(Line) /\ b \in Seq(Line) /\ l \in Line /\ l.n = Len(written[p]) + 1 /\ l.path = "text"
      /\ k \in Line /\ Same(k, l) /\ IsText(b) /\ (~buffered[p] => b = <<>>) /\ "text" \in Paths
      /\ status[p] = "alive" /\ UNCHANGED <<status, buffered>> /\ OnItsWay(p) = a \o b
  <2>1. "text" \in Paths
    BY DEF Paths
  <2> QED
    BY <2>1, NewLines DEF OutputInv, OutputType, ProcessInv, WriteText, MayWrite, OnItsWay
<1>2. CASE ~buffered[p]
  <2> PICK z : z = Reaches(out[p], <<k>>)
    OBVIOUS
  <2>1. z \in Seq(Line) /\ Len(z) = 1 /\ Same(z[1], l)
    BY <1>1, OneReached
  <2>2. Write(p, "text") /\ Arrive(p, z) /\ UNCHANGED buffer
    BY <1>2 DEF WriteText
  <2> QED
    BY <1>1, <1>2, <2>1, <2>2, WriteOutKeeps
<1>3. written' = With(written, p, Append(written[p], l))
  BY DEF WriteText, Write, With
<1>4. /\ full \in Seq(Line) /\ IsText(full)
      /\ PutIn(a \o b, l, Len(a \o b) + 1, a \o full)
  <2>1. /\ full \in Seq(Line) /\ Len(b) \in Nat /\ full[Len(b) + 1] = k /\ Len(full) = Len(b) + 1
        /\ \A i \in 1..Len(b) : full[i] = b[i]
        /\ \A i \in 1..Len(full) : i \in 1..Len(b) \/ i = Len(b) + 1
    BY <1>1, OneMore
  <2>2. IsText(full)
    BY <1>1, <2>1 DEF IsText, Same
  <2>3. /\ Append(b, l) \in Seq(Line) /\ Append(b, l)[Len(b) + 1] = l /\ Len(Append(b, l)) = Len(b) + 1
        /\ \A i \in 1..Len(b) : Append(b, l)[i] = b[i]
    BY <1>1, OneMore
  <2>4. SameLines(Append(b, l), full)
    BY <1>1, <2>1, <2>3 DEF SameLines, Same
  <2>5. SameLines(a \o Append(b, l), a \o full)
    BY <1>1, <2>1, <2>3, <2>4, SameInPart
  <2>6. SameLines(Append(a \o b, l), a \o full) /\ a \o b \in Seq(Line)
    BY <1>1, <2>5, LastAfter, Concat
  <2> QED
    BY <1>1, <2>1, <2>2, <2>6, PutLast
<1>5. CASE buffered[p] /\ Len(full) < BufferLines
  <2>1. buffer' = With(buffer, p, full) /\ arrived' = With(arrived, p, a)
    BY <1>5 DEF WriteText, With, OutputInv, OutputType
  <2> QED
    BY <1>1, <1>3, <1>4, <1>5, <2>1, WrittenKeeps
<1>6. CASE buffered[p] /\ ~(Len(full) < BufferLines)
  <2> PICK z : z = Reaches(out[p], full)
    OBVIOUS
  <2>1. buffer' = With(buffer, p, <<>>) /\ arrived' = With(arrived, p, a \o z)
    BY <1>6 DEF WriteText, With, Arrive, OutputInv, OutputType
  <2>2. z \in Seq(Line) /\ SameLines(z, full)
    BY <1>4, ReachesSame
  <2>3. SameLines(full, z) /\ a \o z \in Seq(Line) /\ a \o full \in Seq(Line) /\ (a \o z) \o <<>> = a \o z
    <3>1. SameLines(full, z)
      BY <2>2 DEF SameLines, Same
    <3>2. a \o z \in Seq(Line) /\ a \o full \in Seq(Line)
      BY <1>1, <1>4, <2>2, Concat
    <3> QED
      BY <3>1, <3>2, NothingAfter
  <2>4. SameLines(a \o full, a \o z)
    BY <1>1, <1>4, <2>2, <2>3, SameInPart
  <2>5. PutIn(a \o b, l, Len(a \o b) + 1, a \o z)
    <3>1. Len(a \o b) \in Nat
      BY <1>1, Concat, LenProperties
    <3> QED
      BY <1>4, <2>4, <3>1, PutInBySame
  <2> PICK e : e = <<>>
    OBVIOUS
  <2> PICK x : x = a \o z
    OBVIOUS
  <2>6. e \in Seq(Line) /\ IsText(e) /\ x \in Seq(Line) /\ buffer' = With(buffer, p, e) /\ arrived' = With(arrived, p, x)
    BY <2>1, <2>3 DEF IsText
  <2>7. PutIn(OnItsWay(p), l, Len(a \o b) + 1, x \o e)
    BY <1>1, <2>3, <2>5
  <2> QED
    BY <1>1, <1>3, <1>6, <2>6, <2>7, WrittenKeeps
<1> QED
  BY <1>2, <1>5, <1>6

LEMMA SpawnKeeps ==
  ASSUME OutputInv, NEW p \in Processes, NEW c \in Processes, Spawn(p, c) PROVE OutputInv'
<1>1. /\ status[c] = "none" /\ status' = [status EXCEPT ![c] = "alive"] /\ UNCHANGED <<buffer, arrived, written>>
      /\ buffered' \in [Processes -> BOOLEAN] /\ \A q \in Processes : q # c => buffered'[q] = buffered[q]
  BY DEF Spawn, OutputInv, OutputType
<1>2. OutputType'
  BY <1>1 DEF OutputInv, OutputType
<1>3. ASSUME NEW q \in Processes, q # c PROVE ProcessInv(q)'
  <2>1. buffered'[q] = buffered[q] /\ status'[q] = status[q]
    BY <1>1, <1>3 DEF OutputInv, OutputType
  <2> QED
    BY <1>1, <2>1, OthersStay
<1>4. ProcessInv(c)'
  <2>1. buffer[c] = <<>>
    BY <1>1 DEF OutputInv, ProcessInv
  <2> PICK x : x = OnItsWay(c)
    OBVIOUS
  <2> PICK w : w = written[c]
    OBVIOUS
  <2>2. Sound(x, w) /\ OnItsWay(c)' = x /\ written'[c] = w /\ buffer'[c] = <<>>
    BY <1>1, <2>1 DEF OutputInv, ProcessInv, OnItsWay
  <2>3. Sound(OnItsWay(c), written[c])'
    BY <2>2 DEF Sound, InOrder, IsOf, HasAll
  <2>4. IsText(buffer[c])'
    BY <2>2 DEF IsText
  <2> QED
    BY <2>2, <2>3, <2>4 DEF ProcessInv
<1> QED
  BY <1>2, <1>3, <1>4 DEF OutputInv

LEMMA EndsKeep ==
  ASSUME OutputInv, NEW p \in Processes, Flush(p) \/ Finish(p) \/ Redirect(p) PROVE OutputInv'
<1>1. CASE Flush(p)
  BY <1>1, FlushedKeeps DEF Flush, OutputInv, OutputType
<1>2. CASE Finish(p)
  <2>1. /\ status' = [q \in Processes |-> IF q = p THEN "over"
                                          ELSE IF p = Root /\ status[q] = "alive" THEN "abandoned" ELSE status[q]]
        /\ FlushGuestOutput(p) /\ UNCHANGED <<buffered, written>>
    BY <1>2 DEF Finish, Gone
  <2>2. status' \in [Processes -> {"none", "alive", "over", "abandoned"}]
    BY <2>1 DEF OutputInv, OutputType
  <2>3. \A q \in Processes : q # p /\ status'[q] \in {"none", "over"} => status[q] = status'[q]
    BY <2>1
  <2> HIDE <2>1
  <2> QED
    BY <2>1, <2>2, <2>3, FlushedKeeps
<1>3. CASE Redirect(p)
  <2>1. UNCHANGED <<status, buffered, buffer, arrived, written>>
    BY <1>3 DEF Redirect
  <2> QED
    BY <2>1, OthersStay DEF OutputInv, OutputType
<1> QED
  BY <1>1, <1>2, <1>3

(* Every line a process has written is on its way once and in order.           *)
THEOREM OutputIsSound == OutputSpec => []OutputInv
<1>1. OutputInit => OutputInv
  <2> SUFFICES ASSUME OutputInit PROVE OutputInv
    OBVIOUS
  <2>1. OutputType
    BY DEF OutputInit, OutputType
  <2>2. ASSUME NEW p \in Processes PROVE ProcessInv(p)
    <3>1. buffer[p] = <<>> /\ written[p] = <<>> /\ OnItsWay(p) = <<>>
      BY DEF OutputInit, OnItsWay
    <3> QED
      BY <3>1 DEF ProcessInv, Sound, InOrder, IsOf, HasAll, IsText
  <2> QED
    BY <2>1, <2>2 DEF OutputInv
<1>2. OutputInv /\ [OutputNext]_outVars => OutputInv'
  <2> SUFFICES ASSUME OutputInv, [OutputNext]_outVars PROVE OutputInv'
    OBVIOUS
  <2>1. ASSUME NEW p \in Processes, WriteText(p) PROVE OutputInv'
    BY <2>1, WriteTextKeeps
  <2>2. ASSUME NEW p \in Processes, WriteError(p) \/ WriteRaw(p) PROVE OutputInv'
    BY <2>2, WriteErrorKeeps
  <2>3. ASSUME NEW p \in Processes, Flush(p) \/ Finish(p) \/ Redirect(p) PROVE OutputInv'
    BY <2>3, EndsKeep
  <2>4. ASSUME NEW p \in Processes, NEW c \in Processes, Spawn(p, c) PROVE OutputInv'
    BY <2>4, SpawnKeeps
  <2>5. CASE UNCHANGED outVars
    BY <2>5, OthersStay DEF outVars, OutputInv, OutputType
  <2> QED
    BY <2>1, <2>2, <2>3, <2>4, <2>5 DEF OutputNext
<1> QED
  BY <1>1, <1>2, PTL DEF OutputSpec

(* Nothing a Windows program prints is lost, repeated or overtaken on its way  *)
(* out, and its buffer is empty when it is over: for any number of processes,  *)
(* any size of the buffer and any redirection (flush_guest_output, emulator.cpp). *)
THEOREM OutputIsKept == OutputSpec => []NothingIsLost
<1>1. OutputInv => NothingIsLost
  BY DEF OutputInv, ProcessInv, Sound, NothingIsLost
<1> QED
  BY <1>1, OutputIsSound, PTL

-----------------------------------------------------------------------------
(* Pages.  No address is handed out twice, for every layout, size and      *)
(* granule, provided that what the guest places itself lies beyond the     *)
(* mmap window (PlacedBeyond).  The proviso is needed: a mapping placed    *)
(* inside the window does not move the frontier.                           *)

(* What the guest places itself is above the window and does not touch it. *)
PlacedBeyond == \A p \in Placed : p > MmapLimit

(* RecyclableIsUnused for a list, a set of used pages, a frontier and a    *)
(* break, with what makes it inductive: nothing waits to be reused or is   *)
(* used between the break and the window, and the page after the window is *)
(* unused, so that no mapping leads across its end.                        *)
Books(free, used, next, top) ==
    /\ free \in Seq(Block) /\ used \subseteq Pages
    /\ next \in Nat /\ top \in Nat /\ HeapLimit <= next /\ top <= HeapLimit
    /\ \A i \in 1 .. Len(free) : \A p \in PagesOf(free[i]) :
          /\ p \notin used /\ p < next /\ p < MmapLimit
          /\ p < top \/ p >= HeapLimit
    /\ \A i, j \in 1 .. Len(free) : i # j =>
          \A p \in PagesOf(free[i]) : p \notin PagesOf(free[j])
    /\ \A p \in used : /\ p # MmapLimit /\ (p < next \/ p > MmapLimit)
                       /\ p < top \/ p >= HeapLimit

Used == mapped \cup reserved

(* A view's pages are mapped, are nobody else's and were never reserved;   *)
(* on Linux there are no views and no reservations.                        *)
ViewsAreMapped ==
    /\ \A a \in Pages : views[a] # 0 =>
          /\ Span(a, views[a]) \subseteq mapped
          /\ Span(a, views[a]) \cap reserved = {}
          /\ \A b \in Pages : b # a /\ views[b] # 0 =>
                Span(a, views[a]) \cap Span(b, views[b]) = {}
    /\ os = "Linux" => reserved = {} /\ views = [p \in Pages |-> 0]

IInv == TypeOK /\ Books(mmap_free, Used, mmap_next, brk) /\ ViewsAreMapped

-----------------------------------------------------------------------------
(* The list.                                                               *)

(* What is left of a list without its i-th entry is the other entries.     *)
LEMMA WithoutEntry ==
    ASSUME NEW S, NEW s \in Seq(S), NEW i \in 1 .. Len(s)
    PROVE  /\ Without(s, i) \in Seq(S)
           /\ Len(Without(s, i)) = Len(s) - 1
           /\ \A j \in 1 .. Len(s) - 1 :
                 Without(s, i)[j] = IF j < i THEN s[j] ELSE s[j + 1]
<1>1. Len(s) - 1 \in Nat /\ DOMAIN s = 1 .. Len(s) /\ \A j \in 1 .. Len(s) : s[j] \in S
  OBVIOUS
<1>2. \A j \in 1 .. Len(s) - 1 : (IF j < i THEN s[j] ELSE s[j + 1]) \in S
  BY <1>1
<1>3. Without(s, i) \in [1 .. Len(s) - 1 -> S]
  BY <1>2 DEF Without
<1> QED
  BY <1>1, <1>3 DEF Without

(* Books after a page range beyond the frontier has been handed out.       *)
LEMMA BooksExtend ==
    ASSUME NEW f, NEW u, NEW nx, NEW top, Books(f, u, nx, top),
           NEW from \in Nat, nx <= from, NEW n \in Nat \ {0}
    PROVE  /\ Books(f, u, from, top)
           /\ from + n <= MmapLimit =>
                /\ Books(f, u \cup Span(from, n), from + n, top)
                /\ Span(from, n) \cap u = {}
                /\ Span(from, n) \subseteq Pages
<1> USE LayoutAssumption
<1>1. Books(f, u, from, top)
  <2>1. \A i \in 1 .. Len(f) : \A p \in PagesOf(f[i]) : p \in Int
    BY DEF PagesOf, Span, Block, Books, Pages
  <2>2. \A p \in u : p \in Int
    BY DEF Books, Pages
  <2>3. nx \in Nat /\ HeapLimit <= from
    BY DEF Books
  <2>4. \A i \in 1 .. Len(f) : \A p \in PagesOf(f[i]) : p < from
    <3> TAKE i \in 1 .. Len(f)
    <3> TAKE p \in PagesOf(f[i])
    <3>1. p \in Int /\ p < nx
      BY <2>1 DEF Books
    <3> QED
      BY <2>3, <3>1
  <2>5. \A p \in u : p < from \/ p > MmapLimit
    BY <2>2, <2>3 DEF Books
  <2> QED
    BY <2>3, <2>4, <2>5 DEF Books
<1>2. ASSUME from + n <= MmapLimit
      PROVE  /\ Books(f, u \cup Span(from, n), from + n, top)
             /\ Span(from, n) \cap u = {}
             /\ Span(from, n) \subseteq Pages
  <2>1. \A p \in Span(from, n) : /\ p \in Nat /\ from <= p /\ p < from + n
                                 /\ p \in Pages /\ p < MmapLimit /\ p >= HeapLimit
    BY <1>2 DEF Span, Pages, Books
  <2>2. \A p \in Span(from, n) : p \notin u
    BY <2>1 DEF Books, Pages
  <2>3. u \cup Span(from, n) \subseteq Pages
    BY <2>1 DEF Books
  <2>4. \A i \in 1 .. Len(f) : \A p \in PagesOf(f[i]) :
          /\ p \notin u \cup Span(from, n) /\ p < from + n /\ p < MmapLimit
          /\ p < top \/ p >= HeapLimit
    <3> TAKE i \in 1 .. Len(f)
    <3> TAKE p \in PagesOf(f[i])
    <3>1. p \in Int
      BY DEF PagesOf, Span, Block, Books, Pages
    <3> QED
      BY <2>1, <3>1 DEF Books
  <2>5. \A p \in u \cup Span(from, n) :
          /\ p # MmapLimit /\ (p < from + n \/ p > MmapLimit)
          /\ p < top \/ p >= HeapLimit
    <3> TAKE p \in u \cup Span(from, n)
    <3>1. CASE p \in u
      BY <3>1 DEF Books, Pages
    <3>2. CASE p \in Span(from, n)
      BY <2>1, <3>2
    <3> QED
      BY <3>1, <3>2
  <2>6. from + n \in Nat /\ HeapLimit <= from + n
    BY DEF Books
  <2> QED
    BY <2>1, <2>2, <2>3, <2>4, <2>5, <2>6 DEF Books
<1> QED
  BY <1>1, <1>2

(* The list when the start of its i-th range is used again. *)
Reused(f, i, n) ==
    IF f[i].size > n THEN [f EXCEPT ![i] = Rest(f[i], n)] ELSE Without(f, i)

(* Books after the start of a range that waits to be reused has been handed*)
(* out.                                                                    *)
LEMMA BooksRecycle ==
    ASSUME NEW f, NEW u, NEW nx, NEW top, Books(f, u, nx, top),
           NEW n \in Nat \ {0}, NEW i \in 1 .. Len(f), f[i].size >= n
    PROVE  /\ Books(Reused(f, i, n), u \cup Span(f[i].base, n), nx, top)
           /\ Span(f[i].base, n) \cap u = {}
           /\ Span(f[i].base, n) \subseteq Pages
           /\ f[i].base \in Pages
<1> USE LayoutAssumption
<1> DEFINE g == Reused(f, i, n)
           got2 == Span(f[i].base, n)
           u2 == u \cup got2
<1>1. /\ f \in Seq(Block) /\ Len(f) \in Nat
      /\ \A j \in 1 .. Len(f) : f[j] \in Block
  BY DEF Books
<1>2. f[i].base \in Nat /\ f[i].size \in Nat /\ f[i].base \in Pages
  BY <1>1 DEF Block, Pages
<1>3. \A p \in got2 : p \in PagesOf(f[i]) /\ p \in Nat
  BY <1>2 DEF PagesOf, Span
<1>4. \A p \in got2 : /\ p \notin u /\ p < nx /\ p < MmapLimit /\ (p < top \/ p >= HeapLimit)
                      /\ p \in Pages
  BY <1>3 DEF Books, Pages
<1>5. \A p \in u2 : /\ p # MmapLimit /\ (p < nx \/ p > MmapLimit)
                    /\ p < top \/ p >= HeapLimit
  <2> TAKE p \in u2
  <2>1. CASE p \in u
    BY <2>1 DEF Books
  <2>2. CASE p \in got2
    BY <1>3, <1>4, <2>2
  <2> QED
    BY <2>1, <2>2
<1>6. u2 \subseteq Pages
  BY <1>4 DEF Books
<1>7. \A j \in 1 .. Len(f) : j # i => \A p \in PagesOf(f[j]) : p \notin got2
  BY <1>3 DEF Books
<1>8. CASE f[i].size > n
  <2> DEFINE r == Rest(f[i], n)
  <2>1. r.base = f[i].base + n /\ r.size = f[i].size - n
    BY DEF Rest
  <2>2. f[i].base + n \in PagesOf(f[i])
    BY <1>2, <1>8 DEF PagesOf, Span
  <2>3. r \in Block
    <3>1. f[i].base + n < MmapLimit
      BY <2>2 DEF Books
    <3>2. f[i].base + n \in Pages
      BY <1>2, <3>1 DEF Pages
    <3>3. f[i].size - n \in Nat \ {0}
      BY <1>2, <1>8
    <3> QED
      BY <3>2, <3>3 DEF Rest, Block
  <2>4. g = [f EXCEPT ![i] = r]
    BY <1>8 DEF Reused
  <2>5. g \in Seq(Block) /\ Len(g) = Len(f)
    BY <1>1, <2>3, <2>4
  <2>6. \A j \in 1 .. Len(f) : g[j] = IF j = i THEN r ELSE f[j]
    BY <1>1, <2>4
  <2>7. \A p \in PagesOf(r) : p \in PagesOf(f[i]) /\ p \notin got2
    BY <1>2, <1>8, <2>1 DEF PagesOf, Span
  <2>8. \A j \in 1 .. Len(g) : \A p \in PagesOf(g[j]) : p \in PagesOf(f[j]) /\ p \notin got2
    <3> TAKE j \in 1 .. Len(g)
    <3>1. CASE j = i
      BY <2>5, <2>6, <2>7, <3>1
    <3>2. CASE j # i
      BY <1>7, <2>5, <2>6, <3>2
    <3> QED
      BY <3>1, <3>2
  <2>9. \A j \in 1 .. Len(g) : \A p \in PagesOf(g[j]) :
          /\ p \notin u2 /\ p < nx /\ p < MmapLimit /\ (p < top \/ p >= HeapLimit)
    BY <2>5, <2>8 DEF Books
  <2>10. \A j, k \in 1 .. Len(g) : j # k => \A p \in PagesOf(g[j]) : p \notin PagesOf(g[k])
    BY <2>5, <2>8 DEF Books
  <2> QED
    BY <1>2, <1>4, <1>5, <1>6, <2>5, <2>9, <2>10 DEF Books
<1>9. CASE ~(f[i].size > n)
  <2>1. g = Without(f, i)
    BY <1>9 DEF Reused
  <2> DEFINE spot(j) == IF j < i THEN j ELSE j + 1
  <2>0. /\ g \in Seq(Block) /\ Len(g) = Len(f) - 1
        /\ \A j \in 1 .. Len(f) - 1 : g[j] = IF j < i THEN f[j] ELSE f[j + 1]
    <3>1. f \in Seq(Block)
      BY <1>1
    <3>2. /\ Without(f, i) \in Seq(Block)
          /\ Len(Without(f, i)) = Len(f) - 1
          /\ \A j \in 1 .. Len(f) - 1 :
                Without(f, i)[j] = IF j < i THEN f[j] ELSE f[j + 1]
      BY <3>1, WithoutEntry, Zenon
    <3> QED
      BY <2>1, <3>2
  <2>2. /\ g \in Seq(Block) /\ Len(g) = Len(f) - 1
        /\ \A j \in 1 .. Len(g) : g[j] = f[spot(j)]
    BY <2>0
  <2>3. \A j \in 1 .. Len(g) : spot(j) \in 1 .. Len(f) /\ spot(j) # i
    BY <1>1, <2>2
  <2>4. \A j, k \in 1 .. Len(g) : j # k => spot(j) # spot(k)
    BY <1>1, <2>2
  <2> HIDE DEF spot
  <2>5. \A j \in 1 .. Len(g) : \A p \in PagesOf(g[j]) :
          /\ p \notin u2 /\ p < nx /\ p < MmapLimit /\ (p < top \/ p >= HeapLimit)
    <3> TAKE j \in 1 .. Len(g)
    <3> TAKE p \in PagesOf(g[j])
    <3>1. p \in PagesOf(f[spot(j)])
      BY <2>2
    <3> QED
      BY <1>7, <2>3, <3>1 DEF Books
  <2>6. \A j, k \in 1 .. Len(g) : j # k => \A p \in PagesOf(g[j]) : p \notin PagesOf(g[k])
    <3> TAKE j, k \in 1 .. Len(g)
    <3>1. spot(j) \in 1 .. Len(f) /\ spot(k) \in 1 .. Len(f) /\ g[j] = f[spot(j)] /\ g[k] = f[spot(k)]
      BY <2>2, <2>3
    <3>2. j # k => spot(j) # spot(k)
      BY <2>4
    <3> QED
      BY <3>1, <3>2 DEF Books
  <2> QED
    BY <1>2, <1>4, <1>5, <1>6, <2>2, <2>5, <2>6 DEF Books
<1> QED
  BY <1>8, <1>9

(* Books after the guest has given back pages that were its own: the whole *)
(* of them or a first part is put on the list, or none if they lie above.  *)
LEMMA BooksRelease ==
    ASSUME NEW f, NEW u, NEW nx, NEW top, Books(f, u, nx, top),
           NEW a \in Pages, NEW n \in Nat \ {0}, Span(a, n) \subseteq u,
           NEW m \in Nat \ {0}, m <= n
    PROVE  /\ Books(f, u \ Span(a, n), nx, top)
           /\ a < MmapLimit =>
                Books(Append(f, [base |-> a, size |-> m]), u \ Span(a, n), nx, top)
<1> USE LayoutAssumption
<1> DEFINE u2 == u \ Span(a, n)
           new == [base |-> a, size |-> m]
           g == Append(f, new)
<1>1. Books(f, u2, nx, top)
  BY DEF Books
<1>2. ASSUME a < MmapLimit PROVE Books(g, u2, nx, top)
  <2>1. a \in Nat /\ new \in Block /\ new.base = a /\ new.size = m
    BY DEF Pages, Block
  <2>2. MmapLimit \notin Span(a, n)
    BY DEF Books
  <2>3. a + n <= MmapLimit
    BY <1>2, <2>1, <2>2 DEF Span
  <2>4. \A p \in PagesOf(new) : p \in Nat /\ p < MmapLimit /\ p \in Span(a, n)
    BY <2>1, <2>3 DEF PagesOf, Span
  <2>5. \A p \in PagesOf(new) : /\ p \in u /\ p \notin u2 /\ p < nx /\ p < MmapLimit
                                /\ p < top \/ p >= HeapLimit
    BY <2>4 DEF Books
  <2>6. /\ f \in Seq(Block) /\ g \in Seq(Block) /\ Len(g) = Len(f) + 1 /\ Len(f) \in Nat
        /\ \A j \in 1 .. Len(f) : g[j] = f[j]
        /\ g[Len(f) + 1] = new
    BY <2>1 DEF Books
  <2> HIDE DEF g, new
  <2>7. \A j \in 1 .. Len(g) : \A p \in PagesOf(g[j]) :
          /\ p \notin u2 /\ p < nx /\ p < MmapLimit /\ (p < top \/ p >= HeapLimit)
    <3> TAKE j \in 1 .. Len(g)
    <3>1. CASE j \in 1 .. Len(f)
      BY <2>6, <3>1 DEF Books
    <3>2. CASE j = Len(f) + 1
      BY <2>5, <2>6, <3>2
    <3> QED
      BY <2>6, <3>1, <3>2
  <2>8. \A j \in 1 .. Len(f) : \A p \in PagesOf(f[j]) : p \notin PagesOf(new)
    BY <2>5 DEF Books
  <2>9. \A j, k \in 1 .. Len(g) : j # k => \A p \in PagesOf(g[j]) : p \notin PagesOf(g[k])
    <3> TAKE j, k \in 1 .. Len(g)
    <3>1. CASE j \in 1 .. Len(f) /\ k \in 1 .. Len(f)
      BY <2>6, <3>1 DEF Books
    <3>2. CASE j = Len(f) + 1 /\ k \in 1 .. Len(f)
      BY <2>6, <2>8, <3>2
    <3>3. CASE k = Len(f) + 1 /\ j \in 1 .. Len(f)
      BY <2>6, <2>8, <3>3
    <3> QED
      BY <2>6, <3>1, <3>2, <3>3
  <2>10. u2 \subseteq Pages
    BY DEF Books
  <2> QED
    BY <2>6, <2>7, <2>9, <2>10 DEF Books
<1> QED
  BY <1>1, <1>2

(* Books after the guest has placed pages of its own choice, or has lost   *)
(* the list by forking.                                                    *)
LEMMA BooksPlace ==
    ASSUME PlacedBeyond, NEW f, NEW u, NEW nx, NEW top, Books(f, u, nx, top),
           NEW w, w \subseteq u \cup Placed
    PROVE  Books(f, u \cup w, nx, top) /\ Books(<<>>, u, nx, top)
<1> USE LayoutAssumption
<1>1. \A p \in w : p \in u \/ (p \in Pages /\ p > MmapLimit)
  BY DEF PlacedBeyond
<1>2. u \cup w \subseteq Pages
  BY <1>1 DEF Books
<1>3. \A p \in u \cup w : /\ p # MmapLimit /\ (p < nx \/ p > MmapLimit)
                          /\ p < top \/ p >= HeapLimit
  <2> TAKE p \in u \cup w
  <2>1. CASE p \in u
    BY <2>1 DEF Books
  <2>2. CASE p \notin u
    BY <1>1, <2>2 DEF Pages
  <2> QED
    BY <2>1, <2>2
<1>4. \A i \in 1 .. Len(f) : \A p \in PagesOf(f[i]) : p \notin u \cup w
  <2> TAKE i \in 1 .. Len(f)
  <2> TAKE p \in PagesOf(f[i])
  <2>1. p \notin u /\ p < MmapLimit /\ p \in Int
    BY DEF Books, PagesOf, Span, Block, Pages
  <2> QED
    BY <1>1, <2>1
<1> QED
  BY <1>2, <1>3, <1>4 DEF Books

(* Books after the break has grown.                                        *)
LEMMA BooksBreak ==
    ASSUME NEW f, NEW u, NEW nx, NEW top, Books(f, u, nx, top),
           NEW addr \in Pages, top < addr, addr <= HeapLimit
    PROVE  /\ Books(f, u \cup top .. addr - 1, nx, addr)
           /\ (top .. addr - 1) \cap u = {}
<1> USE LayoutAssumption
<1> DEFINE more == top .. addr - 1
<1>0. addr \in Nat /\ top \in Nat
  BY DEF Pages, Books
<1>1. \A p \in more : p \in Nat /\ p \in Pages /\ top <= p /\ p < addr /\ p < HeapLimit
  BY <1>0 DEF Pages
<1>2. \A p \in more : p \notin u
  BY <1>0, <1>1 DEF Books, Pages
<1>3. \A p \in u \cup more : /\ p # MmapLimit /\ (p < nx \/ p > MmapLimit)
                             /\ p < addr \/ p >= HeapLimit
  <2> TAKE p \in u \cup more
  <2>1. CASE p \in u
    BY <1>0, <2>1 DEF Books, Pages
  <2>2. CASE p \in more
    BY <1>0, <1>1, <2>2 DEF Books
  <2> QED
    BY <2>1, <2>2
<1>4. \A i \in 1 .. Len(f) : \A p \in PagesOf(f[i]) :
        /\ p \notin u \cup more /\ p < nx /\ p < MmapLimit
        /\ p < addr \/ p >= HeapLimit
  <2> TAKE i \in 1 .. Len(f)
  <2> TAKE p \in PagesOf(f[i])
  <2>1. p \in Int
    BY DEF Books, PagesOf, Span, Block, Pages
  <2> QED
    BY <1>0, <1>1, <2>1 DEF Books
<1>5. u \cup more \subseteq Pages
  BY <1>1 DEF Books
<1> QED
  BY <1>0, <1>2, <1>3, <1>4, <1>5 DEF Books

-----------------------------------------------------------------------------
(* The steps.                                                              *)

(* Aligning moves up, to an address. *)
LEMMA AlignUpIsUp ==
    ASSUME NEW a \in Nat
    PROVE  AlignUp(a) \in Nat /\ a <= AlignUp(a)
<1>1. Granule \in Nat /\ Granule > 0
  BY LayoutAssumption
<1> DEFINE q == (a + Granule - 1) \div Granule
           r == (a + Granule - 1) % Granule
<1>2. a + Granule - 1 \in Nat
  BY <1>1
<1>3. q \in Int /\ r \in 0 .. Granule - 1 /\ a + Granule - 1 = Granule * q + r
  BY <1>1, <1>2, SMT
<1>4. q * Granule \in Int /\ q * Granule = a + Granule - 1 - r
  BY <1>1, <1>3, SMT
<1> QED
  BY <1>1, <1>3, <1>4 DEF AlignUp

(* What every call that hands out pages does: they are new to the guest,   *)
(* and they are all that it gets.                                          *)
HandsOut ==
    /\ got' \subseteq Pages /\ got' \cap Used = {}
    /\ mapped' = mapped \cup got'
    /\ mmap_free' \in Seq(Block) /\ mmap_next' \in Nat
    /\ mmap_live' \in [Pages -> Nat]
    /\ Books(mmap_free', Used \cup got', mmap_next', brk)

(* alloc_pages, from the frontier. *)
LEMMA ExtendHandsOut ==
    ASSUME IInv, NEW n \in Nat \ {0}, NEW from \in Nat, mmap_next <= from, Extend(from, n)
    PROVE  HandsOut
<1>1. /\ Books(mmap_free, Used, mmap_next, brk)
      /\ mmap_free \in Seq(Block) /\ mmap_live \in [Pages -> Nat]
  BY DEF IInv, TypeOK
<1>2. /\ Books(mmap_free, Used, from, brk)
      /\ from + n <= MmapLimit =>
           /\ Books(mmap_free, Used \cup Span(from, n), from + n, brk)
           /\ Span(from, n) \cap Used = {}
           /\ Span(from, n) \subseteq Pages
  BY <1>1, BooksExtend
<1>3. CASE from + n > MmapLimit
  <2>1. mmap_next' = from /\ got' = {} /\ mapped' = mapped /\ mmap_live' = mmap_live
        /\ mmap_free' = mmap_free
    BY <1>3 DEF Extend, Nothing
  <2> QED
    BY <1>1, <1>2, <2>1 DEF HandsOut
<1>4. CASE ~(from + n > MmapLimit)
  <2>1. /\ mmap_next' = from + n /\ mmap_free' = mmap_free /\ got' = Span(from, n)
        /\ mapped' = mapped \cup Span(from, n)
        /\ mmap_live' = [mmap_live EXCEPT ![from] = n]
    BY <1>4 DEF Extend, HandOut
  <2>2. from + n <= MmapLimit /\ from + n \in Nat
    BY <1>4, LayoutAssumption
  <2>3. [mmap_live EXCEPT ![from] = n] \in [Pages -> Nat]
    BY <1>1
  <2> QED
    BY <1>1, <1>2, <2>1, <2>2, <2>3, Zenon DEF HandsOut
<1> QED
  BY <1>3, <1>4

(* alloc_pages, from the list. *)
LEMMA RecycleHandsOut ==
    ASSUME IInv, NEW n \in Nat \ {0}, Recycle(n)
    PROVE  HandsOut
<1>1. /\ Books(mmap_free, Used, mmap_next, brk)
      /\ mmap_free \in Seq(Block) /\ mmap_live \in [Pages -> Nat] /\ mmap_next \in Nat
  BY DEF IInv, TypeOK
<1>2. PICK i \in Fitting(n) :
        /\ mmap_free' = IF mmap_free[i].size > n
                        THEN [mmap_free EXCEPT ![i] = Rest(mmap_free[i], n)]
                        ELSE Without(mmap_free, i)
        /\ HandOut(mmap_free[i].base, n)
        /\ UNCHANGED mmap_next
  BY Zenon DEF Recycle
<1> DEFINE g == Reused(mmap_free, i, n)
           a == mmap_free[i].base
<1>3. i \in 1 .. Len(mmap_free) /\ mmap_free[i].size >= n
  BY <1>2 DEF Fitting, Blocks
<1>4. /\ Books(g, Used \cup Span(a, n), mmap_next, brk)
      /\ Span(a, n) \cap Used = {} /\ Span(a, n) \subseteq Pages
      /\ a \in Pages
  BY <1>1, <1>3, BooksRecycle
<1>5. g \in Seq(Block)
  BY <1>4 DEF Books
<1>6. [mmap_live EXCEPT ![a] = n] \in [Pages -> Nat]
  BY <1>1
<1>7. /\ mmap_free' = g /\ mmap_next' = mmap_next /\ got' = Span(a, n)
      /\ mapped' = mapped \cup Span(a, n)
      /\ mmap_live' = [mmap_live EXCEPT ![a] = n]
  BY <1>2 DEF HandOut, Reused
<1> HIDE DEF g, a
<1> QED
  BY <1>1, <1>4, <1>5, <1>6, <1>7, Zenon DEF HandsOut

LEMMA AllocHandsOut ==
    ASSUME IInv, NEW n \in Nat \ {0}, AllocPages(n) \/ AllocAligned(n)
    PROVE  HandsOut
<1>1. mmap_next \in Nat
  BY DEF IInv, TypeOK
<1>2. CASE Recycle(n)
  BY <1>2, RecycleHandsOut
<1>3. CASE Extend(mmap_next, n)
  BY <1>1, <1>3, ExtendHandsOut
<1>4. CASE AllocAligned(n)
  <2>1. AlignUp(mmap_next) \in Nat /\ mmap_next <= AlignUp(mmap_next)
    BY <1>1, AlignUpIsUp
  <2> QED
    BY <1>4, <2>1, ExtendHandsOut DEF AllocAligned
<1> QED
  BY <1>2, <1>3, <1>4 DEF AllocPages
(* What every call that gives pages back does. *)
TakesBack(a, n) ==
    /\ mapped' = mapped \ Span(a, n)
    /\ mmap_free' \in Seq(Block)
    /\ mmap_live' \in [Pages -> Nat]
    /\ Books(mmap_free', Used \ Span(a, n), mmap_next, brk)

(* free_pages, of pages that are the caller's. *)
LEMMA FreeTakesBack ==
    ASSUME IInv, NEW a \in Pages, NEW n \in Nat \ {0},
           Span(a, n) \subseteq mapped, FreePages(a, n)
    PROVE  TakesBack(a, n)
<1>1. /\ Books(mmap_free, Used, mmap_next, brk)
      /\ mmap_free \in Seq(Block) /\ mmap_live \in [Pages -> Nat]
      /\ Span(a, n) \subseteq Used
  BY DEF IInv, TypeOK, Used
<1>2. mapped' = mapped \ Span(a, n)
  BY DEF FreePages
<1>3. \A m \in Nat \ {0} : m <= n =>
        /\ Books(mmap_free, Used \ Span(a, n), mmap_next, brk)
        /\ a < MmapLimit =>
             Books(Append(mmap_free, [base |-> a, size |-> m]), Used \ Span(a, n), mmap_next, brk)
  BY <1>1, BooksRelease
<1>4. /\ Books(mmap_free, Used \ Span(a, n), mmap_next, brk)
      /\ a < MmapLimit =>
           Books(Append(mmap_free, [base |-> a, size |-> n]), Used \ Span(a, n), mmap_next, brk)
  BY <1>3
<1>5. [mmap_live EXCEPT ![a] = 0] \in [Pages -> Nat]
  BY <1>1
<1>6. a < MmapLimit \/ a >= MmapLimit
  BY LayoutAssumption DEF Pages
<1>7. CASE mmap_free' = mmap_free /\ mmap_live' = mmap_live
  BY <1>1, <1>2, <1>4, <1>7, Zenon DEF TakesBack
<1>8. CASE /\ a < MmapLimit
           /\ mmap_free' = Append(mmap_free, [base |-> a, size |-> n])
           /\ mmap_live' = mmap_live
  <2>1. Append(mmap_free, [base |-> a, size |-> n]) \in Seq(Block)
    BY <1>4, <1>8 DEF Books
  <2> QED
    BY <1>1, <1>2, <1>4, <1>8, <2>1, Zenon DEF TakesBack
<1>9. CASE /\ a < MmapLimit
           /\ mmap_live[a] # 0 /\ mmap_live[a] <= n
           /\ mmap_free' = Append(mmap_free, [base |-> a, size |-> mmap_live[a]])
           /\ mmap_live' = [mmap_live EXCEPT ![a] = 0]
  <2>1. mmap_live[a] \in Nat \ {0} /\ mmap_live[a] <= n
    BY <1>1, <1>9
  <2>2. Books(Append(mmap_free, [base |-> a, size |-> mmap_live[a]]),
              Used \ Span(a, n), mmap_next, brk)
    BY <1>3, <1>9, <2>1
  <2>3. Append(mmap_free, [base |-> a, size |-> mmap_live[a]]) \in Seq(Block)
    BY <2>2 DEF Books
  <2> QED
    BY <1>2, <1>5, <1>9, <2>2, <2>3, Zenon DEF TakesBack
<1> QED
  BY <1>6, <1>7, <1>8, <1>9 DEF FreePages

-----------------------------------------------------------------------------
(* The views and the types, step by step.                                  *)

(* A step that only adds pages, and gives the guest what it had not        *)
(* reserved.                                                               *)
LEMMA MoreIsMapped ==
    ASSUME IInv, mapped \subseteq mapped', UNCHANGED <<os, views, reserved>>
    PROVE  ViewsAreMapped'
BY DEF IInv, ViewsAreMapped, Span

(* A new view of pages that were nobody's. *)
LEMMA NewView ==
    ASSUME IInv, NEW a \in Pages, NEW n \in Nat \ {0}, os = "Windows",
           Span(a, n) \cap Used = {}, mapped' = mapped \cup Span(a, n),
           views' = [views EXCEPT ![a] = n], UNCHANGED <<os, reserved>>
    PROVE  ViewsAreMapped' /\ views' \in [Pages -> Nat]
<1>1. views \in [Pages -> Nat] /\ ViewsAreMapped
  BY DEF IInv, TypeOK
<1>2. /\ views' \in [Pages -> Nat] /\ views'[a] = n
      /\ \A b \in Pages : b # a => views'[b] = views[b]
  BY <1>1
<1> DEFINE of(b) == Span(b, views[b])
<1>3. \A b \in Pages : views[b] # 0 => of(b) \cap Span(a, n) = {}
  BY <1>1 DEF ViewsAreMapped, Used
<1>4. ASSUME NEW b \in Pages, views'[b] # 0
      PROVE  /\ Span(b, views'[b]) \subseteq mapped'
             /\ Span(b, views'[b]) \cap reserved' = {}
             /\ \A c \in Pages : c # b /\ views'[c] # 0 =>
                   Span(b, views'[b]) \cap Span(c, views'[c]) = {}
  <2>1. CASE b = a
    <3>1. Span(b, views'[b]) = Span(a, n)
      BY <1>2, <2>1
    <3>2. Span(a, n) \cap reserved = {}
      BY DEF Used
    <3>3. \A c \in Pages : c # b /\ views'[c] # 0 => Span(c, views'[c]) = of(c) /\ views[c] # 0
      BY <1>2, <2>1
    <3> HIDE DEF of
    <3> QED
      BY <1>3, <3>1, <3>2, <3>3
  <2>2. CASE b # a
    <3>1. Span(b, views'[b]) = of(b) /\ views[b] # 0
      BY <1>2, <1>4, <2>2
    <3>2. \A c \in Pages : c # a /\ views'[c] # 0 => Span(c, views'[c]) = of(c) /\ views[c] # 0
      BY <1>2
    <3>3. Span(a, views'[a]) = Span(a, n)
      BY <1>2
    <3>4. \A c \in Pages : c # b /\ views[c] # 0 => of(b) \cap of(c) = {}
      BY <1>1, <3>1 DEF ViewsAreMapped
    <3>5. of(b) \subseteq mapped /\ of(b) \cap reserved = {}
      BY <1>1, <3>1 DEF ViewsAreMapped
    <3> HIDE DEF of
    <3>6. of(b) \cap Span(a, n) = {}
      BY <1>3, <3>1
    <3> QED
      BY <3>1, <3>2, <3>3, <3>4, <3>5, <3>6
  <2> QED
    BY <2>1, <2>2
<1>5. os' # "Linux"
  OBVIOUS
<1> QED
  BY <1>2, <1>4, <1>5, Zenon DEF ViewsAreMapped
(* A view that is given back takes only its own pages away. *)
LEMMA OneViewLess ==
    ASSUME IInv, NEW a \in Pages, views[a] # 0, mapped' = mapped \ Span(a, views[a]),
           views' = [views EXCEPT ![a] = 0], os = "Windows", UNCHANGED <<os, reserved>>
    PROVE  ViewsAreMapped' /\ views' \in [Pages -> Nat]
<1>1. views \in [Pages -> Nat] /\ ViewsAreMapped
  BY DEF IInv, TypeOK
<1>2. /\ views' \in [Pages -> Nat] /\ views'[a] = 0
      /\ \A b \in Pages : b # a => views'[b] = views[b]
  BY <1>1
<1> DEFINE of(b) == Span(b, views[b])
<1>3. \A b \in Pages : views'[b] # 0 =>
        b # a /\ views[b] # 0 /\ Span(b, views'[b]) = of(b)
  BY <1>2
<1>4. \A b, c \in Pages : b # c /\ views[b] # 0 /\ views[c] # 0 => of(b) \cap of(c) = {}
  BY <1>1 DEF ViewsAreMapped
<1>5. \A b \in Pages : views[b] # 0 => of(b) \subseteq mapped /\ of(b) \cap reserved = {}
  BY <1>1 DEF ViewsAreMapped
<1>6. mapped' = mapped \ of(a)
  OBVIOUS
<1> HIDE DEF of
<1>7. ASSUME NEW b \in Pages, views'[b] # 0
      PROVE  /\ Span(b, views'[b]) \subseteq mapped'
             /\ Span(b, views'[b]) \cap reserved' = {}
             /\ \A c \in Pages : c # b /\ views'[c] # 0 =>
                   Span(b, views'[b]) \cap Span(c, views'[c]) = {}
  <2>1. b # a /\ views[b] # 0 /\ Span(b, views'[b]) = of(b)
    BY <1>3, <1>7
  <2>2. of(b) \cap of(a) = {}
    BY <1>4, <2>1
  <2> QED
    BY <1>3, <1>4, <1>5, <1>6, <2>1, <2>2
<1>8. os' # "Linux"
  OBVIOUS
<1> QED
  BY <1>2, <1>7, <1>8, Zenon DEF ViewsAreMapped

(* What a step must do to the types and the books, the list being IInv's   *)
(* conjuncts: the next state's are the given ones.                         *)
LEMMA NextIInv ==
    ASSUME IInv, os' = os, mapped' \subseteq Pages, reserved' \subseteq Pages,
           got' \subseteq Pages, mmap_next' \in Nat, mmap_free' \in Seq(Block),
           mmap_live' \in [Pages -> Nat], views' \in [Pages -> Nat],
           brk' \in Pages \cup {LastPage + 1},
           Books(mmap_free', mapped' \cup reserved', mmap_next', brk'), ViewsAreMapped'
    PROVE  IInv'
BY Zenon DEF IInv, TypeOK, Used

(* What a step may give the guest. *)
Fresh == got' \cap (mapped \cup reserved) = {}

LEMMA HandsOutKeeps ==
    ASSUME IInv, HandsOut, UNCHANGED <<os, brk, views, reserved>>
    PROVE  IInv' /\ Fresh
<1>1. HandsOut
  OBVIOUS
<1>2. /\ mapped \subseteq Pages /\ reserved \subseteq Pages /\ views \in [Pages -> Nat]
      /\ brk \in Pages \cup {LastPage + 1}
  BY DEF IInv, TypeOK
<1>3. mapped' \cup reserved' = Used \cup got' /\ mapped \subseteq mapped' /\ mapped' \subseteq Pages
  BY <1>1, <1>2 DEF HandsOut, Used
<1>4. ViewsAreMapped'
  BY <1>3, MoreIsMapped
<1>5. Books(mmap_free', mapped' \cup reserved', mmap_next', brk')
  BY <1>1, <1>3, Zenon DEF HandsOut
<1> QED
  BY <1>1, <1>2, <1>3, <1>4, <1>5, NextIInv, Zenon DEF HandsOut, Fresh, Used

LEMMA MmapKeeps ==
    ASSUME IInv, NEW n \in Nat \ {0}, AllocPages(n), UNCHANGED <<os, brk, views, reserved>>
    PROVE  IInv' /\ Fresh
BY AllocHandsOut, HandsOutKeeps

LEMMA VirtualAllocKeeps ==
    ASSUME IInv, NEW n \in Nat \ {0}, AllocAligned(n), UNCHANGED <<os, brk, views, reserved>>
    PROVE  IInv' /\ Fresh
BY AllocHandsOut, HandsOutKeeps

(* What the guest places itself, over what it has or beyond the window. *)
LEMMA PlaceKeeps ==
    ASSUME PlacedBeyond, IInv, NEW w, w \subseteq Used \cup Placed, mapped' = mapped \cup w,
           got' = {} \/ (got' = w /\ w \cap Used = {}),
           UNCHANGED <<os, mmap_next, mmap_free, mmap_live, brk, views, reserved>>
    PROVE  IInv' /\ Fresh
<1>1. /\ mapped \subseteq Pages /\ reserved \subseteq Pages /\ views \in [Pages -> Nat]
      /\ brk \in Pages \cup {LastPage + 1} /\ mmap_next \in Nat /\ mmap_free \in Seq(Block)
      /\ mmap_live \in [Pages -> Nat] /\ Books(mmap_free, Used, mmap_next, brk)
  BY DEF IInv, TypeOK
<1>2. w \subseteq Pages /\ mapped' \subseteq Pages /\ mapped \subseteq mapped'
  BY <1>1, LayoutAssumption DEF Used
<1>3. mapped' \cup reserved' = Used \cup w
  BY DEF Used
<1>4. Books(mmap_free, Used \cup w, mmap_next, brk)
  BY <1>1, BooksPlace
<1>5. Books(mmap_free', mapped' \cup reserved', mmap_next', brk')
  BY <1>3, <1>4, Zenon
<1>6. ViewsAreMapped'
  BY <1>2, MoreIsMapped
<1>7. got' \subseteq Pages /\ Fresh
  BY <1>2 DEF Fresh, Used
<1> QED
  BY <1>1, <1>2, <1>5, <1>6, <1>7, NextIInv, Zenon

LEMMA MunmapKeeps ==
    ASSUME IInv, NEW a \in Pages, NEW n \in Nat \ {0}, Munmap(a, n)
    PROVE  IInv' /\ Fresh
<1>1. TakesBack(a, n)
  BY FreeTakesBack DEF Munmap
<1>2. /\ mapped \subseteq Pages /\ views = [p \in Pages |-> 0] /\ reserved = {}
      /\ brk \in Pages \cup {LastPage + 1} /\ mmap_next \in Nat
  BY DEF IInv, TypeOK, ViewsAreMapped, Munmap
<1>3. /\ os' = os /\ got' = {} /\ mmap_next' = mmap_next /\ brk' = brk /\ views' = views
      /\ reserved' = reserved
  BY DEF Munmap
<1>4. mapped' \cup reserved' = Used \ Span(a, n) /\ mapped' \subseteq Pages
  BY <1>1, <1>2, <1>3 DEF TakesBack, Used
<1>5. Books(mmap_free', mapped' \cup reserved', mmap_next', brk')
  BY <1>1, <1>3, <1>4, Zenon DEF TakesBack
<1>6. views' = [p \in Pages |-> 0] /\ reserved' = {} /\ views' \in [Pages -> Nat]
  BY <1>2, <1>3
<1>7. ViewsAreMapped'
  BY <1>6 DEF ViewsAreMapped
<1>8. got' \subseteq Pages /\ reserved' \subseteq Pages /\ Fresh
  BY <1>3, <1>6 DEF Fresh
<1> QED
  BY <1>1, <1>2, <1>3, <1>4, <1>5, <1>6, <1>7, <1>8, NextIInv, Zenon DEF TakesBack

LEMMA BrkKeeps ==
    ASSUME IInv, NEW addr \in Pages, Brk(addr)
    PROVE  IInv' /\ Fresh
<1> DEFINE more == brk .. addr - 1
<1>1. /\ mapped \subseteq Pages /\ reserved \subseteq Pages /\ views \in [Pages -> Nat]
      /\ brk \in Pages \cup {LastPage + 1} /\ mmap_next \in Nat /\ mmap_free \in Seq(Block)
      /\ mmap_live \in [Pages -> Nat] /\ Books(mmap_free, Used, mmap_next, brk)
  BY DEF IInv, TypeOK
<1>2. brk < addr /\ addr <= HeapLimit
  BY DEF Brk
<1>3. Books(mmap_free, Used \cup more, mmap_next, addr) /\ more \cap Used = {}
  BY <1>1, <1>2, BooksBreak
<1>4. more \subseteq Pages
  BY <1>3 DEF Books
<1>5. /\ os' = os /\ mapped' = mapped \cup more /\ brk' = addr /\ got' = more
      /\ mmap_next' = mmap_next /\ mmap_free' = mmap_free /\ mmap_live' = mmap_live
      /\ views' = views /\ reserved' = reserved
  BY DEF Brk
<1> HIDE DEF more
<1>6. mapped' \cup reserved' = Used \cup more /\ mapped' \subseteq Pages /\ mapped \subseteq mapped'
  BY <1>1, <1>4, <1>5 DEF Used
<1>7. Books(mmap_free', mapped' \cup reserved', mmap_next', brk')
  BY <1>3, <1>5, <1>6, Zenon
<1>8. ViewsAreMapped'
  BY <1>5, <1>6, MoreIsMapped
<1>9. got' \subseteq Pages /\ reserved' \subseteq Pages /\ Fresh
  BY <1>1, <1>3, <1>4, <1>5 DEF Fresh, Used
<1>10. brk' \in Pages \cup {LastPage + 1}
  BY <1>5
<1>11. /\ mmap_next' \in Nat /\ mmap_free' \in Seq(Block) /\ mmap_live' \in [Pages -> Nat]
       /\ views' \in [Pages -> Nat]
  BY <1>1, <1>5, Zenon
<1> QED
  BY <1>5, <1>6, <1>7, <1>8, <1>9, <1>10, <1>11, NextIInv, Zenon
LEMMA ForkKeeps ==
    ASSUME PlacedBeyond, IInv, Fork
    PROVE  IInv' /\ Fresh
<1>1. /\ mapped \subseteq Pages /\ reserved \subseteq Pages /\ views \in [Pages -> Nat]
      /\ brk \in Pages \cup {LastPage + 1} /\ mmap_next \in Nat
      /\ Books(mmap_free, Used, mmap_next, brk)
  BY DEF IInv, TypeOK
<1>2. Books(<<>>, Used, mmap_next, brk)
  BY <1>1, BooksPlace
<1>3. /\ os' = os /\ mapped' = mapped /\ brk' = brk /\ got' = {}
      /\ mmap_next' = mmap_next /\ mmap_free' = <<>> /\ mmap_live' = [p \in Pages |-> 0]
      /\ views' = views /\ reserved' = reserved
  BY DEF Fork
<1>4. Books(mmap_free', mapped' \cup reserved', mmap_next', brk')
  BY <1>2, <1>3, Zenon DEF Used
<1>5. ViewsAreMapped'
  BY <1>3, MoreIsMapped
<1>6. <<>> \in Seq(Block) /\ [p \in Pages |-> 0] \in [Pages -> Nat]
  OBVIOUS
<1>7. got' \subseteq Pages /\ Fresh
  BY <1>3 DEF Fresh
<1> QED
  BY <1>1, <1>3, <1>4, <1>5, <1>6, <1>7, NextIInv, Zenon

LEMMA VirtualReserveKeeps ==
    ASSUME IInv, NEW n \in Nat \ {0}, VirtualReserve(n)
    PROVE  IInv' /\ Fresh
<1> DEFINE a == AlignUp(mmap_next)
<1>1. /\ mapped \subseteq Pages /\ reserved \subseteq Pages /\ views \in [Pages -> Nat]
      /\ brk \in Pages \cup {LastPage + 1} /\ mmap_next \in Nat /\ mmap_free \in Seq(Block)
      /\ mmap_live \in [Pages -> Nat] /\ Books(mmap_free, Used, mmap_next, brk)
      /\ ViewsAreMapped /\ os = "Windows"
  BY DEF IInv, TypeOK, VirtualReserve
<1>2. a \in Nat /\ mmap_next <= a
  BY <1>1, AlignUpIsUp
<1> HIDE DEF a
<1>3. /\ Books(mmap_free, Used, a, brk)
      /\ a + n <= MmapLimit =>
           /\ Books(mmap_free, Used \cup Span(a, n), a + n, brk)
           /\ Span(a, n) \cap Used = {}
           /\ Span(a, n) \subseteq Pages
  BY <1>1, <1>2, BooksExtend
<1>4. /\ os' = os /\ brk' = brk /\ mapped' = mapped /\ mmap_free' = mmap_free
      /\ mmap_live' = mmap_live /\ views' = views
  BY DEF VirtualReserve
<1>5. CASE a + n > MmapLimit
  <2>1. mmap_next' = a /\ got' = {} /\ reserved' = reserved
    BY <1>5 DEF VirtualReserve, a
  <2>2. Books(mmap_free', mapped' \cup reserved', mmap_next', brk')
    BY <1>3, <1>4, <2>1, Zenon DEF Used
  <2>3. ViewsAreMapped'
    BY <1>4, <2>1, MoreIsMapped
  <2>4. got' \subseteq Pages /\ Fresh
    BY <2>1 DEF Fresh
  <2> QED
    BY <1>1, <1>2, <1>4, <2>1, <2>2, <2>3, <2>4, NextIInv, Zenon
<1>6. CASE ~(a + n > MmapLimit)
  <2>1. mmap_next' = a + n /\ got' = Span(a, n) /\ reserved' = reserved \cup Span(a, n)
    BY <1>6 DEF VirtualReserve, a
  <2>2. a + n <= MmapLimit /\ a + n \in Nat
    BY <1>2, <1>6, LayoutAssumption
  <2>3. mapped' \cup reserved' = Used \cup Span(a, n)
    BY <1>4, <2>1 DEF Used
  <2>4. Books(mmap_free', mapped' \cup reserved', mmap_next', brk')
    BY <1>3, <1>4, <2>1, <2>2, <2>3, Zenon
  <2>5. Span(a, n) \cap mapped = {} /\ Span(a, n) \cap (mapped \cup reserved) = {}
    BY <1>3, <2>2 DEF Used
  <2>6. ViewsAreMapped'
    <3> DEFINE of(b) == Span(b, views[b])
    <3>1. \A b \in Pages : views[b] # 0 => of(b) \cap (reserved \cup Span(a, n)) = {}
      BY <1>1, <2>5 DEF ViewsAreMapped
    <3> QED
      BY <1>1, <1>4, <2>1, <3>1, Zenon DEF ViewsAreMapped
  <2>7. got' \subseteq Pages /\ reserved' \subseteq Pages /\ Fresh
    BY <1>1, <1>3, <2>1, <2>2, <2>5 DEF Fresh
  <2> QED
    BY <1>1, <1>4, <2>1, <2>2, <2>4, <2>6, <2>7, NextIInv, Zenon
<1> QED
  BY <1>5, <1>6

LEMMA MapViewKeeps ==
    ASSUME IInv, NEW n \in Nat \ {0}, MapView(n)
    PROVE  IInv' /\ Fresh
<1>1. HandsOut
  BY AllocHandsOut DEF MapView
<1>2. /\ mapped \subseteq Pages /\ reserved \subseteq Pages
      /\ brk \in Pages \cup {LastPage + 1}
  BY DEF IInv, TypeOK
<1>3. PICK a \in Pages : got' = Span(a, n) /\ views' = [views EXCEPT ![a] = n]
  BY DEF MapView
<1>4. os = "Windows" /\ os' = os /\ reserved' = reserved /\ brk' = brk
  BY DEF MapView
<1>5. mapped' \cup reserved' = Used \cup got' /\ mapped' \subseteq Pages
  BY <1>1, <1>2, <1>4 DEF HandsOut, Used
<1>6. ViewsAreMapped' /\ views' \in [Pages -> Nat]
  BY <1>1, <1>3, <1>4, NewView DEF HandsOut
<1>7. Books(mmap_free', mapped' \cup reserved', mmap_next', brk')
  BY <1>1, <1>4, <1>5, Zenon DEF HandsOut
<1> QED
  BY <1>1, <1>2, <1>4, <1>5, <1>6, <1>7, NextIInv, Zenon DEF HandsOut, Fresh, Used

LEMMA UnmapViewKeeps ==
    ASSUME IInv, NEW a \in Pages, UnmapView(a)
    PROVE  IInv' /\ Fresh
<1> DEFINE n == views[a]
<1>1. /\ mapped \subseteq Pages /\ reserved \subseteq Pages /\ views \in [Pages -> Nat]
      /\ brk \in Pages \cup {LastPage + 1} /\ mmap_next \in Nat /\ ViewsAreMapped
  BY DEF IInv, TypeOK
<1>2. /\ os = "Windows" /\ os' = os /\ got' = {} /\ mmap_next' = mmap_next /\ brk' = brk
      /\ reserved' = reserved /\ views' = [views EXCEPT ![a] = 0] /\ views[a] # 0
  BY DEF UnmapView
<1>3. n \in Nat \ {0} /\ Span(a, n) \subseteq mapped /\ Span(a, n) \cap reserved = {}
  BY <1>1, <1>2 DEF ViewsAreMapped
<1>4. TakesBack(a, n)
  BY <1>3, FreeTakesBack DEF UnmapView
<1>5. mapped' = mapped \ Span(a, n)
  BY <1>4 DEF TakesBack
<1>6. ViewsAreMapped' /\ views' \in [Pages -> Nat]
  BY <1>2, <1>5, OneViewLess
<1> HIDE DEF n
<1>7. mapped' \cup reserved' = Used \ Span(a, n) /\ mapped' \subseteq Pages
  BY <1>1, <1>2, <1>3, <1>5 DEF Used
<1>8. Books(mmap_free', mapped' \cup reserved', mmap_next', brk')
  BY <1>2, <1>4, <1>7, Zenon DEF TakesBack
<1>9. got' \subseteq Pages /\ Fresh
  BY <1>2 DEF Fresh
<1> QED
  BY <1>1, <1>2, <1>4, <1>6, <1>7, <1>8, <1>9, NextIInv, Zenon DEF TakesBack

-----------------------------------------------------------------------------
LEMMA InitIInv == Init => IInv
<1> SUFFICES ASSUME Init PROVE IInv
  OBVIOUS
<1> USE LayoutAssumption
<1>1. TypeOK
  BY DEF Init, TypeOK, Pages
<1>2. Books(mmap_free, Used, mmap_next, brk)
  <2>1. Used = 0 .. HeapBase - 1 /\ mmap_next = HeapLimit /\ mmap_free = <<>> /\ brk = HeapBase
    BY DEF Init, Used
  <2>2. Books(<<>>, 0 .. HeapBase - 1, HeapLimit, HeapBase)
    BY DEF Books, Pages
  <2> QED
    BY <2>1, <2>2, Zenon
<1>3. ViewsAreMapped
  BY DEF Init, ViewsAreMapped
<1> QED
  BY <1>1, <1>2, <1>3 DEF IInv

LEMMA NextKeeps ==
    ASSUME PlacedBeyond, IInv, [Next]_vars
    PROVE  IInv' /\ (Fresh \/ UNCHANGED vars)
<1> USE LayoutAssumption
<1>1. ASSUME NEW n \in Sizes, Mmap(n)
      PROVE  IInv' /\ Fresh
  BY <1>1, MmapKeeps DEF Mmap
<1>2. ASSUME NEW n \in Sizes, VirtualAlloc(n)
      PROVE  IInv' /\ Fresh
  BY <1>2, VirtualAllocKeeps DEF VirtualAlloc
<1>3. ASSUME NEW n \in Sizes, VirtualReserve(n)
      PROVE  IInv' /\ Fresh
  BY <1>3, VirtualReserveKeeps
<1>4. ASSUME NEW n \in Sizes, MapView(n)
      PROVE  IInv' /\ Fresh
  BY <1>4, MapViewKeeps
<1>5. ASSUME NEW a \in Pages, NEW n \in Sizes, MmapHint(a, n)
      PROVE  IInv' /\ Fresh
  <2>1. CASE RangeFree(a, n)
    <3>1. reserved = {}
      BY <1>5 DEF IInv, ViewsAreMapped, MmapHint
    <3>2. Span(a, n) \subseteq Used \cup Placed /\ Span(a, n) \cap Used = {}
      BY <1>5, <2>1, <3>1 DEF MmapHint, RangeFree, Used
    <3> QED
      BY <1>5, <2>1, <3>2, PlaceKeeps DEF MmapHint
  <2>2. CASE ~RangeFree(a, n)
    BY <1>5, <2>2, MmapKeeps DEF MmapHint
  <2> QED
    BY <2>1, <2>2
<1>6. ASSUME NEW a \in Pages, NEW n \in Sizes, MmapFixed(a, n)
      PROVE  IInv' /\ Fresh
  <2>1. Span(a, n) \subseteq Used \cup Placed /\ mapped' = mapped \cup Span(a, n)
    BY <1>6 DEF MmapFixed, Used
  <2> QED
    BY <1>6, <2>1, PlaceKeeps DEF MmapFixed
<1>7. ASSUME NEW a \in Pages, NEW n \in Sizes, Munmap(a, n)
      PROVE  IInv' /\ Fresh
  BY <1>7, MunmapKeeps
<1>8. ASSUME NEW a \in Pages, NEW n \in Sizes, VirtualCommit(a, n)
      PROVE  IInv' /\ Fresh
  <2>1. Span(a, n) \subseteq Used \cup Placed
    BY <1>8 DEF VirtualCommit, Used
  <2> QED
    BY <1>8, <2>1, PlaceKeeps DEF VirtualCommit
<1>9. ASSUME NEW addr \in Pages, Brk(addr)
      PROVE  IInv' /\ Fresh
  BY <1>9, BrkKeeps
<1>10. ASSUME NEW a \in Pages, UnmapView(a)
       PROVE  IInv' /\ Fresh
  BY <1>10, UnmapViewKeeps
<1>11. CASE Fork
  BY <1>11, ForkKeeps
<1>12. CASE UNCHANGED vars
  BY <1>12 DEF vars, IInv, TypeOK, Books, Used, ViewsAreMapped, Blocks
<1> QED
  BY <1>1, <1>2, <1>3, <1>4, <1>5, <1>6, <1>7, <1>8, <1>9, <1>10, <1>11, <1>12, Zenon DEF Next

(* The types hold, and the page tables agree with the lists of ranges, in  *)
(* every reachable state, if what the guest places lies beyond the window. *)
THEOREM TypeCorrect == ASSUME PlacedBeyond PROVE Spec => []TypeOK
<1>1. IInv => TypeOK
  BY DEF IInv
<1>2. IInv /\ [Next]_vars => IInv'
  BY NextKeeps
<1> QED
  BY <1>1, <1>2, InitIInv, PTL DEF Spec

(* What waits to be used again is used by nobody and waits once: the ranges *)
(* mmap_free_ lists are disjoint from each other, from what is mapped or   *)
(* reserved, and lie behind the frontier.                                  *)
THEOREM RecyclingIsSound == ASSUME PlacedBeyond PROVE Spec => []RecyclableIsUnused
<1>1. IInv => RecyclableIsUnused
  <2> SUFFICES ASSUME IInv PROVE RecyclableIsUnused
    OBVIOUS
  <2>1. Books(mmap_free, Used, mmap_next, brk)
    BY DEF IInv
  <2>2. \A p \in Used : p < mmap_next \/ p >= MmapLimit
    <3> TAKE p \in Used
    <3>1. p \in Int /\ (p < mmap_next \/ p > MmapLimit)
      BY <2>1 DEF Books, Pages
    <3> QED
      BY <3>1, LayoutAssumption
  <2> QED
    BY <2>1, <2>2 DEF RecyclableIsUnused, Books, Used, Blocks
<1>2. IInv /\ [Next]_vars => IInv'
  BY NextKeeps
<1> QED
  BY <1>1, <1>2, InitIInv, PTL DEF Spec

(* mmap, brk, VirtualAlloc, MEM_RESERVE and MapViewOfFile never return a   *)
(* page that is mapped or reserved, whatever was given back and in whatever*)
(* pieces and order.                                                       *)
THEOREM NoPageTwice == ASSUME PlacedBeyond PROVE Spec => FreshIsFresh
<1>1. IInv /\ [Next]_vars => IInv' /\ [got' \cap (mapped \cup reserved) = {}]_vars
  BY NextKeeps DEF Fresh
<1> QED
  BY <1>1, InitIInv, PTL DEF Spec, FreshIsFresh
=============================================================================
