----------------------------- MODULE FlatMemory ----------------------------
(***************************************************************************)
(* What the memory of a guest promises: every mapped page has a value, a   *)
(* read returns what was last written there, a page that is mapped anew    *)
(* is zero, and a page that is not mapped faults.                          *)
(***************************************************************************)
EXTENDS Integers

CONSTANTS Pages, Ranges, Values, Zero, Absent

VARIABLES
  cell,         \* [Pages -> Values \cup {Absent}]
  seen          \* the page of the last access, and what it gave

Mapped == {p \in Pages : cell[p] # Absent}

Init == cell = [p \in Pages |-> Absent] /\ seen = <<>>

\* Pages that exist are left as they are.
Map(S) == cell' = [p \in Pages |-> IF p \in S /\ cell[p] = Absent THEN Zero ELSE cell[p]]

\* The pages of T go; a contiguous mapping goes as a whole, so T may be more than
\* was asked for.
Unmap(T) == cell' = [p \in Pages |-> IF p \in T THEN Absent ELSE cell[p]]
MapContiguous(S, T) ==
  cell' = [p \in Pages |-> IF p \in S THEN Zero ELSE IF p \in T THEN Absent ELSE cell[p]]

\* A block of code has run: it leaves what it likes in the pages there are.
Block ==
  /\ cell' \in [Pages -> Values \cup {Absent}]
  /\ \A p \in Pages : cell'[p] = Absent <=> cell[p] = Absent

Read(p) == p \in Mapped /\ seen' = <<p, cell[p]>> /\ UNCHANGED cell
Write(p, v) == p \in Mapped /\ seen' = <<p, v>> /\ cell' = [cell EXCEPT ![p] = v]
Fault(p) == p \notin Mapped /\ seen' = <<p, Absent>> /\ UNCHANGED cell

Next ==
  \/ \E p \in Pages : Read(p) \/ Fault(p) \/ \E v \in Values : Write(p, v)
  \/ /\ seen' = <<>>
     /\ \/ Block
        \/ \E S \in Ranges : \/ Map(S)
                             \/ \E T \in SUBSET Pages : S \subseteq T /\ (Unmap(T) \/ MapContiguous(S, T))

Spec == Init /\ [][Next]_<<cell, seen>>

=============================================================================
