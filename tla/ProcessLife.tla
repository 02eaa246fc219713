---------------------------- MODULE ProcessLife ----------------------------
(***************************************************************************)
(* What the System promises about processes: each is started once, by a    *)
(* running parent, finishes at most once with one exit code, and is        *)
(* collected at most once, by its parent, after it has finished.           *)
(***************************************************************************)
CONSTANTS Procs, Root, ExitCode

VARIABLES life,     \* life[p]: "none", "running", "zombie" or "reaped"
          parent,   \* who started p
          code      \* the exit code of a process that is a zombie or reaped

Init ==
    /\ life = [p \in Procs |-> IF p = Root THEN "running" ELSE "none"]
    /\ parent = [p \in Procs |-> Root]
    /\ code \in [Procs -> ExitCode]

Start(p, c) ==
    /\ life[p] = "running" /\ life[c] = "none"
    /\ life' = [life EXCEPT ![c] = "running"]
    /\ parent' = [parent EXCEPT ![c] = p]
    /\ UNCHANGED code

Finish(p) ==
    /\ life[p] = "running"
    /\ life' = [life EXCEPT ![p] = "zombie"]
    /\ \E x \in ExitCode : code' = [code EXCEPT ![p] = x]
    /\ UNCHANGED parent

Collect(p, c) ==
    /\ life[p] = "running" /\ life[c] = "zombie" /\ parent[c] = p
    /\ life' = [life EXCEPT ![c] = "reaped"]
    /\ UNCHANGED <<parent, code>>

Next == \/ \E p \in Procs : Finish(p)
        \/ \E p, c \in Procs : Start(p, c) \/ Collect(p, c)

Spec == Init /\ [][Next]_<<life, parent, code>>
=============================================================================
