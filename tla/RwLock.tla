------------------------------- MODULE RwLock -------------------------------
(***************************************************************************)
(* What the guest's user-mode locks promise: at any time a lock is held by *)
(* nobody, by one thread exclusively, or by any number of threads shared.  *)
(* Critical sections are locks that are only ever taken exclusively.       *)
(***************************************************************************)
EXTENDS FiniteSets

CONSTANTS Threads, Locks

VARIABLES writer,   \* writer[l]: the threads that hold l exclusively
          readers   \* readers[l]: the threads that hold l shared

Init == /\ writer = [l \in Locks |-> {}]
        /\ readers = [l \in Locks |-> {}]

AcquireExclusive(t, l) ==
    /\ writer[l] = {} /\ readers[l] = {}
    /\ writer' = [writer EXCEPT ![l] = {t}]
    /\ UNCHANGED readers

AcquireShared(t, l) ==
    /\ writer[l] = {}
    /\ readers' = [readers EXCEPT ![l] = readers[l] \cup {t}]
    /\ UNCHANGED writer

Release(t, l) ==
    /\ t \in writer[l] \cup readers[l]
    /\ writer' = [writer EXCEPT ![l] = writer[l] \ {t}]
    /\ readers' = [readers EXCEPT ![l] = readers[l] \ {t}]

Next == \E t \in Threads, l \in Locks :
            AcquireExclusive(t, l) \/ AcquireShared(t, l) \/ Release(t, l)

Spec == Init /\ [][Next]_<<writer, readers>>
=============================================================================
