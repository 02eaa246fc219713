------------------------------ MODULE MCThreads ------------------------------
(* The threads of a guest, for TLC: the scheduler of GuestThreads, and the     *)
(* guest with its threads saved and resumed (SavedState).  They share no       *)
(* state: a run is of the part chosen at its start, the other stays as it      *)
(* began, and only what the part's own steps read tells states apart (View).   *)
EXTENDS MCGuestThreads, SavedState

VARIABLE part

ASSUME SavedStateAssumption

-----------------------------------------------------------------------------
ThreadsInit == part \in {"threads", "state"} /\ Init /\ StateInit

ThreadsNext ==
    \/ part = "threads" /\ Next /\ UNCHANGED <<part, savedVars>>
    \/ part = "state" /\ StateNext /\ UNCHANGED <<part, vars>>

ThreadsSpec == ThreadsInit /\ [][ThreadsNext]_<<part, vars, savedVars>>

\* try_acquire looks at the flag of a mutex or a semaphore no more than anyone else.
Seen == [h \in Handles |->
            IF sync_objects[h].kind \in {"Mutex", "Semaphore"}
            THEN [sync_objects[h] EXCEPT !.signalled = FALSE] ELSE sync_objects[h]]

View == <<part, CASE part = "threads" -> <<threadVars, cpuVars, Seen, history>>
                  [] part = "state" -> savedVars>>

-----------------------------------------------------------------------------
(* GrantsConserved, DeadlockIsReal, WaitsAreSound, ContextIntegrity and         *)
(* JoinSound are of GuestThreads, ResumedIsSaved of SavedState.                *)
==============================================================================
