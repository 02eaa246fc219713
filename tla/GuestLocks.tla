----------------------------- MODULE GuestLocks -----------------------------
(***************************************************************************)
(* The locks a Win32 guest keeps in its own memory: critical sections,     *)
(* SRW locks and condition variables (src/src/threads.cpp).                *)
(*                                                                         *)
(* None of them blocks a thread in the scheduler's sense.  A hook that     *)
(* cannot have the lock gives up the slice and has the same call made      *)
(* again when the thread runs next (yield_now, retry_current_call), so a   *)
(* waiter spins, once per slice.  pc[t] is the call t's RIP stands on when *)
(* it is to be made again.                                                 *)
(*                                                                         *)
(* The guest is arbitrary but well-behaved: it releases what it holds, in  *)
(* the mode it holds it, does not re-enter an SRW lock, and sleeps on a    *)
(* condition variable only while holding the lock it passes, once.         *)
(***************************************************************************)
EXTENDS Integers, FiniteSets

CONSTANTS
    N,            \* the number of guest threads, their ids being 1 .. N
    Srw,          \* SRW locks
    Sections,     \* critical sections
    CondVars,     \* condition variables
    MaxDepth,     \* bound: how deep a guest enters a critical section
    SleepModes    \* the modes given to SleepConditionVariableSRW

Threads == 1 .. N
Locks == Srw \cup Sections
Modes == {"exclusive", "shared"}

ASSUME LocksAssumption ==
    /\ N \in Nat \ {0}
    /\ MaxDepth \in Nat \ {0}
    /\ Srw \cap Sections = {}
    /\ SleepModes \subseteq Modes

VARIABLES
    word,      \* an SRW lock's one word of guest memory
    owner,     \* a critical section's first word: the owning thread id, or 0
    depth,     \* its second word: the recursion count
    sleeping,  \* `sleeping`: who is between the two visits of a sleep, on what
    current,   \* the thread whose slice it is
    ran,       \* it has executed something in this slice
    pc,        \* the call a thread is to make again
    writer,    \* history: who was given the lock exclusively
    readers,   \* history: who was given the lock shared
    entered    \* history: how often the holder has entered a critical section

lockVars == <<word, owner, depth, sleeping>>
held == <<writer, readers, entered>>
vars == <<lockVars, current, ran, pc, held>>

-----------------------------------------------------------------------------
NoCall == [fn |-> "none"]
AcquireCall(l, mode) == [fn |-> "AcquireSRWLock", lock |-> l, mode |-> mode]
EnterCall(s) == [fn |-> "EnterCriticalSection", lock |-> s]
SleepSrwCall(cv, l, mode) ==
    [fn |-> "SleepConditionVariableSRW", cv |-> cv, lock |-> l, mode |-> mode]
SleepCsCall(cv, s) == [fn |-> "SleepConditionVariableCS", cv |-> cv, lock |-> s]

Calls == {NoCall}
    \cup {AcquireCall(l, mode) : l \in Srw, mode \in Modes}
    \cup {EnterCall(s) : s \in Sections}
    \cup {SleepSrwCall(cv, l, mode) : cv \in CondVars, l \in Srw, mode \in SleepModes}
    \cup {SleepCsCall(cv, s) : cv \in CondVars, s \in Sections}

TypeOK ==
    /\ word \in [Srw -> Nat]
    /\ owner \in [Sections -> Threads \cup {0}]
    /\ depth \in [Sections -> Nat]
    /\ sleeping \subseteq Threads \X CondVars
    /\ current \in Threads
    /\ ran \in BOOLEAN
    /\ pc \in [Threads -> Calls]
    /\ writer \in [Locks -> SUBSET Threads]
    /\ readers \in [Locks -> SUBSET Threads]
    /\ entered \in [Sections -> Nat]

Init ==
    /\ word = [l \in Srw |-> 0]
    /\ owner = [s \in Sections |-> 0]
    /\ depth = [s \in Sections |-> 0]
    /\ sleeping = {}
    /\ current = 1
    /\ ran = FALSE
    /\ pc = [t \in Threads |-> NoCall]
    /\ writer = [l \in Locks |-> {}]
    /\ readers = [l \in Locks |-> {}]
    /\ entered = [s \in Sections |-> 0]

-----------------------------------------------------------------------------
(* Slices.                                                                 *)

After(t) == IF t = N THEN 1 ELSE t + 1      \* pick_runnable: round robin

(* The hook returned: the current thread goes on. *)
Return ==
    /\ pc' = [pc EXCEPT ![current] = NoCall]
    /\ ran' = TRUE
    /\ UNCHANGED current

(* yield_now and retry_current_call: the slice is over and the next one of *)
(* this thread begins with the same call.                                  *)
Retry(call) ==
    /\ pc' = [pc EXCEPT ![current] = call]
    /\ current' = After(current)
    /\ ran' = FALSE

(* The quantum is used up; at least one instruction was executed. *)
Preempt ==
    /\ ran
    /\ current' = After(current)
    /\ ran' = FALSE
    /\ UNCHANGED <<lockVars, pc, held>>

(* The current thread makes this call, for the first time or again. *)
Makes(call) == pc[current] \in {NoCall, call}
AtHome == pc[current] = NoCall

Hold(l, mode) ==
    /\ writer' = IF mode = "exclusive"
                 THEN [writer EXCEPT ![l] = writer[l] \cup {current}] ELSE writer
    /\ readers' = IF mode = "shared"
                  THEN [readers EXCEPT ![l] = readers[l] \cup {current}] ELSE readers

LetGo(l) ==
    /\ writer' = [writer EXCEPT ![l] = writer[l] \ {current}]
    /\ readers' = [readers EXCEPT ![l] = readers[l] \ {current}]

Holds(l) == current \in writer[l] \cup readers[l]

-----------------------------------------------------------------------------
(* SRW locks.  The word is 0 when unheld, twice the id plus one when held   *)
(* exclusively, twice the number of readers when held shared.               *)

ExclusiveWord(t) == 2 * t + 1

(* Mutant: readers do not look at the exclusive bit. *)
CanTake_IgnoresWriter(l, mode) == mode = "exclusive" => word[l] = 0

(* take_srw's test and its effect. *)
CanTake(l, mode) ==
    IF mode = "exclusive" THEN word[l] = 0 ELSE word[l] % 2 = 0

TakeSrw(l, mode) ==
    /\ word' = [word EXCEPT ![l] = IF mode = "exclusive" THEN ExclusiveWord(current)
                                                          ELSE word[l] + 2]
    /\ Hold(l, mode)

AcquireSrw(l, mode) ==
    /\ Makes(AcquireCall(l, mode))
    /\ AtHome => ~Holds(l)
    /\ \/ /\ CanTake(l, mode)
          /\ TakeSrw(l, mode)
          /\ Return
       \/ /\ ~CanTake(l, mode)
          /\ Retry(AcquireCall(l, mode))
          /\ UNCHANGED <<word, writer, readers>>
    /\ UNCHANGED <<owner, depth, sleeping, entered>>

TryAcquireSrw(l, mode) ==
    /\ AtHome /\ ~Holds(l)
    /\ IF CanTake(l, mode) THEN TakeSrw(l, mode)
                           ELSE UNCHANGED <<word, writer, readers>>
    /\ Return
    /\ UNCHANGED <<owner, depth, sleeping, entered>>

(* Mutant: the last reader leaves the word as it was. *)
ReleasedWord_KeepsLast(l, mode) ==
    IF mode = "exclusive" \/ word[l] % 2 = 1 THEN 0
    ELSE IF word[l] <= 2 THEN word[l] ELSE word[l] - 2

ReleasedWord(l, mode) ==
    IF mode = "exclusive" \/ word[l] % 2 = 1 \/ word[l] <= 2 THEN 0 ELSE word[l] - 2

ReleaseSrw(l, mode) ==
    /\ AtHome
    /\ current \in IF mode = "exclusive" THEN writer[l] ELSE readers[l]
    /\ word' = [word EXCEPT ![l] = ReleasedWord(l, mode)]
    /\ LetGo(l)
    /\ Return
    /\ UNCHANGED <<owner, depth, sleeping, entered>>

-----------------------------------------------------------------------------
(* Critical sections.                                                      *)

CanEnter(s) == owner[s] \in {0, current}

Enter(s) ==
    /\ owner' = [owner EXCEPT ![s] = current]
    /\ depth' = [depth EXCEPT ![s] = depth[s] + 1]
    /\ entered' = [entered EXCEPT ![s] = entered[s] + 1]
    /\ Hold(s, "exclusive")

EnterCriticalSection(s) ==
    /\ Makes(EnterCall(s))
    /\ current \in writer[s] => entered[s] < MaxDepth
    /\ \/ CanEnter(s) /\ Enter(s) /\ Return
       \/ /\ ~CanEnter(s)
          /\ Retry(EnterCall(s))
          /\ UNCHANGED <<owner, depth, entered, writer, readers>>
    /\ UNCHANGED <<word, sleeping>>

TryEnterCriticalSection(s) ==
    /\ AtHome
    /\ current \in writer[s] => entered[s] < MaxDepth
    /\ IF CanEnter(s) THEN Enter(s)
                      ELSE UNCHANGED <<owner, depth, entered, writer, readers>>
    /\ Return
    /\ UNCHANGED <<word, sleeping>>

(* Mutant: leaving once frees a section that was entered twice. *)
LeaveCriticalSection_Frees(s) ==
    /\ AtHome /\ Holds(s)
    /\ depth' = [depth EXCEPT ![s] = IF depth[s] > 0 THEN depth[s] - 1 ELSE 0]
    /\ owner' = [owner EXCEPT ![s] = 0]
    /\ entered' = [entered EXCEPT ![s] = entered[s] - 1]
    /\ IF entered[s] = 1 THEN LetGo(s) ELSE UNCHANGED <<writer, readers>>
    /\ Return
    /\ UNCHANGED <<word, sleeping>>

LeaveCriticalSection(s) ==
    /\ AtHome /\ Holds(s)
    /\ depth' = [depth EXCEPT ![s] = IF depth[s] > 0 THEN depth[s] - 1 ELSE 0]
    /\ owner' = [owner EXCEPT ![s] = IF depth[s] <= 1 THEN 0 ELSE owner[s]]
    /\ entered' = [entered EXCEPT ![s] = entered[s] - 1]
    /\ IF entered[s] = 1 THEN LetGo(s) ELSE UNCHANGED <<writer, readers>>
    /\ Return
    /\ UNCHANGED <<word, sleeping>>

-----------------------------------------------------------------------------
(* Condition variables: two visits to the same hook.  Waking does nothing,  *)
(* a sleeper comes back in any case and looks at its predicate again.       *)

Asleep(cv) == <<current, cv>> \in sleeping

WokenSet(cv) == sleeping \ {<<current, cv>>}

(* First visit: the word is cleared, whoever holds the lock, and the slice *)
(* given up; the second takes the lock back, trying as often as it must.   *)
SleepConditionVariableSRW(cv, l, mode) ==
    LET call == SleepSrwCall(cv, l, mode) IN
    /\ Makes(call)
    /\ AtHome => current \in IF mode = "exclusive" THEN writer[l] ELSE readers[l]
    /\ \/ /\ ~Asleep(cv)
          /\ word' = [word EXCEPT ![l] = 0]
          /\ sleeping' = sleeping \cup {<<current, cv>>}
          /\ LetGo(l)
          /\ Retry(call)
       \/ /\ Asleep(cv) /\ ~CanTake(l, mode)
          /\ Retry(call)
          /\ UNCHANGED <<word, sleeping, writer, readers>>
       \/ /\ Asleep(cv) /\ CanTake(l, mode)
          /\ TakeSrw(l, mode)
          /\ sleeping' = WokenSet(cv)
          /\ Return
    /\ UNCHANGED <<owner, depth, entered>>

SleepConditionVariableCS(cv, s) ==
    LET call == SleepCsCall(cv, s) IN
    /\ Makes(call)
    /\ AtHome => current \in writer[s] /\ entered[s] = 1
    /\ \/ /\ ~Asleep(cv)
          /\ owner' = [owner EXCEPT ![s] = 0]
          /\ depth' = [depth EXCEPT ![s] = 0]
          /\ entered' = [entered EXCEPT ![s] = 0]
          /\ sleeping' = sleeping \cup {<<current, cv>>}
          /\ LetGo(s)
          /\ Retry(call)
       \/ /\ Asleep(cv) /\ ~CanEnter(s)
          /\ Retry(call)
          /\ UNCHANGED <<owner, depth, entered, sleeping, writer, readers>>
       \/ /\ Asleep(cv) /\ CanEnter(s)
          /\ Enter(s)
          /\ sleeping' = WokenSet(cv)
          /\ Return
    /\ UNCHANGED word

-----------------------------------------------------------------------------
(* Instructions of the guest's own, WakeConditionVariable among them. *)
Compute ==
    /\ AtHome
    /\ Return
    /\ UNCHANGED <<lockVars, held>>

Call ==
    \/ \E l \in Srw, mode \in Modes :
          AcquireSrw(l, mode) \/ TryAcquireSrw(l, mode) \/ ReleaseSrw(l, mode)
    \/ \E s \in Sections :
          EnterCriticalSection(s) \/ TryEnterCriticalSection(s) \/ LeaveCriticalSection(s)
    \/ \E cv \in CondVars :
          \/ \E l \in Srw, mode \in SleepModes : SleepConditionVariableSRW(cv, l, mode)
          \/ \E s \in Sections : SleepConditionVariableCS(cv, s)

Next == Preempt \/ Compute \/ Call

Spec == Init /\ [][Next]_vars

(* The host keeps interpreting, and every slice ends with its quantum. *)
FairSpec == Spec /\ WF_vars(Next) /\ WF_vars(Preempt)

-----------------------------------------------------------------------------
(* Safety.                                                                 *)

(* The comment on the SRW encoding, taken at its word: 0 when unheld, the  *)
(* holder's id when held exclusively, else the number of readers.  A word  *)
(* that drifts from its holders admits one too many or nobody ever again.  *)
WordTellsHolders ==
    \A l \in Srw :
        \/ \E t \in Threads : /\ writer[l] = {t} /\ readers[l] = {}
                              /\ word[l] = ExclusiveWord(t)
        \/ writer[l] = {} /\ word[l] = 2 * Cardinality(readers[l])

(* A critical section's two words agree with each other and with the       *)
(* entries its one holder has still to leave.                              *)
SectionTellsHolder ==
    \A s \in Sections :
        /\ depth[s] = entered[s]
        /\ writer[s] = IF depth[s] = 0 THEN {} ELSE {owner[s]}
        /\ owner[s] = 0 <=> depth[s] = 0

(* A sleep that has returned is forgotten.  A key left in `sleeping` would *)
(* make the thread's next sleep on that variable keep its lock for ever.   *)
NoStaleSleep ==
    \A t \in Threads, cv \in CondVars :
        <<t, cv>> \in sleeping => pc[t] # NoCall /\ "cv" \in DOMAIN pc[t] /\ pc[t].cv = cv

(* What a lock's words and the list of sleepers say is so.                 *)
BooksAreTrue == SectionTellsHolder /\ NoStaleSleep

(* The hooks implement readers-writer locks: no thread is given a lock     *)
(* that another holds in a conflicting mode.                               *)
Abstract == INSTANCE RwLock
LocksImplementRwLock == Abstract!Spec

-----------------------------------------------------------------------------
(* Liveness, under FairSpec.                                               *)

Wants(t, l) == pc[t] # NoCall /\ pc[t].lock = l
Held(l) == writer[l] # {} \/ readers[l] # {}

(* A lock is never free for ever while a thread spins on it: the bug the   *)
(* comment on the SRW encoding recalls, where a release left the word set  *)
(* and "every other thread spun on the lock forever".                      *)
FreeLockIsTaken ==
    \A t \in Threads, l \in Locks :
        Wants(t, l) /\ ~Held(l) ~> Held(l) \/ ~Wants(t, l)
=============================================================================
