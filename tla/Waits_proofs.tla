---------------------------- MODULE Waits_proofs ----------------------------
(****************************************************************************)
(* Proofs about what blocks and is woken, the three components MCWaits has: *)
(* GuestLocks, for any number of threads, locks and condition variables;    *)
(* SpawnWait, for any number of processes and loops; LinuxThreads, for any  *)
(* number of threads and either width.                                      *)
(****************************************************************************)
EXTENDS GuestLocks, SpawnWait, LinuxThreads, FiniteSetTheorems, SequenceTheorems, TLAPS

(****************************************************************************)
(* LOCKS: GuestLocks                                                        *)
(****************************************************************************)

------------------------------------------------------------------------------
(* The inductive invariant.                                                 *)

\* A thread whose call is a sleep is listed as asleep on its variable, and nobody
\* shares a critical section.
Sleepers == \A t \in Threads : "cv" \in DOMAIN pc[t] => <<t, pc[t].cv>> \in sleeping
SectionsAreExclusive == \A s \in Sections : readers[s] = {}

BooksInv == TypeOK /\ SectionTellsHolder /\ NoStaleSleep /\ Sleepers /\ SectionsAreExclusive

\* A thread that asks for an SRW lock does not have it.
Askers == \A t \in Threads : pc[t].fn = "AcquireSRWLock" =>
             t \notin writer[pc[t].lock] \cup readers[pc[t].lock]

WordInv == WordTellsHolders /\ Askers

------------------------------------------------------------------------------
(* The calls a thread can stand on.                                         *)

Sleeps(call, cv) == "cv" \in DOMAIN call /\ call.cv = cv
Asks(call) == call.fn = "AcquireSRWLock"

LEMMA CallFacts ==
  /\ NoCall \in Calls /\ "cv" \notin DOMAIN NoCall /\ ~Asks(NoCall)
  /\ \A l \in Srw, mode \in Modes :
        /\ AcquireCall(l, mode) \in Calls /\ "cv" \notin DOMAIN AcquireCall(l, mode)
        /\ Asks(AcquireCall(l, mode)) /\ AcquireCall(l, mode).lock = l
  /\ \A s \in Sections :
        /\ EnterCall(s) \in Calls /\ "cv" \notin DOMAIN EnterCall(s)
        /\ ~Asks(EnterCall(s))
  /\ \A cv \in CondVars, l \in Srw, mode \in SleepModes :
        /\ SleepSrwCall(cv, l, mode) \in Calls /\ Sleeps(SleepSrwCall(cv, l, mode), cv)
        /\ ~Asks(SleepSrwCall(cv, l, mode))
  /\ \A cv \in CondVars, s \in Sections :
        /\ SleepCsCall(cv, s) \in Calls /\ Sleeps(SleepCsCall(cv, s), cv)
        /\ ~Asks(SleepCsCall(cv, s))
<1>1. NoCall \in Calls /\ "cv" \notin DOMAIN NoCall /\ ~Asks(NoCall)
  BY DEF NoCall, Calls, Asks
<1>2. ASSUME NEW l \in Srw, NEW mode \in Modes
      PROVE  /\ AcquireCall(l, mode) \in Calls /\ "cv" \notin DOMAIN AcquireCall(l, mode)
             /\ Asks(AcquireCall(l, mode)) /\ AcquireCall(l, mode).lock = l
  <2>1. AcquireCall(l, mode) \in Calls
    BY DEF Calls
  <2>2. "cv" \notin DOMAIN AcquireCall(l, mode)
    BY DEF AcquireCall
  <2>3. Asks(AcquireCall(l, mode)) /\ AcquireCall(l, mode).lock = l
    BY DEF AcquireCall, Asks
  <2> QED
    BY <2>1, <2>2, <2>3
<1>3. ASSUME NEW s \in Sections
      PROVE  /\ EnterCall(s) \in Calls /\ "cv" \notin DOMAIN EnterCall(s)
             /\ ~Asks(EnterCall(s))
  <2>1. EnterCall(s) \in Calls
    BY DEF Calls
  <2> QED
    BY <2>1 DEF EnterCall, Asks
<1>4. ASSUME NEW cv \in CondVars, NEW l \in Srw, NEW mode \in SleepModes
      PROVE  /\ SleepSrwCall(cv, l, mode) \in Calls /\ Sleeps(SleepSrwCall(cv, l, mode), cv)
             /\ ~Asks(SleepSrwCall(cv, l, mode))
  <2>1. SleepSrwCall(cv, l, mode) \in Calls
    BY DEF Calls
  <2> QED
    BY <2>1 DEF SleepSrwCall, Sleeps, Asks
<1>5. ASSUME NEW cv \in CondVars, NEW s \in Sections
      PROVE  /\ SleepCsCall(cv, s) \in Calls /\ Sleeps(SleepCsCall(cv, s), cv)
             /\ ~Asks(SleepCsCall(cv, s))
  <2>1. SleepCsCall(cv, s) \in Calls
    BY DEF Calls
  <2> QED
    BY <2>1 DEF SleepCsCall, Sleeps, Asks
<1> QED
  BY <1>1, <1>2, <1>3, <1>4, <1>5

------------------------------------------------------------------------------
(* What a step does, by what it changes.                                    *)

\* The current thread stands on this call after the step, the others where they
\* stood, and the list of sleepers is kept accordingly.
Moves(call) ==
    /\ call \in Calls
    /\ pc' = [pc EXCEPT ![current] = call]
    /\ \/ /\ sleeping' = sleeping
          /\ \/ call = pc[current]
             \/ "cv" \notin DOMAIN call /\ "cv" \notin DOMAIN pc[current]
       \/ \E cv \in CondVars :
             /\ sleeping' = sleeping \cup {<<current, cv>>}
             /\ Sleeps(call, cv) /\ pc[current] = NoCall
       \/ \E cv \in CondVars :
             /\ sleeping' = sleeping \ {<<current, cv>>}
             /\ call = NoCall /\ Sleeps(pc[current], cv)

\* The current thread is given an SRW lock, ...
Takes(l, mode) ==
    /\ CanTake(l, mode) /\ TakeSrw(l, mode)
    /\ UNCHANGED <<owner, depth, entered>>
    /\ (AtHome /\ ~Holds(l)) \/ pc[current] = AcquireCall(l, mode) \/ mode \in SleepModes

\* ... or gives it back, ...
Drops(l, mode, left) ==
    /\ current \in IF mode = "exclusive" THEN writer[l] ELSE readers[l]
    /\ word' = [word EXCEPT ![l] = left]
    /\ left = ReleasedWord(l, mode) \/ (left = 0 /\ mode \in SleepModes)
    /\ LetGo(l)
    /\ UNCHANGED <<owner, depth, entered>>

\* ... or enters a critical section, ...
Enters(s) == CanEnter(s) /\ Enter(s) /\ UNCHANGED word

\* ... or leaves it once, ...
Leaves(s) ==
    /\ Holds(s)
    /\ depth' = [depth EXCEPT ![s] = IF depth[s] > 0 THEN depth[s] - 1 ELSE 0]
    /\ owner' = [owner EXCEPT ![s] = IF depth[s] <= 1 THEN 0 ELSE owner[s]]
    /\ entered' = [entered EXCEPT ![s] = entered[s] - 1]
    /\ IF entered[s] = 1 THEN LetGo(s) ELSE UNCHANGED <<writer, readers>>
    /\ UNCHANGED word

\* ... or leaves it to sleep, ...
Quits(s) ==
    /\ current \in writer[s] /\ entered[s] = 1
    /\ owner' = [owner EXCEPT ![s] = 0]
    /\ depth' = [depth EXCEPT ![s] = 0]
    /\ entered' = [entered EXCEPT ![s] = 0]
    /\ LetGo(s)
    /\ UNCHANGED word

\* ... or none of this.
Keeps == UNCHANGED <<word, owner, depth, held>>

LocksStep ==
    \/ Keeps
    \/ \E l \in Srw, mode \in Modes : Takes(l, mode)
    \/ \E l \in Srw, mode \in Modes, left \in Nat : Drops(l, mode, left)
    \/ \E s \in Sections : Enters(s) \/ Leaves(s) \/ Quits(s)

\* A call that is made again asks for a lock that was not given.
StillAsks(call) ==
    Asks(call) => \E l \in Srw, mode \in Modes :
                     /\ call = AcquireCall(l, mode) /\ Keeps
                     /\ (AtHome /\ ~Holds(l)) \/ pc[current] = call

\* One step of a thread, seen this way.
Steps == \E call \in Calls : Moves(call) /\ StillAsks(call) /\ LocksStep

LEMMA ReleasedIsNat ==
  ASSUME NEW l \in Srw, NEW mode \in Modes, word \in [Srw -> Nat]
  PROVE  ReleasedWord(l, mode) \in Nat
BY DEF ReleasedWord

LEMMA SrwSteps ==
  ASSUME LocksAssumption, BooksInv, NEW l \in Srw, NEW mode \in Modes,
         AcquireSrw(l, mode) \/ TryAcquireSrw(l, mode) \/ ReleaseSrw(l, mode)
  PROVE  Steps
<1> DEFINE call == AcquireCall(l, mode)
<1>1. /\ NoCall \in Calls /\ "cv" \notin DOMAIN NoCall /\ ~Asks(NoCall)
      /\ call \in Calls /\ "cv" \notin DOMAIN call /\ Asks(call)
  BY CallFacts
<1>2. CASE AcquireSrw(l, mode)
  <2>1. /\ pc[current] = NoCall \/ pc[current] = call
        /\ UNCHANGED <<owner, depth, sleeping, entered>>
        /\ AtHome => ~Holds(l)
    BY <1>2 DEF AcquireSrw, Makes
  <2>2. CASE CanTake(l, mode) /\ TakeSrw(l, mode) /\ Return
    <3>1. Moves(NoCall)
      BY <1>1, <2>1, <2>2 DEF Moves, Return
    <3>2. Takes(l, mode)
      BY <2>1, <2>2 DEF Takes, AtHome
    <3> QED
      BY <1>1, <3>1, <3>2 DEF Steps, StillAsks, LocksStep
  <2>3. CASE Retry(call) /\ UNCHANGED <<word, writer, readers>>
    <3>1. Moves(call)
      BY <1>1, <2>1, <2>3 DEF Moves, Retry
    <3>2. Keeps
      BY <2>1, <2>3 DEF Keeps, held
    <3>3. StillAsks(call)
      BY <2>1, <3>2 DEF StillAsks, AtHome
    <3> QED
      BY <1>1, <3>1, <3>2, <3>3 DEF Steps, LocksStep
  <2> QED
    BY <1>2, <2>2, <2>3 DEF AcquireSrw
<1>3. CASE TryAcquireSrw(l, mode)
  <2>1. Moves(NoCall)
    BY <1>1, <1>3 DEF TryAcquireSrw, Moves, Return, AtHome
  <2>2. Keeps \/ Takes(l, mode)
    BY <1>3 DEF TryAcquireSrw, Keeps, Takes, held
  <2> QED
    BY <1>1, <2>1, <2>2 DEF Steps, StillAsks, LocksStep
<1>4. CASE ReleaseSrw(l, mode)
  <2>1. Moves(NoCall)
    BY <1>1, <1>4 DEF ReleaseSrw, Moves, Return, AtHome
  <2>2. ReleasedWord(l, mode) \in Nat
    BY ReleasedIsNat DEF BooksInv, TypeOK
  <2>3. /\ current \in IF mode = "exclusive" THEN writer[l] ELSE readers[l]
        /\ word' = [word EXCEPT ![l] = ReleasedWord(l, mode)]
        /\ LetGo(l)
        /\ UNCHANGED <<owner, depth, entered>>
    BY <1>4 DEF ReleaseSrw
  <2>4. PICK left \in Nat : left = ReleasedWord(l, mode)
    BY <2>2
  <2>5. Drops(l, mode, left)
    BY <2>3, <2>4 DEF Drops
  <2> QED
    BY <1>1, <2>1, <2>5 DEF Steps, StillAsks, LocksStep
<1> QED
  BY <1>2, <1>3, <1>4

LEMMA SectionSteps ==
  ASSUME LocksAssumption, BooksInv, NEW s \in Sections,
         \/ EnterCriticalSection(s) \/ TryEnterCriticalSection(s)
         \/ LeaveCriticalSection(s)
  PROVE  Steps
<1> DEFINE call == EnterCall(s)
<1>1. /\ NoCall \in Calls /\ "cv" \notin DOMAIN NoCall /\ ~Asks(NoCall)
      /\ call \in Calls /\ "cv" \notin DOMAIN call /\ ~Asks(call)
  BY CallFacts
<1>2. CASE EnterCriticalSection(s)
  <2>1. /\ pc[current] = NoCall \/ pc[current] = call
        /\ UNCHANGED <<word, sleeping>>
    BY <1>2 DEF EnterCriticalSection, Makes
  <2>2. CASE CanEnter(s) /\ Enter(s) /\ Return
    <3>1. Moves(NoCall)
      BY <1>1, <2>1, <2>2 DEF Moves, Return
    <3>2. Enters(s)
      BY <2>1, <2>2 DEF Enters
    <3> QED
      BY <1>1, <3>1, <3>2 DEF Steps, StillAsks, LocksStep
  <2>3. CASE Retry(call) /\ UNCHANGED <<owner, depth, entered, writer, readers>>
    <3>1. Moves(call)
      BY <1>1, <2>1, <2>3 DEF Moves, Retry
    <3>2. Keeps
      BY <2>1, <2>3 DEF Keeps, held
    <3> QED
      BY <1>1, <3>1, <3>2 DEF Steps, LocksStep, StillAsks
  <2> QED
    BY <1>2, <2>2, <2>3 DEF EnterCriticalSection
<1>3. CASE TryEnterCriticalSection(s)
  <2>1. Moves(NoCall)
    BY <1>1, <1>3 DEF TryEnterCriticalSection, Moves, Return, AtHome
  <2>2. Keeps \/ Enters(s)
    BY <1>3 DEF TryEnterCriticalSection, Keeps, Enters, held
  <2> QED
    BY <1>1, <2>1, <2>2 DEF Steps, StillAsks, LocksStep
<1>4. CASE LeaveCriticalSection(s)
  <2>1. Moves(NoCall)
    BY <1>1, <1>4 DEF LeaveCriticalSection, Moves, Return, AtHome
  <2>2. Leaves(s)
    BY <1>4 DEF LeaveCriticalSection, Leaves
  <2> QED
    BY <1>1, <2>1, <2>2 DEF Steps, StillAsks, LocksStep
<1> QED
  BY <1>2, <1>3, <1>4

\* Who is between the two visits of a sleep stands on that call, and only he.
LEMMA Visits ==
  ASSUME LocksAssumption, BooksInv, NEW cv \in CondVars, NEW call \in Calls,
         Makes(call), Sleeps(call, cv)
  PROVE  /\ Asleep(cv) => pc[current] = call
         /\ ~Asleep(cv) => pc[current] = NoCall /\ AtHome
<1>1. current \in Threads
  BY DEF BooksInv, TypeOK
<1>2. Asleep(cv) => pc[current] # NoCall
  BY <1>1 DEF BooksInv, NoStaleSleep, Asleep
<1>3. ~Asleep(cv) => pc[current] # call
  BY <1>1 DEF BooksInv, Sleepers, Asleep, Sleeps
<1> QED
  BY <1>2, <1>3 DEF Makes, AtHome

LEMMA SleepSteps ==
  ASSUME LocksAssumption, BooksInv, NEW cv \in CondVars,
         \/ \E l \in Srw, mode \in SleepModes : SleepConditionVariableSRW(cv, l, mode)
         \/ \E s \in Sections : SleepConditionVariableCS(cv, s)
  PROVE  Steps
<1>1. NoCall \in Calls /\ "cv" \notin DOMAIN NoCall /\ ~Asks(NoCall)
  BY CallFacts
<1>2. ASSUME NEW l \in Srw, NEW mode \in SleepModes, SleepConditionVariableSRW(cv, l, mode)
      PROVE  Steps
  <2> DEFINE call == SleepSrwCall(cv, l, mode)
  <2>1. /\ call \in Calls /\ Sleeps(call, cv) /\ ~Asks(call)
        /\ mode \in Modes
    BY CallFacts DEF LocksAssumption
  <2>2. /\ Makes(call)
        /\ AtHome => current \in IF mode = "exclusive" THEN writer[l] ELSE readers[l]
        /\ UNCHANGED <<owner, depth, entered>>
    BY <1>2 DEF SleepConditionVariableSRW
  <2>3. /\ Asleep(cv) => pc[current] = call
        /\ ~Asleep(cv) => pc[current] = NoCall /\ AtHome
    BY <2>1, <2>2, Visits
  <2>4. CASE /\ ~Asleep(cv)
             /\ word' = [word EXCEPT ![l] = 0]
             /\ sleeping' = sleeping \cup {<<current, cv>>}
             /\ LetGo(l)
             /\ Retry(call)
    <3>1. Moves(call)
      BY <2>1, <2>3, <2>4 DEF Moves, Retry
    <3>2. Drops(l, mode, 0)
      BY <2>2, <2>3, <2>4 DEF Drops
    <3> QED
      BY <2>1, <3>1, <3>2 DEF Steps, StillAsks, LocksStep
  <2>5. CASE /\ Asleep(cv)
             /\ Retry(call)
             /\ UNCHANGED <<word, sleeping, writer, readers>>
    <3>1. Moves(call)
      BY <2>1, <2>3, <2>5 DEF Moves, Retry
    <3>2. Keeps
      BY <2>2, <2>5 DEF Keeps, held
    <3> QED
      BY <2>1, <3>1, <3>2 DEF Steps, StillAsks, LocksStep
  <2>6. CASE /\ Asleep(cv) /\ CanTake(l, mode)
             /\ TakeSrw(l, mode)
             /\ sleeping' = WokenSet(cv)
             /\ Return
    <3>1. Moves(NoCall)
      BY <1>1, <2>1, <2>3, <2>6 DEF Moves, Return, WokenSet
    <3>2. Takes(l, mode)
      BY <2>2, <2>6 DEF Takes
    <3> QED
      BY <1>1, <2>1, <3>1, <3>2 DEF Steps, StillAsks, LocksStep
  <2> QED
    BY <1>2, <2>4, <2>5, <2>6 DEF SleepConditionVariableSRW
<1>3. ASSUME NEW s \in Sections, SleepConditionVariableCS(cv, s)
      PROVE  Steps
  <2> DEFINE call == SleepCsCall(cv, s)
  <2>1. call \in Calls /\ Sleeps(call, cv) /\ ~Asks(call)
    BY CallFacts
  <2>2. /\ Makes(call)
        /\ AtHome => current \in writer[s] /\ entered[s] = 1
        /\ UNCHANGED word
    BY <1>3 DEF SleepConditionVariableCS
  <2>3. /\ Asleep(cv) => pc[current] = call
        /\ ~Asleep(cv) => pc[current] = NoCall /\ AtHome
    BY <2>1, <2>2, Visits
  <2>4. CASE /\ ~Asleep(cv)
             /\ owner' = [owner EXCEPT ![s] = 0]
             /\ depth' = [depth EXCEPT ![s] = 0]
             /\ entered' = [entered EXCEPT ![s] = 0]
             /\ sleeping' = sleeping \cup {<<current, cv>>}
             /\ LetGo(s)
             /\ Retry(call)
    <3>1. Moves(call)
      BY <2>1, <2>3, <2>4 DEF Moves, Retry
    <3>2. Quits(s)
      BY <2>2, <2>3, <2>4 DEF Quits
    <3> QED
      BY <2>1, <3>1, <3>2 DEF Steps, StillAsks, LocksStep
  <2>5. CASE /\ Asleep(cv)
             /\ Retry(call)
             /\ UNCHANGED <<owner, depth, entered, sleeping, writer, readers>>
    <3>1. Moves(call)
      BY <2>1, <2>3, <2>5 DEF Moves, Retry
    <3>2. Keeps
      BY <2>2, <2>5 DEF Keeps, held
    <3> QED
      BY <2>1, <3>1, <3>2 DEF Steps, StillAsks, LocksStep
  <2>6. CASE /\ Asleep(cv) /\ CanEnter(s)
             /\ Enter(s)
             /\ sleeping' = WokenSet(cv)
             /\ Return
    <3>1. Moves(NoCall)
      BY <1>1, <2>1, <2>3, <2>6 DEF Moves, Return, WokenSet
    <3>2. Enters(s)
      BY <2>2, <2>6 DEF Enters
    <3> QED
      BY <1>1, <3>1, <3>2 DEF Steps, StillAsks, LocksStep
  <2> QED
    BY <1>3, <2>4, <2>5, <2>6 DEF SleepConditionVariableCS
<1> QED
  BY <1>2, <1>3

\* Whose slice it is changes as the scheduler has it, and the rest is one of these
\* steps or nothing at all.
LEMMA EveryLocksStep ==
  ASSUME LocksAssumption, BooksInv, [Next]_vars
  PROVE  Steps \/ UNCHANGED <<lockVars, pc, held>>
<1>1. CASE Preempt
  BY <1>1 DEF Preempt
<1>2. CASE Compute
  <2>1. Moves(NoCall)
    BY <1>2, CallFacts DEF Compute, Moves, Return, AtHome, lockVars
  <2>2. Keeps
    BY <1>2 DEF Compute, Keeps, lockVars
  <2> QED
    BY <2>1, <2>2, CallFacts DEF Steps, LocksStep, StillAsks
<1>3. CASE Call
  BY <1>3, SrwSteps, SectionSteps, SleepSteps DEF Call
<1>4. CASE UNCHANGED vars
  BY <1>4 DEF vars
<1> QED
  BY <1>1, <1>2, <1>3, <1>4 DEF Next

------------------------------------------------------------------------------
(* The books: types, critical sections, sleepers.                           *)

LEMMA AfterIsThread ==
  ASSUME LocksAssumption, NEW t \in Threads
  PROVE  After(t) \in Threads
BY DEF LocksAssumption, After, Threads

LEMMA SliceType ==
  ASSUME LocksAssumption, BooksInv, [Next]_vars
  PROVE  current' \in Threads /\ ran' \in BOOLEAN
<1>1. /\ current \in Threads /\ ran \in BOOLEAN
      /\ After(current) \in Threads
  BY AfterIsThread DEF BooksInv, TypeOK
<1>2. ASSUME NEW call, Return \/ Retry(call)
      PROVE  current' \in Threads /\ ran' \in BOOLEAN
  BY <1>1, <1>2 DEF Return, Retry
<1>3. CASE Call
  <2>1. ASSUME NEW l \in Srw, NEW mode \in Modes,
               AcquireSrw(l, mode) \/ TryAcquireSrw(l, mode) \/ ReleaseSrw(l, mode)
        PROVE  current' \in Threads /\ ran' \in BOOLEAN
    BY <2>1, <1>2 DEF AcquireSrw, TryAcquireSrw, ReleaseSrw
  <2>2. ASSUME NEW s \in Sections,
               \/ EnterCriticalSection(s) \/ TryEnterCriticalSection(s)
               \/ LeaveCriticalSection(s)
        PROVE  current' \in Threads /\ ran' \in BOOLEAN
    BY <2>2, <1>2 DEF EnterCriticalSection, TryEnterCriticalSection, LeaveCriticalSection
  <2>3. ASSUME NEW cv \in CondVars, NEW l \in Srw, NEW mode \in SleepModes,
               SleepConditionVariableSRW(cv, l, mode)
        PROVE  current' \in Threads /\ ran' \in BOOLEAN
    BY <2>3, <1>2 DEF SleepConditionVariableSRW
  <2>4. ASSUME NEW cv \in CondVars, NEW s \in Sections, SleepConditionVariableCS(cv, s)
        PROVE  current' \in Threads /\ ran' \in BOOLEAN
    BY <2>4, <1>2 DEF SleepConditionVariableCS
  <2> QED
    BY <1>3, <2>1, <2>2, <2>3, <2>4 DEF Call
<1>4. CASE Preempt \/ Compute \/ UNCHANGED vars
  BY <1>1, <1>2, <1>4 DEF Preempt, Compute, vars
<1> QED
  BY <1>3, <1>4 DEF Next

LEMMA MovesKeepSleepers ==
  ASSUME LocksAssumption, BooksInv, NEW call \in Calls, Moves(call)
  PROVE  /\ pc' \in [Threads -> Calls] /\ sleeping' \subseteq Threads \X CondVars
         /\ NoStaleSleep' /\ Sleepers'
<1>1. /\ current \in Threads /\ pc \in [Threads -> Calls]
      /\ sleeping \subseteq Threads \X CondVars
      /\ \A t \in Threads, cv \in CondVars :
            <<t, cv>> \in sleeping => pc[t] # NoCall /\ Sleeps(pc[t], cv)
      /\ \A t \in Threads : "cv" \in DOMAIN pc[t] => <<t, pc[t].cv>> \in sleeping
  BY DEF BooksInv, TypeOK, NoStaleSleep, Sleepers, Sleeps
<1>2. /\ pc'[current] = call
      /\ \A t \in Threads : t # current => pc'[t] = pc[t]
      /\ pc' \in [Threads -> Calls]
  BY <1>1 DEF Moves
<1>3. "cv" \notin DOMAIN NoCall
  BY CallFacts
<1>4. CASE /\ sleeping' = sleeping
           /\ \/ call = pc[current]
              \/ "cv" \notin DOMAIN call /\ "cv" \notin DOMAIN pc[current]
  <2>1. ASSUME NEW t \in Threads, NEW cv \in CondVars, <<t, cv>> \in sleeping'
        PROVE  pc'[t] # NoCall /\ Sleeps(pc'[t], cv)
    BY <1>1, <1>2, <1>4, <2>1 DEF Sleeps
  <2>2. ASSUME NEW t \in Threads, "cv" \in DOMAIN pc'[t]
        PROVE  <<t, pc'[t].cv>> \in sleeping'
    BY <1>1, <1>2, <1>4, <2>2
  <2> QED
    BY <1>1, <1>2, <1>4, <2>1, <2>2 DEF NoStaleSleep, Sleepers, Sleeps
<1>5. ASSUME NEW cv \in CondVars, sleeping' = sleeping \cup {<<current, cv>>},
             Sleeps(call, cv), pc[current] = NoCall
      PROVE  sleeping' \subseteq Threads \X CondVars /\ NoStaleSleep' /\ Sleepers'
  <2>1. call # NoCall
    BY <1>3, <1>5 DEF Sleeps
  <2>2. ASSUME NEW t \in Threads, NEW c \in CondVars, <<t, c>> \in sleeping'
        PROVE  pc'[t] # NoCall /\ Sleeps(pc'[t], c)
    <3>1. CASE t = current
      BY <1>1, <1>2, <1>5, <2>1, <2>2, <3>1
    <3>2. CASE t # current
      BY <1>1, <1>2, <1>5, <2>2, <3>2
    <3> QED
      BY <3>1, <3>2
  <2>3. ASSUME NEW t \in Threads, "cv" \in DOMAIN pc'[t]
        PROVE  <<t, pc'[t].cv>> \in sleeping'
    BY <1>1, <1>2, <1>5, <2>3 DEF Sleeps
  <2>4. sleeping' \subseteq Threads \X CondVars
    BY <1>1, <1>5
  <2> QED
    BY <2>2, <2>3, <2>4 DEF NoStaleSleep, Sleepers, Sleeps
<1>6. ASSUME NEW cv \in CondVars, sleeping' = sleeping \ {<<current, cv>>},
             call = NoCall, Sleeps(pc[current], cv)
      PROVE  sleeping' \subseteq Threads \X CondVars /\ NoStaleSleep' /\ Sleepers'
  <2>1. ASSUME NEW t \in Threads, NEW c \in CondVars, <<t, c>> \in sleeping'
        PROVE  pc'[t] # NoCall /\ Sleeps(pc'[t], c)
    <3>1. CASE t = current
      BY <1>1, <1>6, <2>1, <3>1 DEF Sleeps
    <3>2. CASE t # current
      BY <1>1, <1>2, <1>6, <2>1, <3>2
    <3> QED
      BY <3>1, <3>2
  <2>2. ASSUME NEW t \in Threads, "cv" \in DOMAIN pc'[t]
        PROVE  <<t, pc'[t].cv>> \in sleeping'
    <3>1. t # current
      BY <1>2, <1>3, <1>6, <2>2
    <3> QED
      BY <1>1, <1>2, <1>6, <2>2, <3>1
  <2> QED
    BY <1>1, <1>6, <2>1, <2>2 DEF NoStaleSleep, Sleepers, Sleeps
<1> QED
  BY <1>2, <1>4, <1>5, <1>6 DEF Moves

\* What the two words of a critical section say, lock by lock.
LEMMA SectionFacts ==
  ASSUME LocksAssumption, BooksInv, NEW s \in Sections
  PROVE  /\ s \in Locks /\ s \notin Srw
         /\ current \in Threads /\ current \in Nat \ {0}
         /\ writer \in [Locks -> SUBSET Threads] /\ readers \in [Locks -> SUBSET Threads]
         /\ owner \in [Sections -> Threads \cup {0}]
         /\ depth \in [Sections -> Nat] /\ entered = depth
         /\ writer[s] = IF depth[s] = 0 THEN {} ELSE {owner[s]}
         /\ owner[s] = 0 <=> depth[s] = 0
         /\ readers[s] = {}
<1>1. /\ s \in Locks /\ s \notin Srw
      /\ \A t \in Threads : t \in Nat \ {0}
  BY DEF LocksAssumption, Locks, Threads
<1>2. /\ current \in Threads
      /\ writer \in [Locks -> SUBSET Threads] /\ readers \in [Locks -> SUBSET Threads]
      /\ owner \in [Sections -> Threads \cup {0}]
      /\ depth \in [Sections -> Nat] /\ entered \in [Sections -> Nat]
  BY DEF BooksInv, TypeOK
<1>3. \A x \in Sections : depth[x] = entered[x]
  BY DEF BooksInv, SectionTellsHolder
<1>4. /\ writer[s] = IF depth[s] = 0 THEN {} ELSE {owner[s]}
      /\ owner[s] = 0 <=> depth[s] = 0
  BY DEF BooksInv, SectionTellsHolder
<1>5. readers[s] = {}
  BY DEF BooksInv, SectionsAreExclusive
<1> QED
  BY <1>1, <1>2, <1>3, <1>4, <1>5

\* The types of what the locks are kept in, and what is claimed of the sections.
SectionBooks ==
    /\ word \in [Srw -> Nat]
    /\ owner \in [Sections -> Threads \cup {0}]
    /\ depth \in [Sections -> Nat]
    /\ entered \in [Sections -> Nat]
    /\ writer \in [Locks -> SUBSET Threads]
    /\ readers \in [Locks -> SUBSET Threads]
    /\ SectionTellsHolder /\ SectionsAreExclusive

LEMMA SrwKeepsSections ==
  ASSUME LocksAssumption, BooksInv, NEW l \in Srw, NEW mode \in Modes, NEW left \in Nat,
         Takes(l, mode) \/ Drops(l, mode, left)
  PROVE  SectionBooks'
<1>1. /\ word \in [Srw -> Nat] /\ current \in Threads /\ current \in Nat
      /\ l \in Locks /\ l \notin Sections /\ Sections \subseteq Locks
      /\ writer \in [Locks -> SUBSET Threads] /\ readers \in [Locks -> SUBSET Threads]
  BY DEF BooksInv, TypeOK, Locks, LocksAssumption, Threads
<1>2. /\ UNCHANGED <<owner, depth, entered>>
      /\ word' \in [Srw -> Nat]
      /\ writer' \in [Locks -> SUBSET Threads] /\ readers' \in [Locks -> SUBSET Threads]
      /\ \A s \in Sections : writer'[s] = writer[s] /\ readers'[s] = readers[s]
  <2>1. CASE Takes(l, mode)
    <3>1. ExclusiveWord(current) \in Nat /\ word[l] + 2 \in Nat
      BY <1>1 DEF ExclusiveWord
    <3>2. word' \in [Srw -> Nat]
      BY <1>1, <2>1, <3>1 DEF Takes, TakeSrw
    <3>3. /\ writer' = writer \/ writer' = [writer EXCEPT ![l] = writer[l] \cup {current}]
          /\ readers' = readers \/ readers' = [readers EXCEPT ![l] = readers[l] \cup {current}]
      BY <2>1 DEF Takes, TakeSrw, Hold
    <3> QED
      BY <1>1, <2>1, <3>2, <3>3 DEF Takes
  <2>2. CASE Drops(l, mode, left)
    BY <1>1, <2>2 DEF Drops, LetGo
  <2> QED
    BY <2>1, <2>2
<1> QED
  BY <1>2 DEF BooksInv, TypeOK, SectionBooks, SectionTellsHolder, SectionsAreExclusive

LEMMA SectionStepsAreRight ==
  ASSUME LocksAssumption, BooksInv, NEW s \in Sections,
         Enters(s) \/ Leaves(s) \/ Quits(s)
  PROVE  SectionBooks'
<1> DEFINE Right == /\ depth'[s] = entered'[s]
                    /\ writer'[s] = IF depth'[s] = 0 THEN {} ELSE {owner'[s]}
                    /\ owner'[s] = 0 <=> depth'[s] = 0
                    /\ readers'[s] = {}
           Typed == /\ owner'[s] \in Threads \cup {0} /\ depth'[s] \in Nat
                    /\ writer' \in [Locks -> SUBSET Threads]
                    /\ readers' \in [Locks -> SUBSET Threads]
           Local == /\ word' = word
                    /\ \E o : owner' = [owner EXCEPT ![s] = o]
                    /\ \E d : depth' = [depth EXCEPT ![s] = d]
                    /\ \E d : entered' = [entered EXCEPT ![s] = d]
                    /\ \E w : writer' = [writer EXCEPT ![s] = w]
                    /\ \E r : readers' = [readers EXCEPT ![s] = r]
<1>1. /\ s \in Locks /\ s \notin Srw
      /\ current \in Threads /\ current \in Nat \ {0}
      /\ writer \in [Locks -> SUBSET Threads] /\ readers \in [Locks -> SUBSET Threads]
      /\ owner \in [Sections -> Threads \cup {0}]
      /\ depth \in [Sections -> Nat] /\ entered = depth
      /\ writer[s] = IF depth[s] = 0 THEN {} ELSE {owner[s]}
      /\ owner[s] = 0 <=> depth[s] = 0
      /\ readers[s] = {}
  BY SectionFacts
<1>2. ASSUME Enters(s)
      PROVE  Right /\ Typed /\ Local
  <2>1. /\ owner' = [owner EXCEPT ![s] = current]
        /\ depth' = [depth EXCEPT ![s] = depth[s] + 1]
        /\ entered' = [entered EXCEPT ![s] = entered[s] + 1]
        /\ writer' = [writer EXCEPT ![s] = writer[s] \cup {current}]
        /\ readers' = readers /\ word' = word
        /\ owner[s] = 0 \/ owner[s] = current
    BY <1>2 DEF Enters, Enter, CanEnter, Hold
  <2>2. writer[s] \cup {current} = {current} /\ depth[s] + 1 \in Nat /\ depth[s] + 1 # 0
    BY <1>1, <2>1
  <2>3. Right /\ Typed
    BY <1>1, <2>1, <2>2
  <2>4. Local
    <3>1. readers' = [readers EXCEPT ![s] = readers[s]]
      BY <1>1, <2>1
    <3> QED
      BY <2>1, <3>1
  <2> QED
    BY <2>3, <2>4
<1>3. ASSUME Leaves(s)
      PROVE  Right /\ Typed /\ Local
  <2>1. current \in writer[s]
    BY <1>1, <1>3 DEF Leaves, Holds
  <2>2. writer[s] = {current} /\ owner[s] = current /\ depth[s] \in Nat \ {0}
    BY <1>1, <2>1
  <2>3. /\ depth' = [depth EXCEPT ![s] = IF depth[s] > 0 THEN depth[s] - 1 ELSE 0]
        /\ owner' = [owner EXCEPT ![s] = IF depth[s] <= 1 THEN 0 ELSE owner[s]]
        /\ entered' = [entered EXCEPT ![s] = entered[s] - 1]
        /\ word' = word
    BY <1>3 DEF Leaves
  <2>4. CASE depth[s] = 1
    <3>1. LetGo(s)
      BY <1>1, <1>3, <2>4 DEF Leaves
    <3>2. writer' = [writer EXCEPT ![s] = {}] /\ readers' = [readers EXCEPT ![s] = {}]
      <4>1. writer[s] \ {current} = {} /\ readers[s] \ {current} = {}
        BY <1>1, <2>2
      <4> QED
        BY <3>1, <4>1 DEF LetGo
    <3>3. depth'[s] = 0 /\ owner'[s] = 0 /\ entered'[s] = 0
      BY <1>1, <2>3, <2>4
    <3>4. Right /\ Typed
      BY <1>1, <3>2, <3>3
    <3> QED
      BY <2>3, <3>2, <3>4
  <2>5. CASE depth[s] # 1
    <3>1. writer' = writer /\ readers' = readers
      BY <1>1, <1>3, <2>5 DEF Leaves
    <3>2. /\ depth'[s] = depth[s] - 1 /\ owner'[s] = current
          /\ entered'[s] = depth[s] - 1 /\ depth[s] - 1 \in Nat \ {0}
      BY <1>1, <2>2, <2>3, <2>5
    <3>3. Right /\ Typed
      BY <1>1, <2>2, <3>1, <3>2
    <3>4. /\ writer' = [writer EXCEPT ![s] = writer[s]]
          /\ readers' = [readers EXCEPT ![s] = readers[s]]
      BY <1>1, <3>1
    <3> QED
      BY <2>3, <3>3, <3>4
  <2> QED
    BY <2>4, <2>5
<1>4. ASSUME Quits(s)
      PROVE  Right /\ Typed /\ Local
  <2>1. /\ owner' = [owner EXCEPT ![s] = 0]
        /\ depth' = [depth EXCEPT ![s] = 0]
        /\ entered' = [entered EXCEPT ![s] = 0]
        /\ writer' = [writer EXCEPT ![s] = writer[s] \ {current}]
        /\ readers' = [readers EXCEPT ![s] = readers[s] \ {current}]
        /\ word' = word /\ current \in writer[s]
    BY <1>4 DEF Quits, LetGo
  <2>2. writer[s] \ {current} = {} /\ readers[s] \ {current} = {}
    BY <1>1, <2>1
  <2>3. Right /\ Typed
    BY <1>1, <2>1, <2>2
  <2> QED
    BY <2>1, <2>3
<1>5. Right /\ Typed /\ Local
  BY <1>2, <1>3, <1>4
<1>6. /\ owner' \in [Sections -> Threads \cup {0}]
      /\ depth' \in [Sections -> Nat] /\ entered' \in [Sections -> Nat]
  BY <1>1, <1>5
<1>7. \A x \in Sections : x # s =>
         /\ owner'[x] = owner[x] /\ depth'[x] = depth[x] /\ entered'[x] = entered[x]
         /\ writer'[x] = writer[x] /\ readers'[x] = readers[x]
  <2>1. Sections \subseteq Locks
    BY DEF Locks
  <2> QED
    BY <1>1, <1>5, <2>1
<1>8. word' \in [Srw -> Nat]
  BY <1>5 DEF BooksInv, TypeOK
<1>9. SectionTellsHolder'
  <2> SUFFICES ASSUME NEW x \in Sections
               PROVE  /\ depth'[x] = entered'[x]
                      /\ writer'[x] = IF depth'[x] = 0 THEN {} ELSE {owner'[x]}
                      /\ owner'[x] = 0 <=> depth'[x] = 0
    BY DEF SectionTellsHolder
  <2>1. CASE x = s
    BY <1>5, <2>1
  <2>2. CASE x # s
    BY <1>7, <2>2 DEF BooksInv, SectionTellsHolder
  <2> QED
    BY <2>1, <2>2
<1>10. SectionsAreExclusive'
  BY <1>5, <1>7 DEF BooksInv, SectionsAreExclusive
<1> QED
  BY <1>5, <1>6, <1>8, <1>9, <1>10 DEF SectionBooks

LEMMA BooksStep ==
  ASSUME LocksAssumption, BooksInv, [Next]_vars
  PROVE  BooksInv'
<1>1. current' \in Threads /\ ran' \in BOOLEAN
  BY SliceType
<1>2. CASE UNCHANGED <<lockVars, pc, held>>
  BY <1>1, <1>2 DEF BooksInv, TypeOK, SectionTellsHolder, NoStaleSleep, Sleepers,
                    SectionsAreExclusive, lockVars, held
<1>3. CASE Steps
  <2>1. PICK call \in Calls : Moves(call) /\ LocksStep
    BY <1>3 DEF Steps
  <2>2. /\ pc' \in [Threads -> Calls] /\ sleeping' \subseteq Threads \X CondVars
        /\ NoStaleSleep' /\ Sleepers'
    BY <2>1, MovesKeepSleepers
  <2>3. SectionBooks'
    <3>1. CASE Keeps
      BY <3>1 DEF BooksInv, TypeOK, SectionTellsHolder, SectionsAreExclusive, SectionBooks,
                  Keeps, held
    <3> QED
      BY <2>1, <3>1, SrwKeepsSections, SectionStepsAreRight DEF LocksStep
  <2> QED
    BY <1>1, <2>2, <2>3 DEF BooksInv, TypeOK, SectionBooks
<1> QED
  BY <1>2, <1>3, EveryLocksStep

LEMMA BooksStart ==
  ASSUME LocksAssumption, Init
  PROVE  BooksInv
<1>1. 1 \in Threads
  BY DEF LocksAssumption, Threads
<1>2. /\ pc \in [Threads -> Calls]
      /\ \A t \in Threads : pc[t] = NoCall /\ "cv" \notin DOMAIN pc[t]
  BY CallFacts DEF Init
<1>3. TypeOK
  BY <1>1, <1>2 DEF Init, TypeOK
<1>4. SectionTellsHolder /\ SectionsAreExclusive
  BY DEF Init, SectionTellsHolder, SectionsAreExclusive, Locks
<1>5. NoStaleSleep /\ Sleepers
  BY <1>2 DEF Init, NoStaleSleep, Sleepers
<1> QED
  BY <1>3, <1>4, <1>5 DEF BooksInv

THEOREM BooksAlwaysKept == ASSUME LocksAssumption PROVE Spec => []BooksInv
<1>1. Init => BooksInv
  BY BooksStart
<1>2. BooksInv /\ [Next]_vars => BooksInv'
  BY BooksStep
<1> QED
  BY <1>1, <1>2, PTL DEF Spec

------------------------------------------------------------------------------
(* The word of an SRW lock.  A sleep clears it whoever else reads, so this  *)
(* is said of guests that sleep with their locks held exclusively.          *)

Exclusively == SleepModes \subseteq {"exclusive"}

LEMMA Parity == \A n \in Nat : (2 * n) % 2 = 0 /\ (2 * n + 1) % 2 = 1
OBVIOUS

LEMMA FewReaders ==
  ASSUME LocksAssumption, NEW s \in SUBSET Threads
  PROVE  IsFiniteSet(s) /\ Cardinality(s) \in Nat
<1>1. IsFiniteSet(Threads)
  BY FS_Interval DEF LocksAssumption, Threads
<1> QED
  BY <1>1, FS_Subset, FS_CardinalityType

\* The word of lock l tells who holds it.
Tells(l) ==
    \/ \E t \in Threads : writer[l] = {t} /\ readers[l] = {} /\ word[l] = ExclusiveWord(t)
    \/ writer[l] = {} /\ word[l] = 2 * Cardinality(readers[l])

\* What can be read off the word of a lock that tells who holds it.
LEMMA WordFacts ==
  ASSUME LocksAssumption, BooksInv, NEW l \in Srw, Tells(l)
  PROVE  /\ word[l] = 0 <=> writer[l] = {} /\ readers[l] = {}
         /\ word[l] % 2 = 0 => writer[l] = {} /\ word[l] = 2 * Cardinality(readers[l])
         /\ \A t \in writer[l] : writer[l] = {t} /\ readers[l] = {}
         /\ \A t \in readers[l] : writer[l] = {} /\ word[l] = 2 * Cardinality(readers[l])
<1>1. /\ l \in Locks /\ readers[l] \in SUBSET Threads
      /\ \A t \in Threads : t \in Nat
  BY DEF BooksInv, TypeOK, Locks, LocksAssumption, Threads
<1>2. /\ Cardinality(readers[l]) \in Nat
      /\ Cardinality(readers[l]) = 0 <=> readers[l] = {}
  BY <1>1, FewReaders, FS_EmptySet
<1>3. ASSUME NEW t \in Threads, writer[l] = {t}, readers[l] = {}, word[l] = ExclusiveWord(t)
      PROVE  /\ word[l] = 0 <=> writer[l] = {} /\ readers[l] = {}
             /\ word[l] % 2 = 0 => writer[l] = {} /\ word[l] = 2 * Cardinality(readers[l])
             /\ \A u \in writer[l] : writer[l] = {u} /\ readers[l] = {}
             /\ \A u \in readers[l] : writer[l] = {} /\ word[l] = 2 * Cardinality(readers[l])
  <2>1. t \in Nat /\ word[l] = 2 * t + 1
    BY <1>1, <1>3 DEF ExclusiveWord
  <2>2. word[l] % 2 = 1 /\ word[l] # 0
    BY <2>1, Parity
  <2> QED
    BY <1>3, <2>2
<1>4. CASE writer[l] = {} /\ word[l] = 2 * Cardinality(readers[l])
  BY <1>2, <1>4
<1> QED
  BY <1>3, <1>4 DEF Tells

LEMMA TakingTells ==
  ASSUME LocksAssumption, Exclusively, BooksInv, WordInv,
         NEW l \in Srw, NEW mode \in Modes, Takes(l, mode)
  PROVE  /\ Tells(l)'
         /\ writer[l] = {}
         /\ mode = "exclusive" => readers[l] = {}
         /\ writer' = IF mode = "exclusive" THEN [writer EXCEPT ![l] = {current}] ELSE writer
         /\ readers' = IF mode = "shared" THEN [readers EXCEPT ![l] = readers[l] \cup {current}]
                                          ELSE readers
<1>1. /\ l \in Locks /\ current \in Threads /\ word \in [Srw -> Nat]
      /\ writer \in [Locks -> SUBSET Threads] /\ readers \in [Locks -> SUBSET Threads]
  BY DEF BooksInv, TypeOK, Locks
<1>2. Tells(l)
  BY DEF WordInv, WordTellsHolders, Tells
<1>3. mode = "exclusive" \/ mode = "shared"
  BY DEF Modes
<1>4. CASE mode = "exclusive"
  <2>1. word[l] = 0
    BY <1>4 DEF Takes, CanTake
  <2>2. writer[l] = {} /\ readers[l] = {}
    BY <1>2, <2>1, WordFacts
  <2>3. /\ word' = [word EXCEPT ![l] = ExclusiveWord(current)]
        /\ writer' = [writer EXCEPT ![l] = {current}] /\ readers' = readers
    BY <1>4, <2>2 DEF Takes, TakeSrw, Hold
  <2>4. writer'[l] = {current} /\ readers'[l] = {} /\ word'[l] = ExclusiveWord(current)
    BY <1>1, <2>2, <2>3
  <2>5. Tells(l)'
    BY <1>1, <2>4 DEF Tells, ExclusiveWord
  <2> QED
    BY <1>4, <2>2, <2>3, <2>5
<1>5. CASE mode = "shared"
  <2>1. word[l] % 2 = 0
    BY <1>5 DEF Takes, CanTake
  <2>2. writer[l] = {} /\ word[l] = 2 * Cardinality(readers[l])
    BY <1>2, <2>1, WordFacts
  <2>3. current \notin readers[l]
    <3>1. CASE Holds(l) /\ pc[current] = AcquireCall(l, mode)
      <4>1. Asks(pc[current]) /\ pc[current].lock = l
        BY <3>1, CallFacts
      <4> QED
        BY <1>1, <4>1 DEF WordInv, Askers, Asks
    <3> QED
      BY <1>5, <3>1 DEF Takes, Holds, Exclusively
  <2>4. /\ word' = [word EXCEPT ![l] = word[l] + 2]
        /\ readers' = [readers EXCEPT ![l] = readers[l] \cup {current}] /\ writer' = writer
    BY <1>5 DEF Takes, TakeSrw, Hold
  <2>5. /\ Cardinality(readers[l]) \in Nat
        /\ Cardinality(readers[l] \cup {current}) = Cardinality(readers[l]) + 1
    BY <1>1, <2>3, FewReaders, FS_AddElement
  <2>6. /\ writer'[l] = {} /\ readers'[l] = readers[l] \cup {current}
        /\ word'[l] = 2 * Cardinality(readers[l]) + 2
    BY <1>1, <2>2, <2>4
  <2>7. writer'[l] = {} /\ word'[l] = 2 * Cardinality(readers'[l])
    BY <2>5, <2>6
  <2>8. Tells(l)'
    BY <2>7 DEF Tells
  <2> QED
    BY <1>5, <2>2, <2>4, <2>8
<1> QED
  BY <1>3, <1>4, <1>5

LEMMA DroppingTells ==
  ASSUME LocksAssumption, Exclusively, BooksInv, WordInv,
         NEW l \in Srw, NEW mode \in Modes, NEW left \in Nat, Drops(l, mode, left)
  PROVE  Tells(l)'
<1>1. /\ l \in Locks /\ current \in Threads /\ word \in [Srw -> Nat]
      /\ writer \in [Locks -> SUBSET Threads] /\ readers \in [Locks -> SUBSET Threads]
  BY DEF BooksInv, TypeOK, Locks
<1>2. Tells(l)
  BY DEF WordInv, WordTellsHolders, Tells
<1>3. /\ word'[l] = left
      /\ writer'[l] = writer[l] \ {current} /\ readers'[l] = readers[l] \ {current}
  BY <1>1 DEF Drops, LetGo
<1>4. CASE mode = "exclusive"
  <2>1. writer[l] = {current} /\ readers[l] = {}
    BY <1>2, <1>4, WordFacts DEF Drops
  <2>2. left = 0
    BY <1>4 DEF Drops, ReleasedWord
  <2>3. Cardinality({}) = 0
    BY FS_EmptySet
  <2>4. writer'[l] = {} /\ readers'[l] = {} /\ word'[l] = 2 * Cardinality(readers'[l])
    BY <1>3, <2>1, <2>2, <2>3
  <2> QED
    BY <2>4 DEF Tells
<1>5. CASE mode = "shared"
  <2>1. current \in readers[l] /\ left = ReleasedWord(l, mode)
    BY <1>5 DEF Drops, Exclusively
  <2>2. writer[l] = {} /\ word[l] = 2 * Cardinality(readers[l])
    BY <1>2, <2>1, WordFacts
  <2>3. /\ IsFiniteSet(readers[l]) /\ Cardinality(readers[l]) \in Nat
        /\ readers[l] # {}
    BY <1>1, <2>1, FewReaders
  <2>4. /\ Cardinality(readers[l]) # 0
        /\ Cardinality(readers[l] \ {current}) = Cardinality(readers[l]) - 1
    BY <2>1, <2>3, FS_EmptySet, FS_RemoveElement
  <2>5. word[l] % 2 = 0
    BY <2>2, <2>3, Parity
  <2>6. left = IF word[l] <= 2 THEN 0 ELSE word[l] - 2
    BY <1>5, <2>1, <2>5 DEF ReleasedWord
  <2>7. left = 2 * (Cardinality(readers[l]) - 1)
    BY <2>2, <2>3, <2>4, <2>6
  <2>8. writer'[l] = {} /\ word'[l] = 2 * Cardinality(readers'[l])
    BY <1>3, <2>2, <2>4, <2>7
  <2> QED
    BY <2>8 DEF Tells
<1> QED
  BY <1>4, <1>5 DEF Modes

\* A step that is not another's request leaves his lock with him as without.
LEMMA WordStep ==
  ASSUME LocksAssumption, Exclusively, BooksInv, WordInv, [Next]_vars
  PROVE  WordInv'
<1>1. /\ current \in Threads /\ pc \in [Threads -> Calls] /\ word \in [Srw -> Nat]
      /\ writer \in [Locks -> SUBSET Threads] /\ readers \in [Locks -> SUBSET Threads]
      /\ Srw \subseteq Locks /\ Srw \cap Sections = {}
  BY DEF BooksInv, TypeOK, Locks, LocksAssumption
<1>2. CASE UNCHANGED <<lockVars, pc, held>>
  BY <1>2 DEF WordInv, WordTellsHolders, Askers, ExclusiveWord, lockVars, held
<1>3. ASSUME NEW call \in Calls, Moves(call), StillAsks(call), LocksStep
      PROVE  WordInv'
  <2>1. /\ pc'[current] = call
        /\ \A t \in Threads : t # current => pc'[t] = pc[t]
    BY <1>1, <1>3 DEF Moves
  <2>2. \A l \in Locks, t \in Threads :
           t # current => /\ t \in writer'[l] => t \in writer[l]
                          /\ t \in readers'[l] => t \in readers[l]
    <3>1. ASSUME NEW l \in Locks,
                 /\ writer' \in { [writer EXCEPT ![l] = w] :
                                    w \in {writer[l], writer[l] \cup {current}, writer[l] \ {current}} }
                 /\ readers' \in { [readers EXCEPT ![l] = r] :
                                    r \in {readers[l], readers[l] \cup {current}, readers[l] \ {current}} }
          PROVE  \A m \in Locks, t \in Threads :
                    t # current => /\ t \in writer'[m] => t \in writer[m]
                                   /\ t \in readers'[m] => t \in readers[m]
      BY <1>1, <3>1
    <3>2. \A l \in Locks : /\ [writer EXCEPT ![l] = writer[l]] = writer
                           /\ [readers EXCEPT ![l] = readers[l]] = readers
      BY <1>1
    <3>3. ASSUME NEW l \in Locks, LetGo(l) \/ (\E mode : Hold(l, mode)) \/ UNCHANGED <<writer, readers>>
          PROVE  \A m \in Locks, t \in Threads :
                    t # current => /\ t \in writer'[m] => t \in writer[m]
                                   /\ t \in readers'[m] => t \in readers[m]
      BY <3>1, <3>2, <3>3 DEF LetGo, Hold
    <3>4. CASE Keeps
      BY <3>4 DEF Keeps, held
    <3>5. ASSUME NEW l \in Srw, NEW mode \in Modes, Takes(l, mode)
          PROVE  Hold(l, mode)
      BY <3>5 DEF Takes, TakeSrw
    <3>6. ASSUME NEW l \in Srw, NEW mode \in Modes, NEW left \in Nat, Drops(l, mode, left)
          PROVE  LetGo(l)
      BY <3>6 DEF Drops
    <3>7. ASSUME NEW s \in Sections, Enters(s) \/ Leaves(s) \/ Quits(s)
          PROVE  LetGo(s) \/ Hold(s, "exclusive") \/ UNCHANGED <<writer, readers>>
      BY <3>7 DEF Enters, Enter, Leaves, Quits
    <3>8. Sections \subseteq Locks
      BY DEF Locks
    <3> QED
      BY <1>1, <1>3, <3>3, <3>4, <3>5, <3>6, <3>7, <3>8 DEF LocksStep
  <2>3. Askers'
    <3> SUFFICES ASSUME NEW t \in Threads, Asks(pc'[t])
                 PROVE  t \notin writer'[pc'[t].lock] \cup readers'[pc'[t].lock]
      BY DEF Askers, Asks
    <3>1. CASE t = current
      <4>1. PICK l \in Srw, mode \in Modes :
                /\ call = AcquireCall(l, mode) /\ Keeps
                /\ (AtHome /\ ~Holds(l)) \/ pc[current] = call
        BY <1>3, <2>1, <3>1 DEF StillAsks
      <4>2. Asks(call) /\ call.lock = l /\ writer' = writer /\ readers' = readers
        BY <4>1, CallFacts DEF Keeps, held
      <4>3. ~Holds(l)
        BY <1>1, <4>1, <4>2 DEF WordInv, Askers, Asks, Holds
      <4> QED
        BY <2>1, <3>1, <4>2, <4>3 DEF Holds
    <3>2. CASE t # current
      <4>1. /\ pc'[t] = pc[t]
            /\ t \notin writer[pc[t].lock] \cup readers[pc[t].lock]
        BY <2>1, <3>2 DEF WordInv, Askers, Asks
      <4>2. pc[t].lock \in Locks
        <5>1. pc[t] \in Calls /\ pc[t].fn = "AcquireSRWLock"
          BY <1>1, <2>1, <3>2 DEF Asks
        <5>2. \E l \in Srw, mode \in Modes : pc[t] = AcquireCall(l, mode)
          BY <5>1 DEF Calls, NoCall, EnterCall, SleepSrwCall, SleepCsCall
        <5> QED
          BY <1>1, <5>2, CallFacts
      <4> QED
        BY <2>2, <3>2, <4>1, <4>2
    <3> QED
      BY <3>1, <3>2
  <2>4. ASSUME NEW x \in Srw
        PROVE  Tells(x)'
    <3>1. Tells(x) /\ x \in Locks /\ x \notin Sections
      BY <1>1 DEF WordInv, WordTellsHolders, Tells
    <3>2. ASSUME word'[x] = word[x], writer'[x] = writer[x], readers'[x] = readers[x]
          PROVE  Tells(x)'
      BY <3>1, <3>2 DEF Tells, ExclusiveWord
    <3>3. CASE Keeps
      BY <3>2, <3>3 DEF Keeps, held
    <3>4. ASSUME NEW l \in Srw, NEW mode \in Modes, Takes(l, mode)
          PROVE  Tells(x)'
      <4>1. CASE x = l
        BY <3>4, <4>1, TakingTells
      <4>2. CASE x # l
        <5>1. /\ word'[x] = word[x]
              /\ writer'[x] = writer[x] /\ readers'[x] = readers[x]
          BY <1>1, <3>1, <3>4, <4>2, TakingTells DEF Takes, TakeSrw
        <5> QED
          BY <3>2, <5>1
      <4> QED
        BY <4>1, <4>2
    <3>5. ASSUME NEW l \in Srw, NEW mode \in Modes, NEW left \in Nat, Drops(l, mode, left)
          PROVE  Tells(x)'
      <4>1. CASE x = l
        BY <3>5, <4>1, DroppingTells
      <4>2. CASE x # l
        BY <1>1, <3>1, <3>2, <3>5, <4>2 DEF Drops, LetGo
      <4> QED
        BY <4>1, <4>2
    <3>6. ASSUME NEW s \in Sections, Enters(s) \/ Leaves(s) \/ Quits(s)
          PROVE  Tells(x)'
      <4>1. word' = word /\ x # s
        BY <3>1, <3>6 DEF Enters, Leaves, Quits
      <4>2. writer'[x] = writer[x] /\ readers'[x] = readers[x]
        <5>1. /\ (\E w : writer' = [writer EXCEPT ![s] = w]) \/ writer' = writer
              /\ (\E r : readers' = [readers EXCEPT ![s] = r]) \/ readers' = readers
          BY <3>6 DEF Enters, Enter, Hold, Leaves, Quits, LetGo
        <5> QED
          BY <1>1, <3>1, <4>1, <5>1
      <4> QED
        BY <3>2, <4>1, <4>2
    <3> QED
      BY <1>3, <3>3, <3>4, <3>5, <3>6 DEF LocksStep
  <2>5. WordTellsHolders'
    BY <2>4 DEF WordTellsHolders, Tells
  <2> QED
    BY <2>3, <2>5 DEF WordInv
<1> QED
  BY <1>2, <1>3, EveryLocksStep DEF Steps

LEMMA WordStart ==
  ASSUME LocksAssumption, Init
  PROVE  WordInv
<1>1. \A l \in Srw : writer[l] = {} /\ readers[l] = {} /\ word[l] = 0
  BY DEF Init, Locks
<1>2. Cardinality({}) = 0
  BY FS_EmptySet
<1>3. WordTellsHolders
  BY <1>1, <1>2 DEF WordTellsHolders
<1>4. \A t \in Threads : ~Asks(pc[t])
  BY CallFacts DEF Init
<1> QED
  BY <1>3, <1>4 DEF WordInv, Askers, Asks

------------------------------------------------------------------------------
(* The abstract locks.                                                      *)

LEMMA AbstractStart ==
  ASSUME Init
  PROVE  Abstract!Init
BY DEF Init, Abstract!Init

LEMMA AbstractStep ==
  ASSUME LocksAssumption, Exclusively, BooksInv, WordInv, [Next]_vars
  PROVE  [Abstract!Next]_<<writer, readers>>
<1>1. /\ current \in Threads /\ Srw \subseteq Locks /\ Sections \subseteq Locks
      /\ writer \in [Locks -> SUBSET Threads] /\ readers \in [Locks -> SUBSET Threads]
  BY DEF BooksInv, TypeOK, Locks
<1>2. ASSUME NEW l \in Locks,
             \/ Abstract!AcquireExclusive(current, l) \/ Abstract!AcquireShared(current, l)
             \/ Abstract!Release(current, l)
      PROVE  Abstract!Next
  BY <1>1, <1>2 DEF Abstract!Next
<1>3. CASE UNCHANGED <<lockVars, pc, held>> \/ Keeps
  BY <1>3 DEF held, Keeps
<1>4. ASSUME NEW l \in Srw, NEW mode \in Modes, Takes(l, mode)
      PROVE  [Abstract!Next]_<<writer, readers>>
  <2>1. l \in Locks /\ writer[l] = {}
    BY <1>1, <1>4, TakingTells
  <2>2. CASE mode = "exclusive"
    <3>1. Abstract!AcquireExclusive(current, l)
      BY <1>4, <2>1, <2>2, TakingTells DEF Abstract!AcquireExclusive
    <3> QED
      BY <1>2, <2>1, <3>1
  <2>3. CASE mode = "shared"
    <3>1. Abstract!AcquireShared(current, l)
      BY <1>4, <2>1, <2>3, TakingTells DEF Abstract!AcquireShared
    <3> QED
      BY <1>2, <2>1, <3>1
  <2> QED
    BY <2>2, <2>3 DEF Modes
<1>5. ASSUME NEW l \in Locks, Holds(l), LetGo(l)
      PROVE  Abstract!Next
  <2>1. Abstract!Release(current, l)
    BY <1>5 DEF Holds, LetGo, Abstract!Release
  <2> QED
    BY <1>2, <2>1
<1>6. ASSUME NEW l \in Srw, NEW mode \in Modes, NEW left \in Nat, Drops(l, mode, left)
      PROVE  Abstract!Next
  BY <1>1, <1>5, <1>6 DEF Drops, Holds
<1>7. ASSUME NEW s \in Sections, Enters(s)
      PROVE  [Abstract!Next]_<<writer, readers>>
  <2>1. /\ s \in Locks /\ current # 0 /\ readers[s] = {}
        /\ writer[s] = IF owner[s] = 0 THEN {} ELSE {owner[s]}
    <3>1. /\ s \in Locks /\ current \in Nat \ {0} /\ readers[s] = {}
          /\ writer[s] = IF depth[s] = 0 THEN {} ELSE {owner[s]}
          /\ owner[s] = 0 <=> depth[s] = 0
      BY SectionFacts
    <3> QED
      BY <3>1
  <2>2. /\ writer' = [writer EXCEPT ![s] = writer[s] \cup {current}] /\ readers' = readers
        /\ owner[s] = 0 \/ owner[s] = current
    BY <1>7 DEF Enters, Enter, Hold, CanEnter
  <2>3. CASE owner[s] = 0
    <3>1. Abstract!AcquireExclusive(current, s)
      BY <2>1, <2>2, <2>3 DEF Abstract!AcquireExclusive
    <3> QED
      BY <1>2, <2>1, <3>1
  <2>4. CASE owner[s] = current
    <3>1. writer[s] \cup {current} = writer[s]
      BY <2>1, <2>4
    <3>2. writer' = writer
      BY <1>1, <2>2, <3>1
    <3> QED
      BY <2>2, <3>2
  <2> QED
    BY <2>2, <2>3, <2>4
<1>8. ASSUME NEW s \in Sections, Leaves(s) \/ Quits(s)
      PROVE  [Abstract!Next]_<<writer, readers>>
  <2>1. Holds(s) /\ (LetGo(s) \/ UNCHANGED <<writer, readers>>)
    BY <1>8 DEF Leaves, Quits, Holds
  <2> QED
    BY <1>1, <1>5, <2>1
<1> QED
  BY <1>3, <1>4, <1>6, <1>7, <1>8, EveryLocksStep DEF Steps, LocksStep

------------------------------------------------------------------------------
(* The theorems.                                                            *)

\* Every variable has its type in every reachable state.
THEOREM LocksTypeCorrect == ASSUME LocksAssumption PROVE Spec => []TypeOK
<1>1. BooksInv => TypeOK
  BY DEF BooksInv
<1> QED
  BY <1>1, BooksAlwaysKept, PTL

\* However many threads there are and whatever modes they sleep in, the two words of a
\* critical section and the entries its holder has still to leave agree, and whoever
\* is listed as asleep stands on the call that takes its lock back
\* (EnterCriticalSection, LeaveCriticalSection, SleepConditionVariableCS, threads.cpp).
THEOREM BooksAreAlwaysTrue == ASSUME LocksAssumption PROVE Spec => []BooksAreTrue
<1>1. BooksInv => BooksAreTrue
  BY DEF BooksInv, BooksAreTrue
<1> QED
  BY <1>1, BooksAlwaysKept, PTL

THEOREM WordAlwaysTells ==
  ASSUME LocksAssumption, Exclusively PROVE Spec => [](BooksInv /\ WordInv)
<1>1. Init => BooksInv /\ WordInv
  BY BooksStart, WordStart
<1>2. BooksInv /\ WordInv /\ [Next]_vars => (BooksInv /\ WordInv)'
  BY BooksStep, WordStep
<1> QED
  BY <1>1, <1>2, PTL DEF Spec

\* When locks are slept with only when held exclusively, the word of an SRW lock is 0,
\* its writer's or the number of its readers, as the comment on take_srw has it.
THEOREM WordIsTheHolders ==
  ASSUME LocksAssumption, Exclusively PROVE Spec => []WordTellsHolders
<1>1. BooksInv /\ WordInv => WordTellsHolders
  BY DEF WordInv
<1> QED
  BY <1>1, WordAlwaysTells, PTL

\* Then the hooks implement readers-writer locks, re-entered sections included: no
\* thread is given a lock that another has in a conflicting mode.
THEOREM HooksImplementLocks ==
  ASSUME LocksAssumption, Exclusively PROVE Spec => LocksImplementRwLock
<1>1. Init => Abstract!Init
  BY AbstractStart
<1>2. BooksInv /\ WordInv /\ [Next]_vars => [Abstract!Next]_<<writer, readers>>
  BY AbstractStep
<1> QED
  BY <1>1, <1>2, WordAlwaysTells, PTL DEF Spec, LocksImplementRwLock, Abstract!Spec

(****************************************************************************)
(* SPAWNED PROCESSES: SpawnWait                                             *)
(****************************************************************************)

------------------------------------------------------------------------------
(* The inductive invariant.                                                 *)

HistoryType ==
    /\ spawned \in [Procs -> [child : Procs \cup {None}, result : Codes \cup {CannotFinish}]]
    /\ told \in [Procs -> SUBSET Codes]

\* Nobody holds a handle to itself or to an elder.
Younger == \A p, c \in Procs : c \in handles[p] => p < c /\ c <= nprocs

\* A loop never gives a slice to the process it leaves out, but to the one it is at; the loop below is in that
\* process's slice, and the loop at the bottom leaves nobody out.
LoopsNest ==
    /\ frames[1].except = None
    /\ \A k \in 1 .. Depth : frames[k].current # None =>
          /\ frames[k].current # frames[k].except
          /\ frames[k].current = frames[k].at /\ frames[k].at <= nprocs
    /\ \A k \in 1 .. Depth - 1 : /\ frames[k + 1].except = frames[k].current
                                 /\ frames[k].current \in Spawners

\* Who the loop on top has passed by without anything moving is stuck, or left out.
PassedIsStuck ==
    /\ Top.current = None /\ ~Top.progress
          => \A p \in Alive : p < Top.at /\ p # Top.except => Stuck(p)
    /\ phase = "deadlock" => Top.current = None /\ ~Top.progress /\ Top.at > nprocs /\ Depth = 1

LoopInv == SpawnTypeOK /\ HistoryType /\ Younger /\ LoopsNest /\ PassedIsStuck

\* A process in the middle of a hook, in a loop below, has not ended.
PausedLives == \A k \in 1 .. Depth - 1 : ~zombie[frames[k].current]

\* Whose slice it is lives, in the loop on top too.
InSliceLives == Top.current # None => ~zombie[Top.current]

ToldInv == InSliceLives /\ SpawnTellsTheCode /\ OneExitCode

------------------------------------------------------------------------------
(* The stack of loops.                                                      *)

FramesTyped ==
    /\ frames \in Seq(Frame) /\ Depth \in 1 .. MaxFrames
    /\ \A k \in 1 .. Depth : frames[k].at <= nprocs + 1
    /\ \A k \in 1 .. Depth - 1 : frames[k].current # None

\* The loop on top goes on in this way, ...
TurnsTo(f) ==
    /\ Step(f) /\ f \in Frame /\ f.except = Top.except /\ f.at <= nprocs + 1
    /\ f.current # None => f.current # f.except /\ f.current = f.at /\ f.at <= nprocs

\* ... or returns, ...
Pops == Depth > 1 /\ frames' = SubSeq(frames, 1, Depth - 1)

\* ... or another begins, in the slice of a process that spawns.
Pushes(p, c) ==
    /\ Top.current = p /\ p \in Spawners /\ Depth < MaxFrames
    /\ frames' = Append(frames, Loop(c, p))

\* ... or what the root threw reaches the loop at k, in a slice of another process.
Unwinds(k) ==
    /\ k \in 1 .. Depth /\ frames[k].current # None
    /\ frames' = Append(SubSeq(frames, 1, k - 1), Moved(frames[k]))

FramesStep ==
    /\ nprocs' \in Nat /\ nprocs <= nprocs'
    /\ \/ UNCHANGED frames
       \/ \E f \in Frame : TurnsTo(f)
       \/ Pops
       \/ \E p, c \in Procs : Pushes(p, c)
       \/ \E k \in 1 .. Depth : Unwinds(k)

LEMMA FrameFacts ==
  ASSUME SpawnWaitAssumption, FramesTyped
  PROVE  /\ MaxProcs \in Nat /\ MaxFrames \in Nat /\ Len(frames) \in Nat \ {0}
         /\ Depth = Len(frames) /\ Depth \in 1 .. Len(frames)
         /\ \A k \in 1 .. Depth :
               /\ frames[k] \in Frame
               /\ frames[k].target \in Procs /\ frames[k].except \in Procs \cup {None}
               /\ frames[k].at \in Nat /\ frames[k].progress \in BOOLEAN
               /\ frames[k].current \in Procs \cup {None}
         /\ Top = frames[Depth]
<1>1. /\ MaxProcs \in Nat /\ MaxFrames \in Nat /\ Len(frames) \in Nat \ {0}
      /\ Depth = Len(frames) /\ Depth \in 1 .. Len(frames)
  BY DEF SpawnWaitAssumption, FramesTyped, Depth
<1>2. \A k \in 1 .. Depth : frames[k] \in Frame
  BY <1>1, ElementOfSeq DEF FramesTyped
<1>3. \A f \in Frame : /\ f.target \in Procs /\ f.except \in Procs \cup {None}
                       /\ f.at \in 0 .. MaxProcs + 1 /\ f.progress \in BOOLEAN
                       /\ f.current \in Procs \cup {None}
  BY DEF Frame
<1>4. \A n \in 0 .. MaxProcs + 1 : n \in Nat
  BY <1>1
<1> QED
  BY <1>1, <1>2, <1>3, <1>4 DEF Top

\* What each way leaves of the loops.
LEMMA TurnedFrames ==
  ASSUME SpawnWaitAssumption, FramesTyped, NEW f \in Frame, Step(f)
  PROVE  /\ frames' \in Seq(Frame) /\ Len(frames') = Depth /\ frames'[Depth] = f
         /\ \A k \in 1 .. Depth - 1 : frames'[k] = frames[k]
<1>1. frames \in Seq(Frame) /\ Depth \in 1 .. Len(frames) /\ Depth = Len(frames)
  BY FrameFacts DEF FramesTyped
<1>2. frames' = [frames EXCEPT ![Depth] = f]
  BY DEF Step
<1>3. \A j \in 1 .. Len(frames) : frames'[j] = IF j = Depth THEN f ELSE frames[j]
  BY <1>1, <1>2, ExceptSeq
<1>4. frames' \in Seq(Frame) /\ Len(frames') = Len(frames)
  BY <1>1, <1>2, ExceptSeq
<1>5. \A k \in 1 .. Depth - 1 : k \in 1 .. Len(frames) /\ k # Depth
  BY <1>1
<1> QED
  BY <1>1, <1>3, <1>4, <1>5

LEMMA PoppedFrames ==
  ASSUME SpawnWaitAssumption, FramesTyped, Pops
  PROVE  /\ frames' \in Seq(Frame) /\ Len(frames') = Depth - 1
         /\ \A k \in 1 .. Depth - 1 : frames'[k] = frames[k]
<1>1. Depth \in Nat /\ Depth > 1 /\ \A k \in 1 .. Depth : frames[k] \in Frame
  BY FrameFacts DEF Pops
<1>2. 1 \in Int /\ Depth - 1 \in Int /\ \A k \in 1 .. Depth - 1 : frames[k] \in Frame
  BY <1>1
<1>3. /\ SubSeq(frames, 1, Depth - 1) \in Seq(Frame)
      /\ Len(SubSeq(frames, 1, Depth - 1)) =
            IF 1 <= Depth - 1 THEN (Depth - 1) - 1 + 1 ELSE 0
      /\ \A k \in 1 .. (Depth - 1) - 1 + 1 :
            SubSeq(frames, 1, Depth - 1)[k] = frames[1 + k - 1]
  BY <1>2, SubSeqProperties
<1>4. /\ (Depth - 1) - 1 + 1 = Depth - 1 /\ 1 <= Depth - 1
      /\ \A k \in 1 .. Depth - 1 : 1 + k - 1 = k
  BY <1>1
<1> QED
  BY <1>3, <1>4 DEF Pops

LEMMA PushedFrames ==
  ASSUME SpawnWaitAssumption, FramesTyped, NEW f \in Frame, frames' = Append(frames, f)
  PROVE  /\ frames' \in Seq(Frame) /\ Len(frames') = Depth + 1 /\ frames'[Depth + 1] = f
         /\ \A k \in 1 .. Depth : frames'[k] = frames[k]
BY FrameFacts, AppendProperties DEF FramesTyped

LEMMA UnwoundFrames ==
  ASSUME SpawnWaitAssumption, FramesTyped, LoopsNest, nprocs \in Procs,
         NEW k \in 1 .. Depth, Unwinds(k)
  PROVE  /\ frames' \in Seq(Frame) /\ Len(frames') = k /\ frames'[k] = Moved(frames[k])
         /\ \A j \in 1 .. k - 1 : frames'[j] = frames[j]
         /\ Moved(frames[k]).except = frames[k].except /\ Moved(frames[k]).current = None
         /\ Moved(frames[k]).at <= nprocs + 1 /\ Moved(frames[k]).at \in Nat
         /\ Moved(frames[k]).progress
<1>1. /\ MaxProcs \in Nat /\ nprocs \in Nat /\ nprocs <= MaxProcs
      /\ k \in Nat \ {0} /\ k <= Depth /\ Depth \in Nat
      /\ frames[k] \in Frame /\ frames[k].at \in Nat /\ frames[k].at <= nprocs
      /\ \A j \in 1 .. Depth : frames[j] \in Frame
  BY FrameFacts DEF Procs, LoopsNest, Unwinds
<1>2. /\ Moved(frames[k]) \in Frame
      /\ Moved(frames[k]).except = frames[k].except /\ Moved(frames[k]).current = None
      /\ Moved(frames[k]).at <= nprocs + 1 /\ Moved(frames[k]).at \in Nat
      /\ Moved(frames[k]).progress
  <2>1. PICK f \in Frame : f = frames[k]
    BY <1>1
  <2>2. f.at \in Nat /\ f.at + 1 \in 0 .. MaxProcs + 1 /\ f.at + 1 <= nprocs + 1 /\ f.at + 1 \in Nat
    BY <1>1, <2>1
  <2>3. /\ Passed(f) \in Frame /\ Passed(f).at = f.at + 1 /\ Passed(f).current = None
        /\ Passed(f).except = f.except
    BY <2>2 DEF Passed, Frame, None
  <2>4. /\ Moved(f) \in Frame /\ Moved(f).at = f.at + 1 /\ Moved(f).current = None
        /\ Moved(f).except = f.except /\ Moved(f).progress
    BY <2>3 DEF Moved, Frame
  <2> QED
    BY <2>1, <2>2, <2>4
<1> DEFINE below == SubSeq(frames, 1, k - 1)
<1>3. /\ below \in Seq(Frame) /\ Len(below) = k - 1
      /\ \A j \in 1 .. k - 1 : below[j] = frames[j]
  <2>1. 1 \in Int /\ k - 1 \in Int /\ \A j \in 1 .. k - 1 : frames[j] \in Frame
    BY <1>1
  <2>2. /\ below \in Seq(Frame)
        /\ Len(below) = IF 1 <= k - 1 THEN (k - 1) - 1 + 1 ELSE 0
        /\ \A j \in 1 .. (k - 1) - 1 + 1 : below[j] = frames[1 + j - 1]
    BY <2>1, SubSeqProperties
  <2>3. /\ (IF 1 <= k - 1 THEN (k - 1) - 1 + 1 ELSE 0) = k - 1
        /\ (k - 1) - 1 + 1 = k - 1 /\ \A j \in 1 .. k - 1 : 1 + j - 1 = j
    BY <1>1
  <2> QED
    BY <2>2, <2>3
<1>4. frames' = Append(below, Moved(frames[k]))
  BY DEF Unwinds
<1> HIDE DEF below
<1>5. PICK f \in Frame : f = Moved(frames[k])
  BY <1>2
<1>6. /\ frames' \in Seq(Frame) /\ Len(frames') = Len(below) + 1
      /\ frames'[Len(below) + 1] = f
      /\ \A j \in 1 .. Len(below) : frames'[j] = below[j]
  BY <1>3, <1>4, <1>5, AppendProperties
<1>7. Len(below) + 1 = k
  BY <1>1, <1>3
<1> QED
  BY <1>2, <1>3, <1>5, <1>6, <1>7

LEMMA NewLoop ==
  ASSUME SpawnWaitAssumption, NEW c \in Procs, NEW p \in Procs
  PROVE  /\ Loop(c, p) \in Frame /\ Loop(c, p).except = p
         /\ Loop(c, p).current = None /\ Loop(c, p).at = 1
         /\ ~Loop(c, p).progress
BY DEF SpawnWaitAssumption, Loop, Frame, None

\* The loops nest as they should after any such step.
LEMMA FramesKept ==
  ASSUME SpawnWaitAssumption, FramesTyped, LoopsNest, nprocs \in Procs, FramesStep
  PROVE  FramesTyped' /\ LoopsNest'
<1>1. /\ MaxProcs \in Nat /\ MaxFrames \in Nat /\ Depth \in Nat \ {0}
      /\ Depth = Len(frames) /\ Depth <= MaxFrames
      /\ frames \in Seq(Frame) /\ Top = frames[Depth]
      /\ nprocs \in Nat \ {0} /\ nprocs' \in Nat /\ nprocs <= nprocs'
      /\ \A k \in 1 .. Depth : frames[k] \in Frame /\ frames[k].at \in Nat
  BY FrameFacts DEF FramesTyped, FramesStep, Procs
<1>2. /\ \A k \in 1 .. Depth : /\ frames[k].at <= nprocs + 1
                               /\ frames[k].current # None =>
                                    /\ frames[k].current # frames[k].except
                                    /\ frames[k].current = frames[k].at
                                    /\ frames[k].at <= nprocs
      /\ \A k \in 1 .. Depth - 1 : /\ frames[k].current # None
                                   /\ frames[k + 1].except = frames[k].current
                                   /\ frames[k].current \in Spawners
      /\ frames[1].except = None
  BY DEF FramesTyped, LoopsNest
<1> DEFINE Good(fs, d) ==
        /\ fs \in Seq(Frame) /\ d = Len(fs) /\ d \in 1 .. MaxFrames
        /\ \A k \in 1 .. d : /\ fs[k].at <= nprocs' + 1
                             /\ fs[k].current # None => /\ fs[k].current # fs[k].except
                                                        /\ fs[k].current = fs[k].at
                                                        /\ fs[k].at <= nprocs'
        /\ \A k \in 1 .. d - 1 : /\ fs[k].current # None
                                 /\ fs[k + 1].except = fs[k].current
                                 /\ fs[k].current \in Spawners
        /\ fs[1].except = None
<1>3. SUFFICES ASSUME NEW fs, fs = frames'
               PROVE  \E d : Good(fs, d)
  <2>1. PICK d : Good(frames', d)
    BY <1>3
  <2> QED
    BY <2>1 DEF FramesTyped, LoopsNest, Depth
<1>4. CASE UNCHANGED frames
  <2>1. \A k \in 1 .. Depth : /\ frames[k].at <= nprocs' + 1
                              /\ frames[k].at <= nprocs => frames[k].at <= nprocs'
    BY <1>1, <1>2
  <2>2. fs = frames /\ Depth \in 1 .. MaxFrames
    BY <1>1, <1>3, <1>4
  <2>3. Good(fs, Depth)
    BY <1>1, <1>2, <2>1, <2>2
  <2> QED
    BY <2>3
<1>5. ASSUME NEW f \in Frame, TurnsTo(f)
      PROVE  \E d : Good(fs, d)
  <2>1. /\ frames' \in Seq(Frame) /\ Len(frames') = Depth /\ frames'[Depth] = f
        /\ \A k \in 1 .. Depth - 1 : frames'[k] = frames[k]
        /\ f.except = frames[Depth].except /\ f.at <= nprocs + 1
        /\ f.current # None => f.current # f.except /\ f.current = f.at /\ f.at <= nprocs
        /\ f.at \in Nat
    BY <1>1, <1>5, TurnedFrames DEF TurnsTo, Frame
  <2>2. \A k \in 1 .. Depth : /\ frames'[k].at <= nprocs' + 1
                              /\ frames'[k].except = frames[k].except
                              /\ frames'[k].current # None =>
                                   /\ frames'[k].current # frames'[k].except
                                   /\ frames'[k].current = frames'[k].at
                                   /\ frames'[k].at <= nprocs'
    <3> SUFFICES ASSUME NEW k \in 1 .. Depth
                 PROVE  /\ frames'[k].at <= nprocs' + 1
                        /\ frames'[k].except = frames[k].except
                        /\ frames'[k].current # None =>
                             /\ frames'[k].current # frames'[k].except
                             /\ frames'[k].current = frames'[k].at
                             /\ frames'[k].at <= nprocs'
      OBVIOUS
    <3>1. CASE k = Depth
      BY <1>1, <2>1, <3>1
    <3>2. CASE k # Depth
      <4>1. k \in 1 .. Depth - 1
        BY <1>1, <3>2
      <4> QED
        BY <1>1, <1>2, <2>1, <4>1
    <3> QED
      BY <3>1, <3>2
  <2>3. \A k \in 1 .. Depth - 1 : k \in 1 .. Depth /\ k + 1 \in 1 .. Depth
    BY <1>1
  <2>4. 1 \in 1 .. Depth /\ Depth \in 1 .. MaxFrames
    BY <1>1
  <2>5. \A k \in 1 .. Depth - 1 : /\ frames'[k].current # None
                                  /\ frames'[k + 1].except = frames'[k].current
                                  /\ frames'[k].current \in Spawners
    BY <1>2, <2>1, <2>2, <2>3
  <2>6. Good(fs, Depth)
    BY <1>2, <1>3, <2>1, <2>2, <2>4, <2>5
  <2> QED
    BY <2>6
<1>6. CASE Pops
  <2>1. /\ frames' \in Seq(Frame) /\ Len(frames') = Depth - 1 /\ Depth > 1
        /\ \A k \in 1 .. Depth - 1 : frames'[k] = frames[k]
    BY <1>6, PoppedFrames DEF Pops
  <2>2. /\ Depth - 1 \in 1 .. MaxFrames /\ 1 \in 1 .. Depth - 1
        /\ \A k \in 1 .. Depth - 1 : k \in 1 .. Depth
        /\ \A k \in 1 .. (Depth - 1) - 1 : k \in 1 .. Depth - 1 /\ k + 1 \in 1 .. Depth - 1
    BY <1>1, <2>1
  <2>3. \A k \in 1 .. Depth - 1 : /\ frames[k].at <= nprocs' + 1
                                  /\ frames[k].at <= nprocs => frames[k].at <= nprocs'
    BY <1>1, <1>2, <2>2
  <2>4. Good(fs, Depth - 1)
    BY <1>2, <1>3, <2>1, <2>2, <2>3
  <2> QED
    BY <2>4
<1>7. ASSUME NEW p \in Procs, NEW c \in Procs, Pushes(p, c)
      PROVE  \E d : Good(fs, d)
  <2>1. /\ Loop(c, p) \in Frame /\ Loop(c, p).except = p
        /\ Loop(c, p).current = None /\ Loop(c, p).at = 1
    BY NewLoop
  <2>2. /\ frames' \in Seq(Frame) /\ Len(frames') = Depth + 1
        /\ frames'[Depth + 1] = Loop(c, p)
        /\ \A k \in 1 .. Depth : frames'[k] = frames[k]
        /\ frames[Depth].current = p /\ p \in Spawners /\ Depth < MaxFrames
    BY <1>1, <1>7, <2>1, PushedFrames DEF Pushes
  <2>3. p # None
    BY <1>1 DEF Procs, None
  <2>4. /\ Depth + 1 \in 1 .. MaxFrames /\ 1 \in 1 .. Depth /\ (Depth + 1) - 1 = Depth
        /\ \A k \in 1 .. Depth + 1 : k = Depth + 1 \/ k \in 1 .. Depth
        /\ \A k \in 1 .. Depth : k = Depth \/ (k \in 1 .. Depth - 1 /\ k + 1 \in 1 .. Depth)
        /\ 1 <= nprocs' + 1
    <3>1. Depth + 1 \in 1 .. MaxFrames /\ 1 \in 1 .. Depth /\ (Depth + 1) - 1 = Depth
      BY <1>1, <2>2
    <3>2. \A k \in 1 .. Depth + 1 : k = Depth + 1 \/ k \in 1 .. Depth
      BY <1>1
    <3>3. \A k \in 1 .. Depth : k = Depth \/ (k \in 1 .. Depth - 1 /\ k + 1 \in 1 .. Depth)
      BY <1>1
    <3>4. 1 <= nprocs' + 1
      <4>1. \A n \in Nat : 1 <= n + 1
        OBVIOUS
      <4> QED
        BY <1>1, <4>1
    <3> QED
      BY <3>1, <3>2, <3>3, <3>4
  <2>5. \A k \in 1 .. Depth : /\ frames[k].at <= nprocs' + 1
                              /\ frames[k].at <= nprocs => frames[k].at <= nprocs'
    BY <1>1, <1>2
  <2>6. \A k \in 1 .. Depth + 1 : /\ frames'[k].at <= nprocs' + 1
                                  /\ frames'[k].current # None =>
                                        /\ frames'[k].current # frames'[k].except
                                        /\ frames'[k].current = frames'[k].at
                                        /\ frames'[k].at <= nprocs'
    BY <1>2, <2>1, <2>2, <2>4, <2>5
  <2>7. \A k \in 1 .. Depth : /\ frames'[k].current # None
                              /\ frames'[k + 1].except = frames'[k].current
                              /\ frames'[k].current \in Spawners
    BY <1>2, <2>1, <2>2, <2>3, <2>4
  <2>8. Good(fs, Depth + 1)
    BY <1>2, <1>3, <2>2, <2>4, <2>6, <2>7
  <2> QED
    BY <2>8
<1>8. ASSUME NEW n \in 1 .. Depth, Unwinds(n)
      PROVE  \E d : Good(fs, d)
  <2>1. PICK f : f = Moved(frames[n])
    OBVIOUS
  <2>2. /\ frames' \in Seq(Frame) /\ Len(frames') = n /\ frames'[n] = f
        /\ \A j \in 1 .. n - 1 : frames'[j] = frames[j]
        /\ f.except = frames[n].except /\ f.current = None /\ f.at <= nprocs + 1
        /\ f.at \in Nat
    BY <1>8, <2>1, UnwoundFrames
  <2>3. /\ n \in 1 .. MaxFrames /\ 1 \in 1 .. n
        /\ \A k \in 1 .. n : k = n \/ k \in 1 .. n - 1
        /\ \A k \in 1 .. n - 1 : k \in 1 .. Depth - 1 /\ k \in 1 .. Depth /\ k + 1 \in 1 .. n
    BY <1>1, <1>8
  <2>4. \A k \in 1 .. n : /\ frames'[k].at <= nprocs' + 1
                          /\ frames'[k].except = frames[k].except
                          /\ frames'[k].current # None =>
                                /\ frames'[k].current # frames'[k].except
                                /\ frames'[k].current = frames'[k].at
                                /\ frames'[k].at <= nprocs'
    <3> SUFFICES ASSUME NEW k \in 1 .. n
                 PROVE  /\ frames'[k].at <= nprocs' + 1
                        /\ frames'[k].except = frames[k].except
                        /\ frames'[k].current # None =>
                              /\ frames'[k].current # frames'[k].except
                              /\ frames'[k].current = frames'[k].at
                              /\ frames'[k].at <= nprocs'
      OBVIOUS
    <3>1. CASE k = n
      BY <1>1, <2>2, <3>1
    <3>2. CASE k # n
      <4>1. k \in 1 .. n - 1 /\ k \in 1 .. Depth
        BY <2>3, <3>2
      <4> QED
        BY <1>1, <1>2, <2>2, <4>1
    <3> QED
      BY <3>1, <3>2
  <2>5. \A k \in 1 .. n - 1 : /\ frames'[k].current # None
                              /\ frames'[k + 1].except = frames'[k].current
                              /\ frames'[k].current \in Spawners
    BY <1>2, <2>2, <2>3, <2>4
  <2>6. Good(fs, n)
    BY <1>2, <1>3, <2>2, <2>3, <2>4, <2>5
  <2> QED
    BY <2>6
<1> QED
  BY <1>4, <1>5, <1>6, <1>7, <1>8 DEF FramesStep

------------------------------------------------------------------------------
(* What a step does.                                                        *)

DataTyped ==
    /\ nprocs \in Procs
    /\ ppid \in [Procs -> Procs \cup {None}]
    /\ zombie \in [Procs -> BOOLEAN] /\ exit_code \in [Procs -> Codes]
    /\ handles \in [Procs -> SUBSET Procs]
    /\ waiting \in [Procs -> Procs \cup {None}]
    /\ phase \in {"run", "over", "deadlock", "crashed"}

LEMMA TypeParts == SpawnTypeOK <=> DataTyped /\ FramesTyped
BY DEF SpawnTypeOK, DataTyped, FramesTyped

LEMMA TopFacts ==
  ASSUME SpawnWaitAssumption, LoopInv
  PROVE  /\ MaxProcs \in Nat \ {0} /\ nprocs \in Nat \ {0} /\ nprocs <= MaxProcs
         /\ Depth \in Nat \ {0} /\ Depth = Len(frames) /\ Top = frames[Depth]
         /\ Top \in Frame /\ Top.at \in Nat /\ Top.at <= nprocs + 1
         /\ Top.target \in Procs /\ Top.except \in Procs \cup {None}
         /\ Top.progress \in BOOLEAN /\ Top.current \in Procs \cup {None}
         /\ Top.current # None => /\ Top.current # Top.except
                                  /\ Top.current = Top.at /\ Top.at <= nprocs
<1>1. FramesTyped /\ LoopsNest /\ nprocs \in Procs
  BY TypeParts DEF LoopInv, DataTyped
<1>2. /\ MaxProcs \in Nat \ {0} /\ nprocs \in Nat \ {0} /\ nprocs <= MaxProcs
  BY <1>1 DEF SpawnWaitAssumption, Procs
<1>3. /\ Depth \in Nat \ {0} /\ Depth = Len(frames) /\ Top = frames[Depth]
      /\ Depth \in 1 .. Depth /\ Depth \in 1 .. Len(frames)
  BY <1>1, FrameFacts
<1>4. /\ Top \in Frame /\ Top.at \in Nat
      /\ Top.target \in Procs /\ Top.except \in Procs \cup {None}
      /\ Top.progress \in BOOLEAN /\ Top.current \in Procs \cup {None}
  BY <1>1, <1>3, FrameFacts
<1>5. Top.at <= nprocs + 1
  BY <1>1, <1>3 DEF FramesTyped
<1>6. Top.current # None => /\ Top.current # Top.except
                            /\ Top.current = Top.at /\ Top.at <= nprocs
  BY <1>1, <1>3 DEF LoopsNest
<1> QED
  BY <1>2, <1>3, <1>4, <1>5, <1>6

LEMMA PassingTop ==
  ASSUME SpawnWaitAssumption, LoopInv, Top.at <= nprocs,
         NEW f \in {Passed(Top), Moved(Top)}
  PROVE  /\ f \in Frame /\ f.at = Top.at + 1 /\ f.current = None /\ f.except = Top.except
         /\ f = Passed(Top) => f.progress = Top.progress
         /\ f = Moved(Top) => f.progress
         /\ Step(f) => TurnsTo(f)
<1>1. /\ MaxProcs \in Nat /\ nprocs \in Nat /\ nprocs <= MaxProcs
      /\ Top \in Frame /\ Top.at \in Nat
  BY TopFacts
<1>2. Top.at + 1 \in 0 .. MaxProcs + 1 /\ Top.at + 1 <= nprocs + 1
  BY <1>1
<1>3. /\ Passed(Top) \in Frame /\ Passed(Top).at = Top.at + 1 /\ Passed(Top).current = None
      /\ Passed(Top).except = Top.except /\ Passed(Top).progress = Top.progress
  BY <1>1, <1>2 DEF Passed, Frame, None
<1>4. /\ Moved(Top) \in Frame /\ Moved(Top).at = Top.at + 1 /\ Moved(Top).current = None
      /\ Moved(Top).except = Top.except /\ Moved(Top).progress
  BY <1>3 DEF Moved, Frame
<1> QED
  BY <1>2, <1>3, <1>4 DEF TurnsTo

LEMMA KnownCodes ==
  ASSUME SpawnWaitAssumption
  PROVE  /\ ExitCodes \subseteq Codes /\ Crashed \in Codes /\ 0 \in Codes
         /\ CannotFinish \notin Codes
BY DEF SpawnWaitAssumption, Codes, Crashed, CannotFinish

\* Process x ends: the one whose slice it is, a child of it that it terminates, or the
\* one in whose slice, below, what the root threw is caught.
Ends(x, code) ==
    /\ MakeZombie(x, code) /\ code \in Codes
    /\ UNCHANGED <<waiting, history>>
    /\ \/ x = Top.current /\ Step(Moved(Top))
       \/ /\ Top.current \in Terminators /\ x \in handles[Top.current] /\ ~zombie[x]
          /\ UNCHANGED frames
       \/ \E k \in 1 .. Depth : x = frames[k].current /\ Unwinds(k)

ExecuteFacts ==
    /\ DataTyped' /\ HistoryType' /\ Younger' /\ FramesStep
    /\ phase = "run" /\ phase' # "deadlock" /\ Top.current \in Procs
    /\ \/ UNCHANGED frames /\ nprocs' \in {nprocs, nprocs + 1}
       \/ Step(Moved(Top)) /\ UNCHANGED nprocs
       \/ Pushes(Top.current, nprocs + 1) /\ nprocs' = nprocs + 1
       \/ (\E k \in 1 .. Depth : Unwinds(k)) /\ UNCHANGED nprocs
    /\ UNCHANGED spawned
    /\ \/ \E x \in Procs, code \in Codes : Ends(x, code) /\ UNCHANGED told
       \/ UNCHANGED <<zombie, exit_code, told>>
       \/ /\ UNCHANGED <<zombie, exit_code, frames>>
          /\ \E c \in Procs : zombie[c] /\ told' = [told EXCEPT ![c] = @ \cup {exit_code[c]}]

LEMMA ExecuteStep ==
  ASSUME SpawnWaitAssumption, LoopInv, Execute
  PROVE  ExecuteFacts
<1>1. /\ DataTyped /\ FramesTyped /\ HistoryType /\ Younger
      /\ MaxProcs \in Nat \ {0} /\ nprocs \in Nat \ {0} /\ nprocs <= MaxProcs
      /\ Top.at \in Nat
      /\ Top.current # None => Top.current = Top.at /\ Top.at <= nprocs
  BY TypeParts, TopFacts DEF LoopInv
<1>2. \A x \in Procs : x # None /\ x \in Nat
  BY <1>1 DEF Procs, None
<1>3. nprocs' = nprocs => nprocs' \in Nat /\ nprocs <= nprocs'
  BY <1>1
<1>4. ASSUME Step(Moved(Top)), Top.current \in Procs, UNCHANGED nprocs
      PROVE  FramesStep
  <2>1. Top.at <= nprocs
    BY <1>1, <1>2, <1>4
  <2>2. TurnsTo(Moved(Top)) /\ Moved(Top) \in Frame
    BY <1>4, <2>1, PassingTop
  <2> QED
    BY <1>3, <1>4, <2>2 DEF FramesStep
<1>5. ASSUME NEW x \in Procs, NEW code \in Codes, MakeZombie(x, code)
      PROVE  /\ nprocs' \in Procs /\ ppid' \in [Procs -> Procs \cup {None}]
             /\ zombie' \in [Procs -> BOOLEAN] /\ exit_code' \in [Procs -> Codes]
             /\ handles' \in [Procs -> SUBSET Procs]
             /\ UNCHANGED nprocs /\ Younger'
  BY <1>1, <1>5 DEF MakeZombie, DataTyped, Younger
<1>6. UNCHANGED history => HistoryType'
  BY <1>1 DEF history, HistoryType
<1>7. UNCHANGED procVars => /\ nprocs' \in Procs /\ ppid' \in [Procs -> Procs \cup {None}]
                            /\ zombie' \in [Procs -> BOOLEAN]
                            /\ exit_code' \in [Procs -> Codes]
                            /\ handles' \in [Procs -> SUBSET Procs]
                            /\ UNCHANGED <<nprocs, zombie, exit_code>> /\ Younger'
  BY <1>1 DEF procVars, DataTyped, Younger
<1>8. UNCHANGED frames /\ UNCHANGED nprocs => FramesStep
  BY <1>3 DEF FramesStep
<1>9. ASSUME NEW p \in Procs, InSlice(p)
      PROVE  Top.current = p /\ phase = "run" /\ p <= nprocs
  BY <1>1, <1>2, <1>9 DEF InSlice, Running
<1>10. ASSUME NEW p \in Procs, EndSlice(p)
       PROVE  ExecuteFacts
  <2>1. /\ InSlice(p) /\ Step(Moved(Top))
        /\ UNCHANGED <<procVars, waiting, phase, history>>
    BY <1>10 DEF EndSlice
  <2>2. UNCHANGED <<spawned, told>>
    BY <2>1 DEF history
  <2> QED
    BY <1>1, <1>4, <1>6, <1>7, <1>9, <2>1, <2>2 DEF ExecuteFacts, DataTyped
<1>11. ASSUME NEW p \in Procs, Exit(p)
       PROVE  ExecuteFacts
  <2>1. PICK code \in Codes :
           /\ InSlice(p) /\ MakeZombie(p, code) /\ Step(Moved(Top))
           /\ UNCHANGED <<waiting, phase, history>>
    BY <1>11, KnownCodes DEF Exit
  <2>2. UNCHANGED <<spawned, told>>
    BY <2>1 DEF history
  <2>3. Ends(p, code)
    BY <1>9, <2>1 DEF Ends
  <2> QED
    BY <1>1, <1>4, <1>5, <1>6, <1>9, <2>1, <2>2, <2>3 DEF ExecuteFacts, DataTyped
<1>12. ASSUME NEW p \in Procs, Crash(p)
       PROVE  ExecuteFacts
  <2>1. InSlice(p) /\ UNCHANGED <<waiting, history>>
    BY <1>12 DEF Crash
  <2>2. UNCHANGED <<spawned, told>>
    BY <2>1 DEF history
  <2>3. CASE phase' = "crashed" /\ UNCHANGED <<procVars, frames>>
    BY <1>1, <1>6, <1>7, <1>8, <1>9, <2>1, <2>2, <2>3 DEF ExecuteFacts, DataTyped
  <2>4. ASSUME NEW k \in Blamed, CrashStopsAt(k)
        PROVE  ExecuteFacts
    <3> DEFINE x == frames[k].current
    <3>1. /\ k \in 1 .. Depth /\ MakeZombie(x, Crashed) /\ UNCHANGED phase
          /\ frames' = Append(SubSeq(frames, 1, k - 1), Moved(frames[k]))
      BY <2>4 DEF CrashStopsAt, Blamed
    <3>2. x # None /\ x \in Procs \cup {None}
      <4>1. Depth \in Nat /\ \A j \in 1 .. Depth : frames[j].current \in Procs \cup {None}
        BY <1>1, FrameFacts
      <4>2. k = Depth \/ k \in 1 .. Depth - 1
        BY <3>1, <4>1
      <4>3. CASE k = Depth
        BY <1>2, <1>9, <2>1, <3>1, <4>1, <4>3, FrameFacts, <1>1
      <4>4. CASE k \in 1 .. Depth - 1
        BY <1>1, <3>1, <4>1, <4>4 DEF FramesTyped
      <4> QED
        BY <4>2, <4>3, <4>4
    <3>3. Unwinds(k) /\ x \in Procs
      BY <3>1, <3>2 DEF Unwinds
    <3>4. Ends(x, Crashed) /\ Crashed \in Codes
      BY <2>1, <3>1, <3>3, KnownCodes DEF Ends
    <3>5. FramesStep /\ UNCHANGED nprocs
      BY <1>3, <3>1, <3>3 DEF FramesStep, MakeZombie
    <3> HIDE DEF x
    <3> QED
      BY <1>1, <1>5, <1>6, <1>9, <2>1, <2>2, <3>1, <3>3, <3>4, <3>5 DEF ExecuteFacts, DataTyped
  <2> QED
    BY <1>12, <2>3, <2>4 DEF Crash
<1>13. ASSUME NEW p \in Procs, InSlice(p), Start(p, nprocs + 1)
       PROVE  /\ nprocs + 1 \in Procs /\ nprocs' = nprocs + 1
              /\ nprocs' \in Nat /\ nprocs <= nprocs'
              /\ ppid' \in [Procs -> Procs \cup {None}] /\ UNCHANGED <<zombie, exit_code>>
  BY <1>1, <1>13 DEF Start, DataTyped
<1>14. ASSUME NEW p \in Procs, CreateProcess(p)
       PROVE  ExecuteFacts
  <2>1. /\ InSlice(p) /\ Start(p, nprocs + 1)
        /\ handles' = [handles EXCEPT ![p] = handles[p] \cup {nprocs + 1}]
        /\ UNCHANGED <<waiting, frames, phase, history>>
    BY <1>14 DEF CreateProcess
  <2>2. handles' \in [Procs -> SUBSET Procs]
    BY <1>1, <1>13, <2>1 DEF DataTyped
  <2>3. Younger'
    <3> SUFFICES ASSUME NEW q \in Procs, NEW c \in Procs, c \in handles'[q]
                 PROVE  q < c /\ c <= nprocs'
      BY DEF Younger
    <3>1. q \in Nat /\ c \in Nat /\ nprocs' = nprocs + 1 /\ p <= nprocs
      BY <1>2, <1>9, <1>13, <2>1
    <3>2. c \in handles[q] \/ (q = p /\ c = nprocs + 1)
      BY <1>1, <2>1 DEF DataTyped
    <3>3. c \in handles[q] => q < c /\ c <= nprocs
      BY <1>1 DEF Younger
    <3> QED
      BY <1>1, <3>1, <3>2, <3>3
  <2>4. FramesStep
    BY <1>13, <2>1 DEF FramesStep
  <2>5. UNCHANGED <<spawned, told>>
    BY <2>1 DEF history
  <2> QED
    BY <1>1, <1>6, <1>9, <1>13, <2>1, <2>2, <2>3, <2>4, <2>5 DEF ExecuteFacts, DataTyped
<1>15. ASSUME NEW p \in Procs, SpawnAndWait(p)
       PROVE  ExecuteFacts
  <2>1. /\ InSlice(p) /\ p \in Spawners /\ Depth < MaxFrames
        /\ Start(p, nprocs + 1)
        /\ frames' = Append(frames, Loop(nprocs + 1, p))
        /\ UNCHANGED <<handles, waiting, phase, history>>
    BY <1>15 DEF SpawnAndWait
  <2>2. Pushes(p, nprocs + 1) /\ Top.current = p
    BY <1>9, <2>1 DEF Pushes
  <2>3. FramesStep
    BY <1>13, <2>1, <2>2 DEF FramesStep
  <2>4. Younger'
    <3> SUFFICES ASSUME NEW q \in Procs, NEW c \in Procs, c \in handles'[q]
                 PROVE  q < c /\ c <= nprocs'
      BY DEF Younger
    <3>1. q < c /\ c <= nprocs
      BY <1>1, <2>1 DEF Younger
    <3> QED
      BY <1>1, <1>2, <1>13, <2>1, <3>1
  <2>5. UNCHANGED <<spawned, told>>
    BY <2>1 DEF history
  <2> QED
    BY <1>1, <1>6, <1>9, <1>13, <2>1, <2>2, <2>3, <2>4, <2>5 DEF ExecuteFacts, DataTyped
<1>16. ASSUME NEW p \in Procs, NEW c \in Procs, WaitForProcess(p, c)
       PROVE  ExecuteFacts
  <2>1. /\ InSlice(p) /\ UNCHANGED <<procVars, phase, history>>
        /\ \/ UNCHANGED <<waiting, frames>>
           \/ waiting' = [waiting EXCEPT ![p] = c] /\ Step(Moved(Top))
    BY <1>16 DEF WaitForProcess
  <2>2. UNCHANGED <<spawned, told>>
    BY <2>1 DEF history
  <2>3. waiting' \in [Procs -> Procs \cup {None}]
    BY <1>1, <2>1 DEF DataTyped
  <2> QED
    BY <1>1, <1>4, <1>6, <1>7, <1>8, <1>9, <2>1, <2>2, <2>3 DEF ExecuteFacts, DataTyped
<1>17. ASSUME NEW p \in Procs, NEW c \in Procs, GetExitCodeProcess(p, c)
       PROVE  ExecuteFacts
  <2>1. /\ InSlice(p) /\ zombie[c]
        /\ told' = [told EXCEPT ![c] = told[c] \cup {exit_code[c]}]
        /\ UNCHANGED <<procVars, waiting, frames, phase, spawned>>
    BY <1>17 DEF GetExitCodeProcess
  <2>2. HistoryType'
    BY <1>1, <2>1 DEF HistoryType, DataTyped
  <2> QED
    BY <1>1, <1>7, <1>8, <1>9, <2>1, <2>2 DEF ExecuteFacts, DataTyped
<1>18. ASSUME NEW p \in Procs, NEW c \in Procs, TerminateProcess(p, c)
       PROVE  ExecuteFacts
  <2>1. PICK code \in Codes :
           /\ InSlice(p) /\ p \in Terminators /\ c \in handles[p] /\ ~zombie[c]
           /\ MakeZombie(c, code)
           /\ UNCHANGED <<waiting, frames, phase, history>>
    BY <1>18, KnownCodes DEF TerminateProcess
  <2>2. UNCHANGED <<spawned, told>>
    BY <2>1 DEF history
  <2>3. Ends(c, code)
    BY <1>9, <2>1 DEF Ends
  <2> QED
    BY <1>1, <1>5, <1>6, <1>8, <1>9, <2>1, <2>2, <2>3 DEF ExecuteFacts, DataTyped
<1> QED
  BY <1>10, <1>11, <1>12, <1>14, <1>15, <1>16, <1>17, <1>18 DEF Execute

\* What the loop on top does leaves the processes as they are, and what they are told.
ScheduleFacts ==
    /\ UNCHANGED <<procVars, told>>
    /\ DataTyped' /\ HistoryType' /\ Younger' /\ FramesStep /\ PassedIsStuck'
    /\ \/ UNCHANGED spawned
       \/ /\ Pops /\ Top.except # None
          /\ \E code \in Codes \cup {CannotFinish} :
                /\ spawned' = [spawned EXCEPT ![Top.except] =
                                  [child |-> Top.target, result |-> code]]
                /\ \/ zombie[Top.target] /\ code = exit_code[Top.target]
                   \/ /\ code = CannotFinish
                      /\ \A q \in Alive : q # Top.except => Stuck(q)
    /\ \/ UNCHANGED frames \/ Pops
       \/ \E f \in Frame : Step(f) /\ (f.current # None => ~zombie[f.current])

LEMMA ScheduleStep ==
  ASSUME SpawnWaitAssumption, LoopInv, Schedule
  PROVE  ScheduleFacts
<1>1. /\ DataTyped /\ FramesTyped /\ HistoryType /\ Younger /\ LoopsNest /\ PassedIsStuck
      /\ MaxProcs \in Nat \ {0} /\ nprocs \in Nat \ {0} /\ nprocs <= MaxProcs
      /\ Depth \in Nat \ {0} /\ Depth = Len(frames) /\ Top = frames[Depth]
      /\ Top \in Frame /\ Top.at \in Nat /\ Top.at <= nprocs + 1
      /\ Top.target \in Procs /\ Top.except \in Procs \cup {None}
      /\ Top.progress \in BOOLEAN /\ Top.current \in Procs \cup {None}
  BY TypeParts, TopFacts DEF LoopInv
<1>2. /\ phase = "run" /\ Top.current = None /\ UNCHANGED <<procVars, told>>
  BY DEF Schedule, Skip, Slice, IdleSlice, EndRound, RoundOver, Looping, Running,
         HookReturns, history
<1>3. \A p \in Alive : p \in Procs /\ p \in Nat /\ p <= nprocs /\ p # None
  BY <1>1 DEF Alive, Made, Procs, None
<1>4. /\ UNCHANGED <<nprocs, ppid, zombie, exit_code, handles>>
      /\ nprocs' \in Nat /\ nprocs <= nprocs'
      /\ Younger' /\ Alive' = Alive
  BY <1>1, <1>2 DEF procVars, Younger, Alive, Made
<1>5. ASSUME waiting' \in [Procs -> Procs \cup {None}],
             phase' \in {"run", "over", "deadlock", "crashed"}
      PROVE  DataTyped'
  BY <1>1, <1>4, <1>5 DEF DataTyped
<1>6. UNCHANGED spawned => HistoryType'
  BY <1>1, <1>2 DEF HistoryType
<1>7. UNCHANGED waiting => waiting' \in [Procs -> Procs \cup {None}]
                           /\ \A p \in Alive : Stuck(p) => Stuck(p)'
  BY <1>1, <1>4 DEF DataTyped, Stuck
<1>8. ASSUME NEW f \in Frame, Step(f)
      PROVE  /\ Top' = f /\ Depth' = Depth
  BY <1>1, <1>8, TurnedFrames DEF Top, Depth
<1>9. ~Top.progress => \A p \in Alive : p < Top.at /\ p # Top.except => Stuck(p)
  BY <1>1, <1>2 DEF PassedIsStuck
<1>10. ASSUME Top.at <= nprocs, Top.at \in Alive /\ Top.at # Top.except => Stuck(Top.at),
              Step(Passed(Top)), UNCHANGED <<waiting, phase, spawned>>
       PROVE  ScheduleFacts
  <2>1. /\ Passed(Top) \in Frame /\ TurnsTo(Passed(Top)) /\ Passed(Top).current = None
        /\ Passed(Top).at = Top.at + 1 /\ Passed(Top).except = Top.except
        /\ Passed(Top).progress = Top.progress
    BY <1>10, PassingTop
  <2>2. FramesStep
    BY <1>4, <2>1 DEF FramesStep
  <2>3. Top' = Passed(Top)
    BY <1>8, <1>10, <2>1
  <2>4. ASSUME ~Top'.progress, NEW p \in Alive', p < Top'.at, p # Top'.except
        PROVE  Stuck(p)'
    <3>1. p \in Alive /\ p \in Nat /\ p < Top.at + 1 /\ p # Top.except /\ ~Top.progress
      BY <1>3, <1>4, <2>1, <2>3, <2>4
    <3>2. p = Top.at \/ p < Top.at
      BY <1>1, <3>1
    <3>3. Stuck(p)
      BY <1>9, <1>10, <3>1, <3>2
    <3> QED
      BY <1>7, <1>10, <3>1, <3>3
  <2>5. PassedIsStuck'
    BY <1>2, <1>10, <2>4 DEF PassedIsStuck
  <2>6. DataTyped'
    BY <1>1, <1>5, <1>7, <1>10 DEF DataTyped
  <2>7. \E f \in Frame : Step(f) /\ (f.current # None => ~zombie[f.current])
    BY <1>10, <2>1
  <2> QED
    BY <1>2, <1>4, <1>6, <1>10, <2>2, <2>5, <2>6, <2>7 DEF ScheduleFacts
<1>11. CASE Skip
  <2>1. /\ Top.at <= nprocs /\ Skipped(Top.at) /\ Step(Passed(Top))
        /\ UNCHANGED <<waiting, phase, spawned>>
    BY <1>11 DEF Skip, history
  <2>2. Top.at \in Alive => Top.at = Top.except
    BY <2>1 DEF Skipped, Alive
  <2> QED
    BY <1>10, <2>1, <2>2
<1>12. ASSUME NEW p \in Procs, IdleSlice(p)
       PROVE  ScheduleFacts
  <2>1. /\ Top.at = p /\ p <= nprocs /\ Step(Passed(Top))
        /\ waiting[p] # None /\ ~Signalled(waiting[p])
        /\ UNCHANGED <<waiting, phase, spawned>>
    BY <1>12 DEF IdleSlice, history
  <2>2. Stuck(Top.at)
    BY <2>1 DEF Stuck, Signalled
  <2> QED
    BY <1>10, <2>1, <2>2
<1>13. ASSUME NEW p \in Procs, Slice(p)
       PROVE  ScheduleFacts
  <2> DEFINE f == [Top EXCEPT !.current = p]
  <2>1. /\ Top.at = p /\ p <= nprocs /\ ~Skipped(p)
        /\ waiting' = [waiting EXCEPT ![p] = None]
        /\ Step(f) /\ UNCHANGED <<phase, spawned>>
    BY <1>13 DEF Slice, history
  <2>2. /\ f \in Frame /\ f.current = p /\ f.at = p /\ f.except = Top.except /\ p # None
    BY <1>1, <2>1 DEF Frame, Procs, None
  <2>3. /\ ~zombie[p] /\ p # Top.except
    BY <2>1 DEF Skipped
  <2> HIDE DEF f
  <2>4. TurnsTo(f)
    <3>1. p <= nprocs + 1
      BY <1>1, <2>1
    <3> QED
      BY <2>1, <2>2, <2>3, <3>1 DEF TurnsTo
  <2>5. FramesStep
    BY <1>4, <2>2, <2>4 DEF FramesStep
  <2>6. PassedIsStuck'
    <3>1. Top'.current # None /\ phase' # "deadlock"
      BY <1>2, <1>8, <2>1, <2>2
    <3> QED
      BY <3>1 DEF PassedIsStuck
  <2>7. DataTyped'
    BY <1>1, <1>5, <2>1 DEF DataTyped
  <2>8. \E g \in Frame : Step(g) /\ (g.current # None => ~zombie[g.current])
    BY <2>1, <2>2, <2>3
  <2> QED
    BY <1>2, <1>6, <1>4, <2>1, <2>5, <2>6, <2>7, <2>8 DEF ScheduleFacts
<1>14. ASSUME RoundOver, NEW code \in Codes \cup {CannotFinish}, HookReturns(code), Depth > 1,
              \/ zombie[Top.target] /\ code = exit_code[Top.target]
              \/ code = CannotFinish /\ ~Top.progress
       PROVE  ScheduleFacts
  <2>1. /\ Pops /\ UNCHANGED <<waiting, phase>>
        /\ spawned' = [spawned EXCEPT ![Top.except] = [child |-> Top.target, result |-> code]]
    BY <1>14 DEF HookReturns, Pops
  <2>2. /\ Depth - 1 \in 1 .. Depth - 1 /\ (Depth - 1) + 1 = Depth
        /\ Depth - 1 \in 1 .. Depth
    BY <1>1, <1>14
  <2>3. /\ frames[Depth - 1].current # None /\ Top.except = frames[Depth - 1].current
        /\ Top.except \in Procs
    <3>1. frames[Depth - 1].current # None
      BY <1>1, <2>2 DEF FramesTyped
    <3>2. frames[(Depth - 1) + 1].except = frames[Depth - 1].current
      BY <1>1, <2>2 DEF LoopsNest
    <3> QED
      BY <1>1, <2>2, <3>1, <3>2
  <2>4. Top' = frames[Depth - 1] /\ Depth' = Depth - 1
    BY <1>1, <2>1, <2>2, PoppedFrames DEF Top, Depth
  <2>5. FramesStep
    BY <1>4, <2>1 DEF FramesStep
  <2>6. PassedIsStuck'
    BY <1>2, <2>1, <2>3, <2>4 DEF PassedIsStuck
  <2>7. DataTyped'
    BY <1>1, <1>5, <1>7, <2>1 DEF DataTyped
  <2>8. HistoryType'
    <3>1. [child |-> Top.target, result |-> code]
              \in [child : Procs \cup {None}, result : Codes \cup {CannotFinish}]
      BY <1>1
    <3> QED
      BY <1>1, <1>2, <2>1, <3>1 DEF HistoryType
  <2>9. ~Top.progress => \A q \in Alive : q # Top.except => Stuck(q)
    <3>1. Top.at > nprocs
      BY <1>14 DEF RoundOver
    <3>2. \A q \in Alive : q < Top.at
      BY <1>1, <1>3, <3>1
    <3> QED
      BY <1>9, <3>2
  <2> QED
    BY <1>2, <1>4, <1>14, <2>1, <2>3, <2>5, <2>6, <2>7, <2>8, <2>9 DEF ScheduleFacts
<1>15. ASSUME RoundOver, NextRound, UNCHANGED <<waiting, phase, history>>
       PROVE  ScheduleFacts
  <2> DEFINE f == [Top EXCEPT !.at = 1, !.progress = FALSE]
  <2>1. f \in Frame /\ f.current = None /\ f.at = 1 /\ f.except = Top.except
    <3>1. 1 \in 0 .. MaxProcs + 1
      BY <1>1
    <3> QED
      BY <1>1, <1>2, <3>1 DEF Frame
  <2>2. Step(f) /\ UNCHANGED spawned
    BY <1>15 DEF NextRound, history
  <2> HIDE DEF f
  <2>3. TurnsTo(f)
    <3>1. 1 <= nprocs + 1
      BY <1>1
    <3> QED
      BY <2>1, <2>2, <3>1 DEF TurnsTo
  <2>4. FramesStep
    BY <1>4, <2>1, <2>3 DEF FramesStep
  <2>5. \A p \in Alive' : ~(p < Top'.at)
    <3>1. Top'.at = 1 /\ \A p \in Alive : p \in Nat \ {0}
      BY <1>1, <1>3, <1>8, <2>1, <2>2 DEF None
    <3> QED
      BY <1>4, <3>1
  <2>6. PassedIsStuck'
    BY <1>2, <1>15, <2>5 DEF PassedIsStuck
  <2>7. DataTyped'
    BY <1>1, <1>5, <1>7, <1>15 DEF DataTyped
  <2>8. \E g \in Frame : Step(g) /\ (g.current # None => ~zombie[g.current])
    BY <2>1, <2>2
  <2> QED
    BY <1>2, <1>4, <1>6, <2>2, <2>4, <2>6, <2>7, <2>8 DEF ScheduleFacts
<1>16. ASSUME RoundOver, phase' \in {"over", "deadlock"}, UNCHANGED <<waiting, frames, history>>,
              phase' = "deadlock" => ~Top.progress /\ Depth = 1
       PROVE  ScheduleFacts
  <2>1. FramesStep /\ UNCHANGED spawned
    BY <1>4, <1>16 DEF FramesStep, history
  <2>2. Top' = Top /\ Depth' = Depth
    BY <1>16 DEF Top, Depth
  <2>3. PassedIsStuck'
    BY <1>2, <1>4, <1>7, <1>9, <1>16, <2>2 DEF PassedIsStuck, RoundOver
  <2>4. DataTyped'
    BY <1>5, <1>7, <1>16
  <2> QED
    BY <1>2, <1>4, <1>6, <1>16, <2>1, <2>3, <2>4 DEF ScheduleFacts
<1>17. CASE EndRound
  <2>1. exit_code[Top.target] \in Codes
    BY <1>1 DEF DataTyped
  <2> QED
    BY <1>14, <1>15, <1>16, <1>17, <2>1 DEF EndRound, Ended
<1> QED
  BY <1>11, <1>12, <1>13, <1>17 DEF Schedule

------------------------------------------------------------------------------
(* The invariants are kept.                                                 *)

LEMMA LoopStart ==
  ASSUME SpawnWaitAssumption, SpawnInit
  PROVE  LoopInv /\ PausedLives /\ ToldInv
<1> DEFINE f == Loop(Root, None)
<1>1. /\ Root \in Procs /\ None \notin Procs /\ 1 \in 1 .. MaxFrames
      /\ MaxProcs \in Nat /\ 0 \in Codes
      /\ \A p \in Procs : p \in Nat
  BY DEF SpawnWaitAssumption, Root, Procs, None, Codes
<1>2. /\ f \in Frame /\ f.except = None /\ f.current = None /\ f.at = 1 /\ ~f.progress
  BY <1>1 DEF Loop, Frame
<1> HIDE DEF f
<1>3. /\ frames = <<f>> /\ frames \in Seq(Frame) /\ Len(frames) = 1 /\ frames[1] = f
  BY <1>2 DEF SpawnInit, f
<1>4. Depth = 1 /\ Top = f
  BY <1>3 DEF Depth, Top
<1>5. /\ nprocs = 1 /\ phase = "run"
      /\ \A k \in 1 .. Depth : k = 1
      /\ ~(\E k \in 1 .. Depth - 1 : TRUE)
  BY <1>4 DEF SpawnInit
<1>6. DataTyped
  <2>1. nprocs \in Procs
    BY <1>1, <1>5 DEF Root
  <2> QED
    BY <1>1, <2>1 DEF SpawnInit, DataTyped
<1>7. FramesTyped
  BY <1>1, <1>2, <1>3, <1>4, <1>5 DEF FramesTyped
<1>8. HistoryType
  BY <1>1 DEF SpawnInit, HistoryType
<1>9. Younger
  BY DEF SpawnInit, Younger
<1>10. LoopsNest
  BY <1>2, <1>3, <1>5 DEF LoopsNest
<1>11. PassedIsStuck
  <2>1. \A p \in Alive : ~(p < 1)
    BY <1>5 DEF Alive, Made
  <2> QED
    BY <1>2, <1>4, <1>5, <2>1 DEF PassedIsStuck
<1>12. PausedLives
  BY <1>5 DEF PausedLives
<1>13. ToldInv
  BY <1>2, <1>4 DEF SpawnInit, ToldInv, InSliceLives, SpawnTellsTheCode, OneExitCode
<1> QED
  BY <1>6, <1>7, <1>8, <1>9, <1>10, <1>11, <1>12, <1>13, TypeParts DEF LoopInv

LEMMA LoopStep ==
  ASSUME SpawnWaitAssumption, LoopInv, [SpawnNext]_spawnVars
  PROVE  LoopInv'
<1>1. DataTyped /\ FramesTyped /\ LoopsNest /\ nprocs \in Procs
  BY TypeParts DEF LoopInv, DataTyped
<1>3. CASE Execute
  <2>1. ExecuteFacts
    BY <1>3, ExecuteStep
  <2>2. FramesTyped' /\ LoopsNest'
    BY <1>1, <2>1, FramesKept DEF ExecuteFacts
  <2>3. /\ Depth \in Nat \ {0} /\ Depth = Len(frames) /\ Top = frames[Depth]
        /\ Top.current # None /\ Top.current = Top.at /\ Top.at <= nprocs
        /\ nprocs \in Nat \ {0}
    <3>1. Top.current # None
      BY <2>1, TopFacts DEF ExecuteFacts, Procs, None
    <3> QED
      BY <3>1, TopFacts
  <2>4. CASE UNCHANGED frames
    <3>1. Top' = Top
      BY <2>4 DEF Top, Depth
    <3>2. PassedIsStuck'
      BY <2>1, <2>3, <3>1 DEF ExecuteFacts, PassedIsStuck
    <3> QED
      BY <2>1, <2>2, <3>2 DEF ExecuteFacts, LoopInv, SpawnTypeOK, DataTyped, FramesTyped
  <2>5. CASE Step(Moved(Top))
    <3>1. Moved(Top) \in Frame /\ Moved(Top).progress
      BY <2>3, PassingTop
    <3>2. Top'.progress
      BY <1>1, <2>3, <2>5, <3>1, TurnedFrames DEF Top, Depth
    <3>3. PassedIsStuck'
      BY <2>1, <3>2 DEF ExecuteFacts, PassedIsStuck
    <3> QED
      BY <2>1, <2>2, <3>3 DEF ExecuteFacts, LoopInv, SpawnTypeOK, DataTyped, FramesTyped
  <2>6. CASE Pushes(Top.current, nprocs + 1) /\ nprocs' = nprocs + 1
    <3> DEFINE f == Loop(nprocs + 1, Top.current)
    <3>1. nprocs + 1 \in Procs /\ Top.current \in Procs
      BY <2>1, <2>6 DEF ExecuteFacts, DataTyped, Procs
    <3>2. f \in Frame /\ f.at = 1
      BY <3>1, NewLoop
    <3>3. frames' = Append(frames, f)
      BY <2>6 DEF Pushes
    <3> HIDE DEF f
    <3>4. Top' = f
      BY <1>1, <2>3, <3>2, <3>3, PushedFrames DEF Top, Depth
    <3>5. \A p \in Alive' : ~(p < Top'.at)
      BY <2>3, <2>6, <3>2, <3>4 DEF Alive, Made
    <3>6. PassedIsStuck'
      BY <2>1, <3>5 DEF ExecuteFacts, PassedIsStuck
    <3> QED
      BY <2>1, <2>2, <3>6 DEF ExecuteFacts, LoopInv, SpawnTypeOK, DataTyped, FramesTyped
  <2>7. ASSUME NEW k \in 1 .. Depth, Unwinds(k)
        PROVE  LoopInv'
    <3>1. Len(frames') = k /\ frames'[k] = Moved(frames[k]) /\ Moved(frames[k]).progress
      BY <1>1, <2>7, UnwoundFrames
    <3>2. Top'.progress
      BY <3>1 DEF Top, Depth
    <3>3. PassedIsStuck'
      BY <2>1, <3>2 DEF ExecuteFacts, PassedIsStuck
    <3> QED
      BY <2>1, <2>2, <3>3 DEF ExecuteFacts, LoopInv, SpawnTypeOK, DataTyped, FramesTyped
  <2> QED
    BY <2>1, <2>4, <2>5, <2>6, <2>7 DEF ExecuteFacts
<1>4. CASE Schedule
  <2>1. ScheduleFacts
    BY <1>4, ScheduleStep
  <2>2. FramesTyped' /\ LoopsNest'
    BY <1>1, <2>1, FramesKept DEF ScheduleFacts
  <2> QED
    BY <2>1, <2>2 DEF ScheduleFacts, LoopInv, SpawnTypeOK, DataTyped, FramesTyped
<1>5. CASE UNCHANGED spawnVars
  BY <1>5 DEF spawnVars, procVars, history, LoopInv, SpawnTypeOK, HistoryType, Younger, LoopsNest,
              PassedIsStuck, Depth, Top, Alive, Made, Stuck
<1> QED
  BY <1>3, <1>4, <1>5 DEF SpawnNext, Terminated

\* As long as nobody ends while it is in the middle of a hook, what is told stays so.
LEMMA ToldStep ==
  ASSUME SpawnWaitAssumption, LoopInv, PausedLives, ToldInv, [SpawnNext]_spawnVars
  PROVE  ToldInv'
<1>1. /\ FramesTyped /\ LoopsNest /\ DataTyped /\ HistoryType /\ Younger
      /\ Depth \in Nat \ {0} /\ Depth = Len(frames) /\ Top = frames[Depth]
      /\ Top.current \in Procs \cup {None}
      /\ Top.current # None => Top.at <= nprocs
      /\ None \notin Procs
  BY TypeParts, TopFacts DEF LoopInv, Procs, None
<1>2. /\ Top.current # None => ~zombie[Top.current]
      /\ \A p \in Procs : spawned[p].child # None /\ spawned[p].result # CannotFinish
             => zombie[spawned[p].child] /\ exit_code[spawned[p].child] = spawned[p].result
      /\ \A p \in Procs : told[p] \subseteq {exit_code[p]} /\ (told[p] # {} => zombie[p])
      /\ \A p \in Procs : /\ spawned[p].child \in Procs \cup {None}
                          /\ told[p] \in SUBSET Codes
  BY <1>1 DEF ToldInv, InSliceLives, SpawnTellsTheCode, OneExitCode, HistoryType
<1>3. ASSUME Execute
      PROVE  ToldInv'
  <2>1. ExecuteFacts
    BY <1>3, ExecuteStep
  <2>2. Top.current \in Procs /\ UNCHANGED spawned
    BY <2>1 DEF ExecuteFacts
  <2>3. /\ UNCHANGED frames => Top' = Top
        /\ Step(Moved(Top)) => Top'.current = None
        /\ Pushes(Top.current, nprocs + 1) /\ nprocs' = nprocs + 1 => Top'.current = None
        /\ (\E k \in 1 .. Depth : Unwinds(k)) => Top'.current = None
    <3>1. UNCHANGED frames => Top' = Top
      BY DEF Top, Depth
    <3>2. ASSUME Step(Moved(Top)) PROVE Top'.current = None
      <4>1. Moved(Top) \in Frame /\ Moved(Top).current = None
        BY <1>1, <2>2, PassingTop
      <4> QED
        BY <1>1, <3>2, <4>1, TurnedFrames DEF Top, Depth
    <3>3. ASSUME Pushes(Top.current, nprocs + 1), nprocs' = nprocs + 1
          PROVE  Top'.current = None
      <4> DEFINE f == Loop(nprocs + 1, Top.current)
      <4>1. nprocs + 1 \in Procs
        BY <2>1, <3>3 DEF ExecuteFacts, DataTyped
      <4>2. f \in Frame /\ f.current = None
        BY <2>2, <4>1, NewLoop
      <4>3. frames' = Append(frames, f)
        BY <3>3 DEF Pushes
      <4> HIDE DEF f
      <4> QED
        BY <1>1, <4>2, <4>3, PushedFrames DEF Top, Depth
    <3>4. ASSUME NEW k \in 1 .. Depth, Unwinds(k)
          PROVE  Top'.current = None
      <4>1. nprocs \in Procs
        BY <1>1 DEF DataTyped
      <4>2. Len(frames') = k /\ frames'[k] = Moved(frames[k]) /\ Moved(frames[k]).current = None
        BY <1>1, <3>4, <4>1, UnwoundFrames
      <4> QED
        BY <4>2 DEF Top, Depth
    <3> QED
      BY <3>1, <3>2, <3>3, <3>4
  <2>4. ASSUME NEW x \in Procs, NEW code \in Codes, Ends(x, code), UNCHANGED told
        PROVE  ToldInv'
    <3>1. /\ zombie' = [zombie EXCEPT ![x] = TRUE]
          /\ exit_code' = [exit_code EXCEPT ![x] = code]
      BY <2>4 DEF Ends, MakeZombie
    <3>2. ~zombie[x]
      <4>1. ASSUME NEW k \in 1 .. Depth, x = frames[k].current
            PROVE  ~zombie[x]
        <5>1. k = Depth \/ k \in 1 .. Depth - 1
          BY <1>1, <4>1
        <5>2. x # None
          BY <1>1
        <5> QED
          BY <1>1, <1>2, <4>1, <5>1, <5>2 DEF PausedLives
      <4> QED
        BY <1>1, <1>2, <2>2, <2>4, <4>1 DEF Ends
    <3>3. /\ \A p \in Procs : zombie[p] => zombie'[p] /\ exit_code'[p] = exit_code[p]
          /\ \A p \in Procs : p # x => zombie'[p] = zombie[p]
      BY <1>1, <3>1, <3>2 DEF DataTyped
    <3>4. InSliceLives'
      <4>1. CASE x = Top.current /\ Step(Moved(Top))
        BY <2>3, <4>1 DEF InSliceLives
      <4>2. CASE x \in handles[Top.current] /\ UNCHANGED frames
        <5>1. Top.current \in Nat /\ Top.current < x
          BY <1>1, <2>2, <4>2 DEF Younger, Procs
        <5>2. x # Top.current
          BY <5>1
        <5> QED
          BY <1>2, <2>2, <2>3, <3>3, <4>2, <5>2 DEF InSliceLives
      <4>3. CASE \E k \in 1 .. Depth : Unwinds(k)
        BY <2>3, <4>3 DEF InSliceLives
      <4> QED
        BY <2>4, <4>1, <4>2, <4>3 DEF Ends
    <3>5. SpawnTellsTheCode'
      BY <1>1, <1>2, <2>2, <3>3 DEF SpawnTellsTheCode
    <3>6. OneExitCode'
      <4> SUFFICES ASSUME NEW p \in Procs
                   PROVE  told[p] \subseteq {exit_code'[p]} /\ (told[p] # {} => zombie'[p])
        BY <2>4 DEF OneExitCode
      <4> QED
        BY <1>2, <3>3
    <3> QED
      BY <3>4, <3>5, <3>6 DEF ToldInv
  <2>5. ASSUME UNCHANGED <<zombie, exit_code>>
        PROVE  InSliceLives' /\ SpawnTellsTheCode'
    <3>1. InSliceLives'
      BY <1>2, <2>1, <2>3, <2>5 DEF ExecuteFacts, InSliceLives
    <3> QED
      BY <1>2, <2>2, <2>5, <3>1 DEF SpawnTellsTheCode
  <2>6. CASE UNCHANGED <<zombie, exit_code, told>>
    BY <1>2, <2>5, <2>6 DEF ToldInv, OneExitCode
  <2>7. ASSUME NEW c \in Procs, zombie[c], UNCHANGED <<zombie, exit_code>>,
               told' = [told EXCEPT ![c] = told[c] \cup {exit_code[c]}]
        PROVE  ToldInv'
    <3>1. told \in [Procs -> SUBSET Codes]
      BY <1>1 DEF HistoryType
    <3>2. ASSUME NEW p \in Procs
          PROVE  told'[p] \subseteq {exit_code[p]} /\ (told'[p] # {} => zombie[p])
      BY <1>2, <2>7, <3>1, <3>2
    <3>3. OneExitCode'
      BY <2>7, <3>2 DEF OneExitCode
    <3> QED
      BY <2>5, <2>7, <3>3 DEF ToldInv
  <2> QED
    BY <2>1, <2>4, <2>6, <2>7 DEF ExecuteFacts
<1>4. ASSUME Schedule
      PROVE  ToldInv'
  <2>1. ScheduleFacts
    BY <1>4, ScheduleStep
  <2>2. UNCHANGED <<zombie, exit_code, told>>
    BY <2>1 DEF ScheduleFacts, procVars
  <2>3. OneExitCode'
    BY <1>2, <2>2 DEF OneExitCode
  <2>4. SpawnTellsTheCode'
    <3>1. CASE UNCHANGED spawned
      BY <1>2, <2>2, <3>1 DEF SpawnTellsTheCode
    <3>2. ASSUME NEW code \in Codes \cup {CannotFinish},
                 spawned' = [spawned EXCEPT ![Top.except] =
                                [child |-> Top.target, result |-> code]],
                 code # CannotFinish => zombie[Top.target] /\ code = exit_code[Top.target]
          PROVE  SpawnTellsTheCode'
      <4> SUFFICES ASSUME NEW p \in Procs, spawned'[p].child # None,
                          spawned'[p].result # CannotFinish
                   PROVE  /\ zombie[spawned'[p].child]
                          /\ exit_code[spawned'[p].child] = spawned'[p].result
        BY <2>2 DEF SpawnTellsTheCode
      <4>1. DOMAIN spawned = Procs
        BY <1>1 DEF HistoryType
      <4>2. CASE p = Top.except
        BY <3>2, <4>1, <4>2
      <4>3. CASE p # Top.except
        BY <1>2, <3>2, <4>1, <4>3
      <4> QED
        BY <4>2, <4>3
    <3> QED
      BY <2>1, <3>1, <3>2 DEF ScheduleFacts
  <2>5. InSliceLives'
    <3>1. CASE UNCHANGED frames
      BY <1>2, <2>2, <3>1 DEF InSliceLives, Top, Depth
    <3>2. CASE Pops
      <4>1. Depth - 1 \in 1 .. Depth - 1 /\ Len(frames') = Depth - 1
            /\ frames'[Depth - 1] = frames[Depth - 1]
        BY <1>1, <3>2, PoppedFrames DEF Pops
      <4>2. Top' = frames[Depth - 1]
        BY <4>1 DEF Top, Depth
      <4> QED
        BY <2>2, <4>1, <4>2 DEF PausedLives, InSliceLives
    <3>3. ASSUME NEW f \in Frame, Step(f), f.current # None => ~zombie[f.current]
          PROVE  InSliceLives'
      <4>1. Top' = f
        BY <1>1, <3>3, TurnedFrames DEF Top, Depth
      <4> QED
        BY <2>2, <3>3, <4>1 DEF InSliceLives
    <3> QED
      BY <2>1, <3>1, <3>2, <3>3 DEF ScheduleFacts
  <2> QED
    BY <2>3, <2>4, <2>5 DEF ToldInv
<1>5. CASE UNCHANGED spawnVars
  BY <1>5 DEF spawnVars, procVars, history, ToldInv, InSliceLives, SpawnTellsTheCode, OneExitCode,
              Top, Depth
<1> QED
  BY <1>3, <1>4, <1>5 DEF SpawnNext, Terminated

\* One spawn at a time is waited for, and who spawns so is no child of one that
\* terminates its children (children have higher numbers than their parents).
Undisturbed == MaxFrames <= 2 /\ \A s \in Spawners, t \in Terminators : s <= t

LEMMA PausedStep ==
  ASSUME SpawnWaitAssumption, Undisturbed, LoopInv, PausedLives, ToldInv, [SpawnNext]_spawnVars
  PROVE  PausedLives'
<1>1. /\ FramesTyped /\ DataTyped /\ LoopsNest /\ Younger
      /\ Depth \in Nat \ {0} /\ Depth = Len(frames) /\ Top = frames[Depth] /\ Depth <= 2
      /\ Top.current # None => Top.current # Top.except /\ Top.at <= nprocs
      /\ None \notin Procs /\ MaxFrames \in Nat
  BY TypeParts, TopFacts DEF LoopInv, Procs, None, FramesTyped, Undisturbed,
                             SpawnWaitAssumption
<1>2. \A k \in 1 .. Depth - 1 : ~zombie[frames[k].current]
  BY DEF PausedLives
<1>3. \A k \in 1 .. Depth - 1 : k = 1 /\ Depth = 2
  BY <1>1
<1>4. ASSUME Execute
      PROVE  PausedLives'
  <2>1. ExecuteFacts
    BY <1>4, ExecuteStep
  <2>2. /\ Top.current \in Procs /\ Top.current # None /\ ~zombie[Top.current]
        /\ Top.current # Top.except
    BY <1>1, <2>1 DEF ExecuteFacts, ToldInv, InSliceLives
  <2>3. ASSUME UNCHANGED frames \/ Step(Moved(Top))
        PROVE  /\ Depth' = Depth
               /\ \A k \in 1 .. Depth - 1 : frames'[k] = frames[k]
    <3>1. CASE UNCHANGED frames
      BY <3>1 DEF Depth
    <3>2. CASE Step(Moved(Top))
      <4>1. Moved(Top) \in Frame
        BY <1>1, <2>2, PassingTop
      <4> QED
        BY <1>1, <3>2, <4>1, TurnedFrames DEF Depth
    <3> QED
      BY <2>3, <3>1, <3>2
  <2>7. ASSUME NEW k \in 1 .. Depth, Unwinds(k), k = 2 => ~zombie'[frames[1].current]
        PROVE  PausedLives'
    <3>1. nprocs \in Procs
      BY <1>1 DEF DataTyped
    <3>2. Depth' = k /\ \A j \in 1 .. k - 1 : frames'[j] = frames[j]
      BY <1>1, <2>7, <3>1, UnwoundFrames DEF Depth
    <3>3. \A j \in 1 .. k - 1 : j = 1 /\ k = 2
      BY <1>1
    <3> QED
      BY <2>7, <3>2, <3>3 DEF PausedLives
  <2>4. ASSUME NEW x \in Procs, NEW code \in Codes, Ends(x, code)
        PROVE  PausedLives'
    <3>0. ASSUME NEW k \in 1 .. Depth, x = frames[k].current, Unwinds(k)
          PROVE  PausedLives'
      <4>1. ASSUME k = 2
            PROVE  ~zombie'[frames[1].current]
        <5>1. k = Depth /\ 1 \in 1 .. Depth - 1
          BY <1>1, <4>1
        <5>2. x = Top.current /\ frames[2].except = frames[1].current
          BY <1>1, <3>0, <4>1, <5>1 DEF LoopsNest
        <5>3. Top.except = frames[2].except
          BY <1>1, <4>1, <5>1
        <5>4. x # frames[1].current
          BY <2>2, <5>2, <5>3
        <5>5. zombie' = [zombie EXCEPT ![x] = TRUE] /\ DOMAIN zombie = Procs
          BY <1>1, <2>4 DEF Ends, MakeZombie, DataTyped
        <5> QED
          BY <1>2, <5>1, <5>4, <5>5
      <4> QED
        BY <2>7, <3>0, <4>1
    <3> SUFFICES ASSUME ~\E k \in 1 .. Depth : x = frames[k].current /\ Unwinds(k)
                 PROVE  PausedLives'
      BY <3>0
    <3>1. /\ zombie' = [zombie EXCEPT ![x] = TRUE]
          /\ UNCHANGED frames \/ Step(Moved(Top))
      BY <2>4 DEF Ends, MakeZombie
    <3>2. ASSUME NEW k \in 1 .. Depth - 1
          PROVE  ~zombie'[frames[k].current]
      <4>1. k = 1 /\ Depth = 2 /\ 1 \in 1 .. Depth - 1
        BY <1>3, <3>2
      <4>2. frames[2].except = frames[1].current /\ frames[1].current \in Spawners
        BY <4>1, <1>1 DEF LoopsNest
      <4>3. x # frames[1].current
        <5>1. CASE x = Top.current
          BY <1>1, <2>2, <4>1, <4>2, <5>1
        <5>2. CASE Top.current \in Terminators /\ x \in handles[Top.current]
          <6>1. frames[1].current <= Top.current
            BY <4>2, <5>2 DEF Undisturbed
          <6>2. Top.current < x
            BY <1>1, <2>2, <5>2 DEF Younger
          <6>3. Top.current \in Nat /\ x \in Nat
            BY <2>2 DEF Procs
          <6>4. frames[1].current \in Nat
            <7>1. \A s \in Spawners : s \in 1 .. MaxProcs
              BY DEF SpawnWaitAssumption
            <7>2. \A s \in 1 .. MaxProcs : s \in Nat
              BY DEF SpawnWaitAssumption
            <7> QED
              BY <4>2, <7>1, <7>2
          <6> QED
            BY <6>1, <6>2, <6>3, <6>4
        <5> QED
          BY <2>4, <5>1, <5>2 DEF Ends
      <4>4. DOMAIN zombie = Procs
        BY <1>1 DEF DataTyped
      <4> QED
        BY <1>2, <3>1, <4>1, <4>3, <4>4
    <3> QED
      BY <2>3, <3>1, <3>2 DEF PausedLives
  <2>5. ASSUME UNCHANGED zombie, UNCHANGED frames \/ Step(Moved(Top))
        PROVE  PausedLives'
    BY <1>2, <2>3, <2>5 DEF PausedLives
  <2>6. ASSUME UNCHANGED zombie, Pushes(Top.current, nprocs + 1), nprocs' = nprocs + 1
        PROVE  PausedLives'
    <3> DEFINE f == Loop(nprocs + 1, Top.current)
    <3>1. nprocs + 1 \in Procs
      BY <2>1, <2>6 DEF ExecuteFacts, DataTyped
    <3>2. f \in Frame
      BY <2>2, <3>1, NewLoop
    <3>3. frames' = Append(frames, f)
      BY <2>6 DEF Pushes
    <3> HIDE DEF f
    <3>4. Depth' = Depth + 1 /\ \A k \in 1 .. Depth : frames'[k] = frames[k]
      BY <1>1, <3>2, <3>3, PushedFrames DEF Depth
    <3>5. \A k \in 1 .. Depth : k = Depth \/ k \in 1 .. Depth - 1
      BY <1>1
    <3>6. \A k \in 1 .. Depth : ~zombie[frames[k].current]
      BY <1>1, <1>2, <2>2, <3>5
    <3>7. Depth' - 1 = Depth
      BY <1>1, <3>4
    <3> QED
      BY <2>6, <3>4, <3>6, <3>7 DEF PausedLives
  <2>8. ASSUME UNCHANGED zombie, NEW k \in 1 .. Depth, Unwinds(k)
        PROVE  PausedLives'
    <3>1. k = 2 => 1 \in 1 .. Depth - 1
      BY <1>1
    <3> QED
      BY <1>2, <2>7, <2>8, <3>1
  <2> QED
    BY <2>1, <2>4, <2>5, <2>6, <2>8 DEF ExecuteFacts
<1>5. ASSUME Schedule
      PROVE  PausedLives'
  <2>1. ScheduleFacts
    BY <1>5, ScheduleStep
  <2>2. UNCHANGED zombie
    BY <2>1 DEF ScheduleFacts, procVars
  <2>3. CASE UNCHANGED frames
    BY <1>2, <2>2, <2>3 DEF PausedLives, Depth
  <2>4. CASE Pops
    <3>1. Depth' = Depth - 1 /\ \A k \in 1 .. Depth - 1 : frames'[k] = frames[k]
      BY <1>1, <2>4, PoppedFrames DEF Depth
    <3>2. \A k \in 1 .. (Depth - 1) - 1 : k \in 1 .. Depth - 1
      BY <1>1
    <3> QED
      BY <1>2, <2>2, <3>1, <3>2 DEF PausedLives
  <2>5. ASSUME NEW f \in Frame, Step(f)
        PROVE  PausedLives'
    <3>1. Depth' = Depth /\ \A k \in 1 .. Depth - 1 : frames'[k] = frames[k]
      BY <1>1, <2>5, TurnedFrames DEF Depth
    <3> QED
      BY <1>2, <2>2, <3>1 DEF PausedLives
  <2> QED
    BY <2>1, <2>3, <2>4, <2>5 DEF ScheduleFacts
<1>6. CASE UNCHANGED spawnVars
  BY <1>6, <1>2 DEF spawnVars, procVars, PausedLives, Depth
<1> QED
  BY <1>4, <1>5, <1>6 DEF SpawnNext, Terminated

------------------------------------------------------------------------------
(* The theorems.                                                            *)

THEOREM LoopsAlwaysNest == ASSUME SpawnWaitAssumption PROVE SpawnSpec => []LoopInv
<1>1. SpawnInit => LoopInv
  BY LoopStart
<1>2. LoopInv /\ [SpawnNext]_spawnVars => LoopInv'
  BY LoopStep
<1> QED
  BY <1>1, <1>2, PTL DEF SpawnSpec

\* Every variable has its type in every reachable state, and the loops on the host's
\* stack nest as run_until_exit's calls do.
THEOREM SpawnTypeCorrect == ASSUME SpawnWaitAssumption PROVE SpawnSpec => []SpawnTypeOK
<1>1. LoopInv => SpawnTypeOK
  BY DEF LoopInv
<1> QED
  BY <1>1, LoopsAlwaysNest, PTL

LEMMA DeadlockFacts == ASSUME SpawnWaitAssumption, LoopInv PROVE DeadlockIsReal
<1> SUFFICES ASSUME phase = "deadlock", NEW p \in Alive
             PROVE  Stuck(p)
  BY DEF DeadlockIsReal
<1>1. /\ Depth \in Nat \ {0} /\ Depth = Len(frames) /\ Top = frames[Depth]
      /\ nprocs \in Nat \ {0} /\ Top.at \in Nat
  BY TopFacts
<1>2. Top.current = None /\ ~Top.progress /\ Top.at > nprocs /\ Depth = 1
  BY DEF LoopInv, PassedIsStuck
<1>3. Top.except = None
  BY <1>1, <1>2 DEF LoopInv, LoopsNest
<1>4. p \in Nat \ {0} /\ p <= nprocs
  BY <1>1 DEF Alive, Made
<1>5. p < Top.at /\ p # Top.except
  BY <1>1, <1>2, <1>3, <1>4 DEF None
<1> QED
  BY <1>2, <1>5 DEF LoopInv, PassedIsStuck

\* However deep spawns nest, a deadlock is only reported when every process that is
\* left waits for one that has not ended (System::run, processes.cpp).
THEOREM DeadlocksAreReal == ASSUME SpawnWaitAssumption PROVE SpawnSpec => []DeadlockIsReal
<1>1. LoopInv => DeadlockIsReal
  BY DeadlockFacts
<1> QED
  BY <1>1, LoopsAlwaysNest, PTL

LEMMA FailureStep ==
  ASSUME SpawnWaitAssumption, LoopInv, [SpawnNext]_spawnVars, NEW p \in Procs,
         spawned'[p] # spawned[p], spawned'[p].result = CannotFinish
  PROVE  \A q \in Alive \ {p} : Stuck(q)
<1>1. CASE Execute
  BY <1>1, ExecuteStep DEF ExecuteFacts
<1>2. CASE Schedule
  <2>1. ScheduleFacts
    BY <1>2, ScheduleStep
  <2>2. PICK code \in Codes \cup {CannotFinish} :
           /\ spawned' = [spawned EXCEPT ![Top.except] = [child |-> Top.target, result |-> code]]
           /\ \/ zombie[Top.target] /\ code = exit_code[Top.target]
              \/ /\ code = CannotFinish
                 /\ \A q \in Alive : q # Top.except => Stuck(q)
    BY <2>1 DEF ScheduleFacts
  <2>3. DOMAIN spawned = Procs
    BY DEF LoopInv, HistoryType
  <2>4. p = Top.except /\ code = CannotFinish
    BY <2>2, <2>3
  <2>5. exit_code[Top.target] # CannotFinish
    BY TopFacts, KnownCodes DEF LoopInv, SpawnTypeOK
  <2> QED
    BY <2>2, <2>4, <2>5
<1>3. CASE UNCHANGED spawnVars
  BY <1>3 DEF spawnVars, history
<1> QED
  BY <1>1, <1>2, <1>3 DEF SpawnNext, Terminated

\* _wspawnv only fails when nobody else could ever move again ("the child cannot
\* finish; report failure", hooks_win32c.cpp).
THEOREM FailuresAreReal == ASSUME SpawnWaitAssumption PROVE SpawnSpec => FailureIsReal
<1>1. LoopInv /\ [SpawnNext]_spawnVars =>
         [\A p \in Procs :
             spawned'[p] # spawned[p] /\ spawned'[p].result = CannotFinish
                 => \A q \in Alive \ {p} : Stuck(q)]_spawnVars
  BY FailureStep
<1> QED
  BY <1>1, LoopsAlwaysNest, PTL DEF SpawnSpec, FailureIsReal

\* In every run in which nobody ends while it is in the middle of a hook, what a process
\* is told of another's end, by _wspawnv or GetExitCodeProcess, is so and stays so.
THEOREM ToldWhilePausedLive ==
  ASSUME SpawnWaitAssumption PROVE SpawnSpec /\ []PausedLives => []WhatIsToldIsSo
<1>1. SpawnInit => ToldInv
  BY LoopStart
<1>2. LoopInv /\ PausedLives /\ ToldInv /\ [SpawnNext]_spawnVars => ToldInv'
  BY ToldStep
<1>3. LoopInv /\ ToldInv => WhatIsToldIsSo
  BY DeadlockFacts DEF ToldInv, WhatIsToldIsSo
<1> QED
  BY <1>1, <1>2, <1>3, LoopsAlwaysNest, PTL DEF SpawnSpec

\* Nobody does, when one spawn at a time is waited for and no spawner is terminated; a
\* nested spawn runs the outer process too, and it may then end in the middle of its hook.
THEOREM UndisturbedIsToldTheTruth ==
  ASSUME SpawnWaitAssumption, Undisturbed PROVE SpawnSpec => []WhatIsToldIsSo
<1>1. SpawnInit => PausedLives /\ ToldInv
  BY LoopStart
<1>2. LoopInv /\ PausedLives /\ ToldInv /\ [SpawnNext]_spawnVars => (PausedLives /\ ToldInv)'
  BY PausedStep, ToldStep
<1>3. LoopInv /\ ToldInv => WhatIsToldIsSo
  BY DeadlockFacts DEF ToldInv, WhatIsToldIsSo
<1> QED
  BY <1>1, <1>2, <1>3, LoopsAlwaysNest, PTL DEF SpawnSpec

(****************************************************************************)
(* LINUX THREADS: LinuxThreads                                              *)
(****************************************************************************)

-----------------------------------------------------------------------------
(* The inductive invariant.                                                *)

\* Where the first thread is before it clones, and until it has cloned all; where it
\* can be at all, and where a worker can.
Alone == {"start", "set_tid_address"}
Early == Alone \cup {"spawn", "clone"}
First == Early \cup {"join", "futex_wait", "exit", "exit_group"}
Worker == {"lock", "work", "again", "futex_wait", "futex_wake", "leave", "exit"}

ThreadRecord ==
    [pc : First \cup Worker, rax : Int, state : {"runnable", "blocked", "finished"},
     pred : {<<>>} \cup (Nat \X Nat), fs : Nat, gs : Nat, clear : Nat]

LinuxTypeOK ==
    /\ bits \in {32, 64}
    /\ threads \in Seq(ThreadRecord) /\ Len(threads) \in 1 .. MaxThreads
    /\ running \in 1 .. Len(threads)
    /\ slice \in {"none", "fresh", "on"}
    /\ blocked = FALSE
    /\ words \in [{Lock} \cup Ids -> Nat]
    /\ joins \in 0 .. MaxThreads - 1
    /\ joining \in BOOLEAN
    /\ ended \in {"no", "exit", "group", "deadlock"}

\* CallsAreAnswered for the thread t, number i of n.
Told(i, t, n) ==
    /\ t.pc \in SysCalls => t.rax = Number[t.pc]
    /\ t.pc = "spawn" => t.rax = n
    /\ i > 1 /\ t.pc = "lock" => t.rax = 0
    /\ t.pc \in {"again", "work"} => t.rax \in {0, EAGAIN}
    /\ t.pc = "join" => t.rax \in {n, EAGAIN}

\* Where the thread number i can be, and what clone gave it.
Own(i, t) ==
    /\ t.pc \in IF i = 1 THEN First ELSE Worker
    /\ t.clear \in IF i = 1 THEN {0, 1} ELSE {i}
    /\ i > 1 \/ bits = 64 => t.fs = i

\* The word of a worker is cleared by its end only; nobody is joined before all
\* have been cloned, and none is cloned after that.
WordsTell ==
    /\ \A i \in 2 .. Len(threads) : words[i] = 0 => threads[i].state = "finished"
    /\ threads[1].pc \in Alone => Len(threads) = 1
    /\ threads[1].pc \in Early => joins = 0
    /\ threads[1].pc \notin Early => Len(threads) = MaxThreads
    /\ threads[1].pc = "clone" => Len(threads) < MaxThreads

\* In a slice there is somebody to run.
SliceRuns == slice # "none" => threads[running].state = "runnable"

LinuxInv ==
    /\ LinuxTypeOK
    /\ \A i \in 1 .. Len(threads) : Told(i, threads[i], Len(threads)) /\ Own(i, threads[i])
    /\ WordsTell /\ JoinedIsGone /\ SliceRuns

-----------------------------------------------------------------------------
(* What a step does.                                                       *)

\* The thread that runs becomes u, and no other thread changes.
Becomes(u) ==
    /\ u \in ThreadRecord
    /\ threads' = [threads EXCEPT ![running] = u]

\* What a step of the thread that runs may make of it and of the rest.
GoesOn(u) ==
    /\ Becomes(u)
    /\ Told(running, u, Len(threads)) /\ Own(running, u)
    /\ u.state = "runnable" \/ slice' = "none"
    /\ slice' \in {"none", "on"} /\ blocked' = FALSE
    /\ words' \in [{Lock} \cup Ids -> Nat]
    /\ \A i \in 2 .. MaxThreads : words'[i] = words[i] \/ (i = running /\ u.state = "finished")
    /\ running = 1 /\ u.pc \notin Early => Len(threads) = MaxThreads
    /\ running = 1 /\ u.pc \in Alone => threads[1].pc \in Alone
    /\ running = 1 /\ u.pc \in Early => threads[1].pc \in Early
    /\ running = 1 /\ u.pc = "clone" => Len(threads) < MaxThreads
    /\ UNCHANGED <<bits, joining, running>>
    /\ ended' \in {"no", "exit", "group", "deadlock"}

LEMMA BecomesKeeps ==
  ASSUME LinuxTypeOK, NEW u, Becomes(u)
  PROVE  /\ threads' \in Seq(ThreadRecord) /\ Len(threads') = Len(threads)
         /\ \A i \in 1 .. Len(threads) : threads'[i] = IF i = running THEN u ELSE threads[i]
BY ExceptSeq DEF LinuxTypeOK, Becomes

LEMMA GoesOnKeeps ==
  ASSUME LinuxThreadsAssumption, LinuxInv, SliceOn, NEW u, GoesOn(u),
         \/ joins' = joins
         \/ /\ running = 1 /\ Me.pc \in {"spawn", "join"} /\ Len(threads) = MaxThreads
            /\ joins + 2 <= MaxThreads /\ words[joins + 2] = 0
            /\ joins' = joins + 1 /\ u.pc \notin Early
  PROVE  LinuxInv'
<1> DEFINE n == Len(threads)
<1>1. /\ threads' \in Seq(ThreadRecord) /\ Len(threads') = n
      /\ \A i \in 1 .. n : threads'[i] = IF i = running THEN u ELSE threads[i]
  BY BecomesKeeps DEF LinuxInv, GoesOn
<1>2. n \in 1 .. MaxThreads /\ running \in 1 .. n /\ MaxThreads \in Nat \ {0}
      /\ joins \in 0 .. MaxThreads - 1 /\ bits' = bits /\ running' = running
  BY DEF LinuxInv, LinuxTypeOK, LinuxThreadsAssumption, GoesOn
<1>3. \A i \in 1 .. n : Told(i, threads[i], n) /\ Own(i, threads[i])
  BY DEF LinuxInv
<1>4. \A i \in 1 .. n : Told(i, threads'[i], n) /\ Own(i, threads'[i])
  BY <1>1, <1>3 DEF GoesOn
<1>5. \A i \in 1 .. n : (Told(i, threads[i], n) /\ Own(i, threads[i]))'
  BY <1>1, <1>2, <1>4 DEF Own, Told
<1>6. threads[running].state = "runnable"
  BY DEF LinuxInv, SliceRuns, SliceOn
<1>7. LinuxTypeOK'
  <2>1. joins' \in 0 .. MaxThreads - 1
    BY <1>2
  <2> QED
    BY <1>1, <1>2, <2>1 DEF LinuxInv, LinuxTypeOK, GoesOn
<1>8. \A i \in 2 .. n : words'[i] = 0 => threads'[i].state = "finished"
  BY <1>1, <1>2, <1>6 DEF LinuxInv, WordsTell, GoesOn
<1>9. /\ threads'[1].pc \in Alone => n = 1
      /\ threads'[1].pc \in Early => joins' = 0
      /\ threads'[1].pc \notin Early => n = MaxThreads
      /\ threads'[1].pc = "clone" => n < MaxThreads
  BY <1>1, <1>2 DEF LinuxInv, WordsTell, GoesOn
<1>10. JoinedIsGone'
  <2>1. joins = 0 \/ n = MaxThreads
    BY <1>2 DEF LinuxInv, WordsTell
  <2>2. ASSUME NEW i \in 2 .. joins + 1 PROVE threads'[i].state = "finished"
    <3>1. i \in 1 .. n /\ threads[i].state = "finished"
      BY <1>2, <2>1 DEF LinuxInv, JoinedIsGone
    <3> QED
      BY <1>1, <1>6, <3>1
  <2>3. ASSUME joins' = joins + 1, n = MaxThreads, running = 1,
               joins + 2 <= MaxThreads, words[joins + 2] = 0
        PROVE  threads'[joins + 2].state = "finished"
    <3>1. joins + 2 \in 2 .. n
      BY <1>2, <2>3
    <3>2. threads[joins + 2].state = "finished"
      BY <2>3, <3>1 DEF LinuxInv, WordsTell
    <3> QED
      BY <1>1, <1>2, <2>3, <3>1, <3>2
  <2>4. CASE joins' = joins
    BY <2>2, <2>4 DEF JoinedIsGone
  <2>5. CASE joins' # joins
    <3>1. /\ joins' = joins + 1 /\ threads'[joins + 2].state = "finished"
      BY <2>3, <2>5
    <3>2. ASSUME NEW i \in 2 .. joins' + 1 PROVE threads'[i].state = "finished"
      <4>1. i \in 2 .. joins + 1 \/ i = joins + 2
        BY <1>2, <3>1
      <4> QED
        BY <2>2, <3>1, <4>1
    <3> QED
      BY <3>2 DEF JoinedIsGone
  <2> QED
    BY <2>4, <2>5
<1>11. SliceRuns'
  BY <1>1, <1>2 DEF SliceRuns, GoesOn
<1> QED
  <2>1. n' = n
    BY <1>1
  <2>2. WordsTell'
    BY <1>8, <1>9, <2>1 DEF WordsTell
  <2> QED
    BY <1>5, <1>7, <1>10, <1>11, <2>1, <2>2 DEF LinuxInv

-----------------------------------------------------------------------------
(* The steps of the thread that runs.                                      *)

LEMMA Numbers ==
  /\ SysCalls = {"clone", "exit", "futex_wait", "futex_wake", "set_tid_address", "exit_group"}
  /\ \A call \in SysCalls : Number[call] \in Int
BY DEF SysCalls, Number

LEMMA MeIs ==
  ASSUME LinuxInv, SliceOn
  PROVE  /\ Me \in ThreadRecord /\ Me.state = "runnable" /\ blocked = FALSE
         /\ running \in 1 .. Len(threads) /\ Len(threads) \in 1 .. MaxThreads
         /\ Told(running, Me, Len(threads)) /\ Own(running, Me)
         /\ running = 1 /\ Me.pc \notin Early => Len(threads) = MaxThreads
<1>1. running \in 1 .. Len(threads) /\ threads \in Seq(ThreadRecord)
  BY DEF LinuxInv, LinuxTypeOK
<1>2. Me \in ThreadRecord
  BY <1>1, ElementOfSeq DEF Me
<1> QED
  BY <1>1, <1>2 DEF LinuxInv, LinuxTypeOK, SliceOn, SliceRuns, Me, WordsTell

\* The thread that runs with its place and RAX replaced.
Now(place, rax) == [Me EXCEPT !.pc = place, !.rax = rax]

LEMMA NowIs ==
  ASSUME LinuxInv, SliceOn, NEW place \in First \cup Worker, NEW rax \in Int
  PROVE  /\ Now(place, rax) \in ThreadRecord
         /\ Now(place, rax).pc = place /\ Now(place, rax).rax = rax
         /\ Now(place, rax).state = "runnable"
         /\ Now(place, rax).clear = Me.clear /\ Now(place, rax).fs = Me.fs
BY MeIs DEF Now, ThreadRecord

LEMMA Changes ==
  ASSUME LinuxInv, SliceOn, NEW place, NEW rax
  PROVE  /\ [threads EXCEPT ![running].pc = place, ![running].rax = rax]
               = [threads EXCEPT ![running] = Now(place, rax)]
         /\ [threads EXCEPT ![running].pc = place] = [threads EXCEPT ![running] = Now(place, Me.rax)]
<1>1. running \in DOMAIN threads /\ threads[running] \in ThreadRecord
  BY MeIs, ElementOfSeq DEF Me, LinuxInv, LinuxTypeOK
<1>2. [threads[running] EXCEPT !.pc = place] = [threads[running] EXCEPT !.pc = place, !.rax = threads[running].rax]
  BY <1>1 DEF ThreadRecord
<1>3. [threads EXCEPT ![running].pc = place, ![running].rax = rax]
        = [threads EXCEPT ![running] = [threads[running] EXCEPT !.pc = place, !.rax = rax]]
  BY <1>1 DEF ThreadRecord
<1>4. [threads EXCEPT ![running].pc = place]
        = [threads EXCEPT ![running] = [threads[running] EXCEPT !.pc = place]]
  BY <1>1
<1> QED
  BY <1>2, <1>3, <1>4 DEF Now, Me

\* A step that leaves the thread runnable at place, with rax, and no word of a
\* worker's changed.
LEMMA GoesOnAt ==
  ASSUME LinuxThreadsAssumption, LinuxInv, SliceOn, NEW place, NEW rax \in Int,
         threads' = [threads EXCEPT ![running] = Now(place, rax)],
         slice' = "on", blocked' = FALSE, UNCHANGED <<bits, joining, running, ended>>,
         words' \in [{Lock} \cup Ids -> Nat], \A i \in 2 .. MaxThreads : words'[i] = words[i],
         place \in IF running = 1 THEN First ELSE Worker \ {"lock"},
         place \in SysCalls => rax = Number[place],
         place = "spawn" => rax = Len(threads),
         place \in {"again", "work"} => rax \in {0, EAGAIN},
         place = "join" => rax \in {Len(threads), EAGAIN},
         running = 1 /\ place \notin Early => Len(threads) = MaxThreads,
         running = 1 /\ place \in Alone => Me.pc \in Alone,
         running = 1 /\ place \in Early => Me.pc \in Early,
         place = "clone" => Len(threads) < MaxThreads,
         \/ joins' = joins
         \/ /\ running = 1 /\ Me.pc \in {"spawn", "join"} /\ Len(threads) = MaxThreads
            /\ joins + 2 <= MaxThreads /\ words[joins + 2] = 0
            /\ joins' = joins + 1 /\ place \notin Early /\ place \notin Alone
  PROVE  LinuxInv'
<1> DEFINE u == Now(place, rax)
<1>1. place \in First \cup Worker
  OBVIOUS
<1>2. u \in ThreadRecord /\ u.pc = place /\ u.rax = rax /\ u.state = "runnable"
      /\ u.clear = Me.clear /\ u.fs = Me.fs
  BY <1>1, NowIs
<1>3. Told(running, u, Len(threads)) /\ Own(running, u)
  <2>1. place = "lock" => running = 1
    OBVIOUS
  <2>2. "lock" \notin First
    BY DEF First, Early, Alone
  <2> HIDE DEF u
  <2>3. Told(running, u, Len(threads))
    BY <1>2, <2>1, <2>2 DEF Told
  <2>4. Own(running, u)
    BY <1>2, MeIs DEF Own
  <2> QED
    BY <2>3, <2>4
<1>4. ended \in {"no", "exit", "group", "deadlock"}
  BY DEF LinuxInv, LinuxTypeOK
<1> HIDE DEF u
<1>5. Becomes(u)
  BY <1>2 DEF Becomes, u
<1>6. GoesOn(u)
  BY <1>2, <1>3, <1>4, <1>5 DEF GoesOn, Me
<1> QED
  BY <1>2, <1>6, GoesOnKeeps

LEMMA InvokeKeeps ==
  ASSUME LinuxThreadsAssumption, LinuxInv, NEW from, NEW call \in SysCalls, Invoke(from, call),
         call \in IF running = 1 THEN First ELSE Worker,
         running = 1 => from \in Early /\ call \in Early /\ (call \in Alone => from \in Alone),
         call = "clone" => Len(threads) < MaxThreads
  PROVE  LinuxInv'
<1>1. SliceOn /\ Me.pc = from
  BY DEF Invoke, At
<1>2. threads' = [threads EXCEPT ![running] = Now(call, Number[call])]
  BY <1>1, Changes DEF Invoke
<1>3. Number[call] \in Int /\ call \notin {"spawn", "join", "lock", "again", "work"}
  BY Numbers
<1>4. blocked = FALSE /\ words \in [{Lock} \cup Ids -> Nat]
  BY DEF LinuxInv, LinuxTypeOK
<1> QED
  BY <1>1, <1>2, <1>3, <1>4, GoesOnAt DEF Invoke, rest

LEMMA Calling ==
  ASSUME LinuxThreadsAssumption, LinuxInv, SetUp \/ Spawn \/ Leave
  PROVE  LinuxInv'
<1>1. SliceOn /\ Own(running, Me)
  BY MeIs DEF SetUp, Spawn, Leave, Invoke, At
<1>2. Me.pc \in IF running = 1 THEN First ELSE Worker
  BY <1>1 DEF Own
<1>3. CASE SetUp
  <2>1. running = 1 /\ "set_tid_address" \in First \cap Early /\ "start" \in Early \cap Alone
    BY <1>2, <1>3 DEF SetUp, Invoke, At, First, Early, Alone, Worker
  <2> QED
    BY <1>3, <2>1, InvokeKeeps, Numbers DEF SetUp
<1>4. CASE Spawn
  <2>1. running = 1 /\ "clone" \in First \cap (Early \ Alone) /\ "spawn" \in Early
    BY <1>2, <1>4 DEF Spawn, Invoke, At, First, Early, Alone, Worker
  <2> QED
    BY <1>4, <2>1, InvokeKeeps, Numbers DEF Spawn
<1>5. CASE Leave
  <2>1. running # 1 /\ "exit" \in Worker
    BY <1>2, <1>5 DEF Leave, Invoke, At, First, Early, Alone, Worker
  <2> QED
    BY <1>5, <2>1, InvokeKeeps, Numbers DEF Leave
<1> QED
  BY <1>3, <1>4, <1>5

\* The lock's word is nobody's own, and only workers take and give it back.
LEMMA Locking ==
  ASSUME LinuxThreadsAssumption, LinuxInv, TryLock \/ LockSlowly \/ Unlock
  PROVE  LinuxInv'
<1>1. SliceOn /\ Me.pc \in {"lock", "again", "work"}
  BY DEF TryLock, LockSlowly, Unlock, At
<1>2. /\ Me \in ThreadRecord /\ blocked = FALSE
      /\ Told(running, Me, Len(threads)) /\ Own(running, Me)
      /\ running \in 1 .. Len(threads)
  BY <1>1, MeIs
<1>3. running # 1 /\ Me.rax \in {0, EAGAIN} /\ Me.rax \in Int
  BY <1>1, <1>2 DEF Own, Told, First, Early, Alone, EAGAIN
<1>4. words \in [{Lock} \cup Ids -> Nat] /\ Lock \notin 2 .. MaxThreads
  BY DEF LinuxInv, LinuxTypeOK, Lock
<1>5. \A v \in Nat :
         /\ [words EXCEPT ![Lock] = v] \in [{Lock} \cup Ids -> Nat]
         /\ \A i \in 2 .. MaxThreads : [words EXCEPT ![Lock] = v][i] = words[i]
  BY <1>4 DEF Lock, Ids
<1>6. words' \in [{Lock} \cup Ids -> Nat] /\ \A i \in 2 .. MaxThreads : words'[i] = words[i]
  <2>1. words' = words \/ \E v \in {0, 1, 2} : words' = [words EXCEPT ![Lock] = v]
    BY DEF TryLock, LockSlowly, Unlock
  <2>2. CASE words' = words
    BY <1>4, <2>2
  <2>3. ASSUME NEW v \in {0, 1, 2}, words' = [words EXCEPT ![Lock] = v]
        PROVE  words' \in [{Lock} \cup Ids -> Nat] /\ \A i \in 2 .. MaxThreads : words'[i] = words[i]
    <3>1. v \in Nat
      OBVIOUS
    <3> QED
      BY <1>5, <2>3, <3>1
  <2> QED
    BY <2>1, <2>2, <2>3
<1>7. \/ \E place \in {"work", "again", "leave"} :
           threads' = [threads EXCEPT ![running] = Now(place, Me.rax)]
      \/ \E place \in {"futex_wait", "futex_wake"} :
           threads' = [threads EXCEPT ![running] = Now(place, Number[place])]
  <2>1. \/ \E place \in {"work", "again", "leave"} : threads' = [threads EXCEPT ![running].pc = place]
        \/ \E place \in {"futex_wait", "futex_wake"} :
             threads' = [threads EXCEPT ![running].pc = place, ![running].rax = Number[place]]
    BY DEF TryLock, LockSlowly, Unlock, Goto
  <2>2. ASSUME NEW place, threads' = [threads EXCEPT ![running].pc = place]
        PROVE  threads' = [threads EXCEPT ![running] = Now(place, Me.rax)]
    BY <1>1, <2>2, Changes
  <2>3. ASSUME NEW place, threads' = [threads EXCEPT ![running].pc = place, ![running].rax = Number[place]]
        PROVE  threads' = [threads EXCEPT ![running] = Now(place, Number[place])]
    BY <1>1, <2>3, Changes
  <2> QED
    BY <2>1, <2>2, <2>3
<1>8. slice' = "on" /\ blocked' = FALSE /\ joins' = joins /\ UNCHANGED <<bits, joining, running, ended>>
  BY <1>2 DEF TryLock, LockSlowly, Unlock, Quiet, rest
<1>9. {"work", "again", "leave", "futex_wait", "futex_wake"} \subseteq Worker \ {"lock"}
  BY DEF Worker
<1>10. ASSUME NEW place \in {"work", "again", "leave"},
              threads' = [threads EXCEPT ![running] = Now(place, Me.rax)]
       PROVE  LinuxInv'
  <2>1. place \notin SysCalls /\ place \notin {"clone", "spawn", "join"}
    BY Numbers
  <2>2. place \in IF running = 1 THEN First ELSE Worker \ {"lock"}
    BY <1>3, <1>9, <1>10
  <2>3. PICK rax : rax = Me.rax
    OBVIOUS
  <2> QED
    BY <2>2, <2>3, <1>1, <1>3, <1>6, <1>8, <1>9, <1>10, <2>1, GoesOnAt
<1>11. ASSUME NEW place \in {"futex_wait", "futex_wake"},
              threads' = [threads EXCEPT ![running] = Now(place, Number[place])]
       PROVE  LinuxInv'
  <2>1. place \in SysCalls /\ Number[place] \in Int /\ place \notin {"clone", "spawn", "join", "again", "work"}
    BY Numbers
  <2> QED
    BY <1>1, <1>3, <1>6, <1>8, <1>9, <1>11, <2>1, GoesOnAt
<1> QED
  BY <1>7, <1>10, <1>11

\* What was asked for is answered, in a call that does not have to wait.
LEMMA AnswerIs ==
  ASSUME LinuxInv, SliceOn, NEW r, NEW place, Answer(r, place)
  PROVE  threads' = [threads EXCEPT ![running] = Now(place, r)] /\ blocked' = FALSE
<1>1. ~blocked /\ blocked' = FALSE
  BY MeIs DEF Answer, TakeSyscallBlock
<1>2. [Me EXCEPT !.rax = r, !.pc = place] = Now(place, r)
  BY MeIs DEF Now, ThreadRecord
<1>3. threads' = [threads EXCEPT ![running] = [Me EXCEPT !.rax = r, !.pc = place]]
  BY <1>1 DEF Answer, Answered, Me
<1> QED
  BY <1>1, <1>2, <1>3

LEMMA Waking ==
  ASSUME LinuxThreadsAssumption, LinuxInv, Wake
  PROVE  LinuxInv'
<1>1. SliceOn /\ Me.pc = "futex_wake" /\ Own(running, Me)
  BY MeIs DEF Wake, At
<1>2. running # 1 /\ "leave" \in Worker \ {"lock"} /\ "leave" \notin SysCalls
  BY <1>1, Numbers DEF Own, First, Early, Alone, Worker
<1>3. threads' = [threads EXCEPT ![running] = Now("leave", 1)] /\ blocked' = FALSE
  BY <1>1, AnswerIs DEF Wake, FutexWake
<1>4. words' \in [{Lock} \cup Ids -> Nat] /\ words' = words /\ joins' = joins
      /\ UNCHANGED <<bits, joining, running, ended>> /\ slice' = "on"
  BY DEF LinuxInv, LinuxTypeOK, Wake, FutexWake, rest
<1>5. "leave" \notin {"again", "work", "spawn", "clone", "join"} /\ 1 \in Int
  OBVIOUS
<1> QED
  BY <1>1, <1>2, <1>3, <1>4, <1>5, GoesOnAt

LEMMA WaitsAs ==
  ASSUME LinuxInv, SliceOn, NEW p
  PROVE  [threads EXCEPT ![running].state = "blocked", ![running].pred = p]
           = [threads EXCEPT ![running] = [Me EXCEPT !.state = "blocked", !.pred = p]]
BY MeIs DEF Me, LinuxInv, LinuxTypeOK, ThreadRecord

\* A waiter sleeps, its call's number in RAX; or it is told EAGAIN.
LEMMA Waiting ==
  ASSUME LinuxThreadsAssumption, LinuxInv, Wait
  PROVE  LinuxInv'
<1>1. SliceOn /\ Me.pc = "futex_wait"
  BY DEF Wait, At
<1>2. /\ Me \in ThreadRecord /\ Me.state = "runnable" /\ blocked = FALSE
      /\ running \in 1 .. Len(threads) /\ Len(threads) \in 1 .. MaxThreads
      /\ Told(running, Me, Len(threads)) /\ Own(running, Me)
      /\ running = 1 => Len(threads) = MaxThreads
  BY <1>1, MeIs DEF Early, Alone
<1>3. words \in [{Lock} \cup Ids -> Nat] /\ joins \in Nat /\ ended \in {"no", "exit", "group", "deadlock"}
  BY DEF LinuxInv, LinuxTypeOK, LinuxThreadsAssumption
<1>4. UNCHANGED <<bits, joins, joining, running, words, ended>>
  BY DEF Wait, rest
<1> DEFINE a == WaitsFor[1]
           v == WaitsFor[2]
           place == IF running = 1 THEN "join" ELSE "again"
<1>5. a \in Nat /\ v \in Nat
  BY <1>3 DEF WaitsFor, Lock
<1>6. FutexWait(a, v, place)
  BY DEF Wait
<1>7. /\ place \in IF running = 1 THEN First ELSE Worker \ {"lock"}
      /\ place \notin SysCalls /\ place \notin {"spawn", "clone", "work"} /\ place \notin Early /\ place \notin Alone
  BY Numbers DEF First, Worker, Early, Alone
<1> HIDE DEF a, v, place
<1>8. CASE words[a] # v
  <2>1. Answer(EAGAIN, place) /\ slice' = "on"
    BY <1>6, <1>8 DEF FutexWait
  <2>2. threads' = [threads EXCEPT ![running] = Now(place, EAGAIN)] /\ blocked' = FALSE
    BY <1>1, <2>1, AnswerIs
  <2>3. EAGAIN \in Int
    BY DEF EAGAIN
  <2> QED
    BY <1>1, <1>2, <1>3, <1>4, <1>7, <2>1, <2>2, <2>3, GoesOnAt
<1>9. CASE words[a] = v
  <2> DEFINE u == [Me EXCEPT !.state = "blocked", !.pred = <<a, v>>]
  <2>1. threads' = [threads EXCEPT ![running] = u] /\ slice' = "none" /\ blocked' = FALSE
    <3>1. threads' = [threads EXCEPT ![running].state = "blocked", ![running].pred = <<a, v>>]
      BY <1>6, <1>9 DEF FutexWait
    <3>2. threads \in Seq(ThreadRecord)
      BY DEF LinuxInv, LinuxTypeOK
    <3>3. threads' = [threads EXCEPT ![running] = u]
      BY <1>1, <3>1, WaitsAs
    <3> QED
      BY <1>6, <1>9, <3>3 DEF FutexWait, TakeSyscallBlock
  <2>2. /\ u \in ThreadRecord /\ u.pc = "futex_wait" /\ u.rax = Me.rax
        /\ u.clear = Me.clear /\ u.fs = Me.fs
    BY <1>1, <1>2, <1>5 DEF ThreadRecord
  <2> HIDE DEF u
  <2>3. Told(running, u, Len(threads)) /\ Own(running, u)
    BY <1>1, <1>2, <2>2 DEF Told, Own
  <2>4. GoesOn(u)
    BY <1>2, <1>3, <1>4, <2>1, <2>2, <2>3 DEF GoesOn, Becomes, Early, Alone
  <2> QED
    BY <1>1, <1>4, <2>4, GoesOnKeeps
<1> QED
  BY <1>8, <1>9

\* The first thread takes its id, alone still, for the word it will clear.
LEMMA Registering ==
  ASSUME LinuxThreadsAssumption, LinuxInv, SetTidAddress
  PROVE  LinuxInv'
<1>1. SliceOn /\ Me.pc = "set_tid_address"
  BY DEF SetTidAddress, At
<1>2. /\ Me \in ThreadRecord /\ Me.state = "runnable" /\ ~blocked /\ blocked = FALSE
      /\ running \in 1 .. Len(threads) /\ Own(running, Me)
  BY <1>1, MeIs
<1>3. running = 1 /\ Len(threads) = 1 /\ MaxThreads \in Nat \ {0}
  <2>1. running = 1
    BY <1>1, <1>2 DEF Own, Worker
  <2> QED
    BY <1>1, <2>1 DEF LinuxInv, WordsTell, Me, Alone, LinuxThreadsAssumption
<1> DEFINE u == [Me EXCEPT !.rax = 1, !.pc = "spawn", !.clear = 1]
<1>4. threads' = [threads EXCEPT ![running] = u] /\ slice' = "on" /\ blocked' = FALSE
      /\ UNCHANGED <<bits, joins, joining, running, words, ended>>
  <2>1. [Answered(Me, blocked, 1, "spawn") EXCEPT !.clear = 1] = u
    BY <1>2 DEF Answered, ThreadRecord
  <2>2. threads' = [threads EXCEPT ![running] = [Answered(Me, blocked, 1, "spawn") EXCEPT !.clear = 1]]
    BY DEF SetTidAddress, Me
  <2> QED
    BY <2>1, <2>2 DEF SetTidAddress, TakeSyscallBlock, rest
<1>5. /\ u \in ThreadRecord /\ u.pc = "spawn" /\ u.rax = 1 /\ u.clear = 1
      /\ u.state = "runnable" /\ u.fs = Me.fs
  <2>1. "spawn" \in First
    BY DEF First, Early
  <2> DEFINE w == Now("spawn", 1)
  <2>2. /\ w \in ThreadRecord /\ w.pc = "spawn" /\ w.rax = 1 /\ w.state = "runnable" /\ w.fs = Me.fs
    BY <1>1, <2>1, NowIs
  <2>3. u = [w EXCEPT !.clear = 1]
    BY <1>2 DEF Now, ThreadRecord
  <2> HIDE DEF w, u
  <2> QED
    BY <2>2, <2>3 DEF ThreadRecord
<1> HIDE DEF u
<1>6. Told(running, u, Len(threads))
  BY <1>3, <1>5, Numbers DEF Told
<1>7. Own(running, u)
  BY <1>2, <1>3, <1>5 DEF Own, First, Early
<1>8. GoesOn(u)
  <2>1. words \in [{Lock} \cup Ids -> Nat] /\ ended \in {"no", "exit", "group", "deadlock"}
    BY DEF LinuxInv, LinuxTypeOK
  <2>2. "spawn" \in Early \ Alone /\ threads[1].pc \in Early
    BY <1>1, <1>3 DEF Early, Alone, Me
  <2> QED
    BY <1>3, <1>4, <1>5, <1>6, <1>7, <2>1, <2>2 DEF GoesOn, Becomes
<1> QED
  BY <1>1, <1>4, <1>8, GoesOnKeeps

\* The end of a thread clears its own word, and nobody else's.
LEMMA Leaving ==
  ASSUME LinuxThreadsAssumption, LinuxInv, SysExit
  PROVE  LinuxInv'
<1>1. SliceOn /\ Me.pc = "exit"
  BY DEF SysExit, At
<1>2. /\ Me \in ThreadRecord
      /\ running \in 1 .. Len(threads) /\ Len(threads) \in 1 .. MaxThreads
      /\ Told(running, Me, Len(threads)) /\ Own(running, Me)
      /\ running = 1 => Len(threads) = MaxThreads
  BY <1>1, MeIs DEF Early, Alone
<1>3. words \in [{Lock} \cup Ids -> Nat] /\ ended \in {"no", "exit", "group", "deadlock"} /\ blocked = FALSE
  BY DEF LinuxInv, LinuxTypeOK
<1>4. UNCHANGED <<bits, joins, joining, running, blocked>>
  BY DEF SysExit, rest
<1>5. CASE Len(threads) > 1
  <2> DEFINE u == [Me EXCEPT !.state = "finished"]
  <2>1. threads' = [threads EXCEPT ![running] = u]
    <3>1. threads' = [threads EXCEPT ![running].state = "finished"]
      BY <1>5 DEF SysExit, ExitThread
    <3> QED
      BY <3>1 DEF Me
  <2>2. /\ u \in ThreadRecord /\ u.pc = "exit" /\ u.rax = Me.rax
        /\ u.clear = Me.clear /\ u.fs = Me.fs /\ u.state = "finished"
    BY <1>1, <1>2 DEF ThreadRecord
  <2> HIDE DEF u
  <2>3. Told(running, u, Len(threads)) /\ Own(running, u)
    BY <1>1, <1>2, <2>2 DEF Told, Own
  <2>4. words' = words \/ words' = [words EXCEPT ![Me.clear] = 0]
    BY <1>5 DEF SysExit, ExitThread, ClearTid
  <2>5. Me.clear \in {Lock} \cup Ids /\ \A i \in 2 .. MaxThreads : i = Me.clear => i = running
    BY <1>2, LinuxThreadsAssumption DEF Own, Lock, Ids, LinuxThreadsAssumption
  <2>6. /\ words' \in [{Lock} \cup Ids -> Nat]
        /\ \A i \in 2 .. MaxThreads : words'[i] = words[i] \/ i = running
    <3>1. \A i \in 2 .. MaxThreads : i \in {Lock} \cup Ids
      BY DEF Ids
    <3> QED
      BY <1>3, <2>4, <2>5, <3>1
  <2>7. slice' = "none" /\ ended' \in {"no", "exit", "group", "deadlock"}
    BY <1>3, <1>5 DEF SysExit, ExitThread
  <2>8. GoesOn(u)
    BY <1>2, <1>3, <1>4, <2>1, <2>2, <2>3, <2>6, <2>7 DEF GoesOn, Becomes, Early, Alone
  <2> QED
    BY <1>1, <1>4, <2>8, GoesOnKeeps
<1>6. CASE ~(Len(threads) > 1)
  <2>1. UNCHANGED <<threads, slice, words, bits, joins, joining, running, blocked>> /\ ended' = "exit"
    BY <1>4, <1>6 DEF SysExit
  <2> QED
    BY <2>1 DEF LinuxInv, LinuxTypeOK, Told, Own, WordsTell, JoinedIsGone, SliceRuns
<1> QED
  BY <1>5, <1>6

\* The first thread goes from one worker to the next, or ends, or waits.
LEMMA Joining ==
  ASSUME LinuxThreadsAssumption, LinuxInv, Join
  PROVE  LinuxInv'
<1>1. SliceOn /\ Me.pc \in {"spawn", "join"} /\ (Me.pc = "spawn" => Len(threads) = MaxThreads)
  BY DEF Join, At
<1>2. /\ Me \in ThreadRecord /\ blocked = FALSE
      /\ running \in 1 .. Len(threads) /\ Len(threads) \in 1 .. MaxThreads
      /\ Told(running, Me, Len(threads)) /\ Own(running, Me)
      /\ running = 1 /\ Me.pc \notin Early => Len(threads) = MaxThreads
  BY <1>1, MeIs
<1>3. running = 1 /\ Len(threads) = MaxThreads
  BY <1>1, <1>2 DEF Own, Worker, Early, Alone
<1>4. words' \in [{Lock} \cup Ids -> Nat] /\ words' = words
      /\ UNCHANGED <<bits, joining, running, ended>> /\ slice' = "on" /\ blocked' = FALSE
  BY <1>2 DEF Join, LinuxInv, LinuxTypeOK
<1>5. ASSUME NEW call \in {"exit", "exit_group", "futex_wait"}, joins' = joins,
             threads' = [threads EXCEPT ![running].pc = call, ![running].rax = Number[call]]
      PROVE  LinuxInv'
  <2>1. threads' = [threads EXCEPT ![running] = Now(call, Number[call])]
    BY <1>1, <1>5, Changes
  <2>2. Number[call] \in Int /\ call \in SysCalls /\ call \in First /\ call \notin Early
        /\ call \notin Alone /\ call \notin {"spawn", "clone", "join", "again", "work"}
    BY Numbers DEF First, Early, Alone
  <2> QED
    BY <1>1, <1>3, <1>4, <1>5, <2>1, <2>2, GoesOnAt
<1>6. ASSUME joins' = joins + 1, joins + 2 <= MaxThreads, words[joins + 2] = 0, Goto("join")
      PROVE  LinuxInv'
  <2>1. threads' = [threads EXCEPT ![running] = Now("join", Me.rax)]
    BY <1>1, <1>6, Changes DEF Goto
  <2>2. Me.rax \in Int /\ Me.rax \in {Len(threads), EAGAIN}
    BY <1>1, <1>2 DEF Told, ThreadRecord
  <2>3. "join" \in First /\ "join" \notin Early /\ "join" \notin Alone /\ "join" \notin SysCalls
        /\ "join" \notin {"spawn", "clone", "again", "work"}
    BY Numbers DEF First, Early, Alone
  <2>4. PICK rax \in Int : rax = Me.rax
    BY <2>2
  <2> QED
    BY <1>1, <1>3, <1>4, <1>6, <2>1, <2>2, <2>3, <2>4, GoesOnAt
<1>7. joins \in Nat /\ MaxThreads \in Nat
  BY DEF LinuxInv, LinuxTypeOK, LinuxThreadsAssumption
<1>8. \/ \E call \in {"exit", "exit_group", "futex_wait"} :
           threads' = [threads EXCEPT ![running].pc = call, ![running].rax = Number[call]]
           /\ joins' = joins
      \/ joins' = joins + 1 /\ joins + 2 <= MaxThreads /\ words[joins + 2] = 0 /\ Goto("join")
  BY <1>7 DEF Join
<1> QED
  BY <1>5, <1>6, <1>8

\* A worker more: the first thread is told its id, and it starts with zero.
LEMMA Cloning ==
  ASSUME LinuxThreadsAssumption, LinuxInv, Clone
  PROVE  LinuxInv'
<1> DEFINE n == Len(threads)
           id == n + 1
<1>1. SliceOn /\ Me.pc = "clone"
  BY DEF Clone, At
<1>2. /\ Me \in ThreadRecord /\ Me.state = "runnable" /\ ~blocked /\ blocked = FALSE
      /\ running \in 1 .. n /\ n \in 1 .. MaxThreads /\ Own(running, Me)
  BY <1>1, MeIs
<1>3. running = 1
  BY <1>1, <1>2 DEF Own, Worker
<1>4. n < MaxThreads /\ joins = 0 /\ MaxThreads \in Nat
  BY <1>1, <1>3 DEF LinuxInv, WordsTell, Me, Early, LinuxThreadsAssumption
<1>5. /\ threads \in Seq(ThreadRecord) /\ words \in [{Lock} \cup Ids -> Nat]
      /\ \A i \in 1 .. n : Told(i, threads[i], n) /\ Own(i, threads[i])
      /\ \A i \in 2 .. n : words[i] = 0 => threads[i].state = "finished"
  BY DEF LinuxInv, LinuxTypeOK, WordsTell
<1> DEFINE w == Now("spawn", id)
           new == NewThread(id)
           before == [threads EXCEPT ![running] = w]
<1>6. id \in 2 .. MaxThreads /\ id \in Int /\ id \in Nat
  BY <1>2, <1>4
<1>7. /\ w \in ThreadRecord /\ w.pc = "spawn" /\ w.rax = id /\ w.state = "runnable"
      /\ w.fs = Me.fs /\ w.clear = Me.clear
  <2>1. "spawn" \in First
    BY DEF First, Early
  <2> QED
    BY <1>1, <1>6, <2>1, NowIs
<1>8. threads' = Append(before, new) /\ words' = [words EXCEPT ![id] = id]
      /\ slice' = "on" /\ blocked' = FALSE /\ UNCHANGED <<bits, joins, joining, running, ended>>
  <2>1. [Me EXCEPT !.rax = id, !.pc = "spawn"] = w
    BY <1>2 DEF Now, ThreadRecord
  <2>2. before = [threads EXCEPT ![running] = [Me EXCEPT !.rax = id, !.pc = "spawn"]]
    BY <2>1
  <2>3. before = [threads EXCEPT ![running] = Answered(@, blocked, id, "spawn")]
    BY <1>2, <2>2 DEF Answered, Me
  <2> QED
    BY <2>3 DEF Clone, CloneThread, TakeSyscallBlock, rest
<1>9. /\ new \in ThreadRecord /\ new.pc = "lock" /\ new.rax = 0 /\ new.state = "runnable"
      /\ new.fs = id /\ new.clear = id
  BY <1>2, <1>6 DEF NewThread, Thread, ThreadRecord, Worker
<1> HIDE DEF w, new
<1>10. /\ before \in Seq(ThreadRecord) /\ Len(before) = n
       /\ \A i \in 1 .. n : before[i] = IF i = 1 THEN w ELSE threads[i]
  BY <1>2, <1>3, <1>5, <1>7, ExceptSeq
<1> HIDE DEF before
<1>11. /\ threads' \in Seq(ThreadRecord) /\ Len(threads') = id
       /\ \A i \in 1 .. n : threads'[i] = IF i = 1 THEN w ELSE threads[i]
       /\ threads'[id] = new
  BY <1>8, <1>9, <1>10, AppendProperties
<1> HIDE DEF id
<1>12. \A i \in 1 .. id : i \in 1 .. n \/ i = id
  BY <1>2 DEF id
<1>13. id = n + 1 /\ id > n /\ id # 1
  BY <1>2 DEF id
<1>14. \A i \in 1 .. id : (Told(i, threads[i], Len(threads)))'
  <2>1. \A i \in 1 .. n : i # 1 => threads[i].pc \notin {"spawn", "join"}
    BY <1>5 DEF Own, Worker
  <2>2. ASSUME NEW i \in 1 .. n, i # 1 PROVE Told(i, threads'[i], id)
    BY <1>5, <1>11, <2>1, <2>2 DEF Told
  <2>3. Told(1, w, id)
    BY <1>7, Numbers DEF Told
  <2>4. Told(id, new, id)
    BY <1>9, Numbers DEF Told
  <2>5. \A i \in 1 .. id : Told(i, threads'[i], id)
    BY <1>2, <1>11, <1>12, <2>2, <2>3, <2>4
  <2> QED
    BY <1>11, <2>5 DEF Told
<1>15. \A i \in 1 .. id : Own(i, threads[i])'
  <2>1. Own(1, w)
    BY <1>2, <1>3, <1>7 DEF Own, First, Early
  <2>2. Own(id, new)
    BY <1>9, <1>13 DEF Own, Worker
  <2>3. \A i \in 1 .. id : Own(i, threads'[i])
    BY <1>2, <1>5, <1>11, <1>12, <2>1, <2>2
  <2> QED
    BY <1>8, <2>3 DEF Own
<1>16. LinuxTypeOK'
  <2>1. words' \in [{Lock} \cup Ids -> Nat]
    BY <1>5, <1>6, <1>8
  <2>2. running' \in 1 .. id /\ id \in 1 .. MaxThreads
    BY <1>2, <1>6, <1>8, <1>13
  <2> QED
    BY <1>8, <1>11, <2>1, <2>2 DEF LinuxInv, LinuxTypeOK
<1>17. WordsTell'
  <2>1. \A i \in 2 .. id : words'[i] = 0 => threads'[i].state = "finished"
    <3>1. ASSUME NEW i \in 2 .. n, words'[i] = 0 PROVE threads'[i].state = "finished"
      <4>1. i \in 1 .. n /\ i # 1 /\ i # id /\ i \in {Lock} \cup Ids
        BY <1>2, <1>13 DEF Ids
      <4>2. words'[i] = words[i]
        BY <1>5, <1>8, <4>1
      <4> QED
        BY <1>5, <1>11, <3>1, <4>1, <4>2
    <3>2. words'[id] # 0
      BY <1>5, <1>6, <1>8 DEF Ids
    <3>3. \A i \in 2 .. id : i \in 2 .. n \/ i = id
      BY <1>2, <1>13
    <3> QED
      BY <3>1, <3>2, <3>3
  <2>2. threads'[1] = w /\ w.pc \in Early /\ w.pc \notin Alone /\ w.pc # "clone"
    BY <1>2, <1>7, <1>11 DEF Early, Alone
  <2> QED
    BY <1>4, <1>8, <1>11, <2>1, <2>2 DEF WordsTell
<1>18. JoinedIsGone'
  BY <1>4, <1>8 DEF JoinedIsGone
<1>19. SliceRuns'
  BY <1>2, <1>3, <1>7, <1>8, <1>11 DEF SliceRuns
<1> QED
  BY <1>11, <1>14, <1>15, <1>16, <1>17, <1>18, <1>19 DEF LinuxInv

-----------------------------------------------------------------------------
(* The loop of the System.                                                 *)

\* Who is woken keeps its place and its registers.
LEMMA Picking ==
  ASSUME LinuxThreadsAssumption, LinuxInv, Pick
  PROVE  LinuxInv'
<1> DEFINE n == Len(threads)
<1>1. threads \in Seq(ThreadRecord) /\ n \in 1 .. MaxThreads /\ threads' = Polls
  BY DEF LinuxInv, LinuxTypeOK, Pick
<1>2. ASSUME NEW i \in 1 .. n
      PROVE  /\ Polls[i] = Polled(threads[i]) /\ Polls[i] \in ThreadRecord
             /\ Polls[i].pc = threads[i].pc /\ Polls[i].rax = threads[i].rax
             /\ Polls[i].clear = threads[i].clear /\ Polls[i].fs = threads[i].fs
             /\ threads[i].state = "finished" => Polls[i].state = "finished"
  <2>1. threads[i] \in ThreadRecord
    BY <1>1, ElementOfSeq
  <2>2. Polls[i] = Polled(threads[i])
    BY DEF Polls
  <2> DEFINE t == threads[i]
             awake == [t EXCEPT !.state = "runnable", !.pred = <<>>]
  <2>3. Polled(t) = t \/ (Polled(t) = awake /\ t.state = "blocked")
    BY DEF Polled
  <2>4. /\ awake \in ThreadRecord /\ awake.pc = t.pc /\ awake.rax = t.rax
        /\ awake.clear = t.clear /\ awake.fs = t.fs
    BY <2>1 DEF ThreadRecord
  <2> HIDE DEF awake
  <2> QED
    BY <2>1, <2>2, <2>3, <2>4
<1>3. /\ threads' \in Seq(ThreadRecord) /\ Len(threads') = n
      /\ DOMAIN Polls = 1 .. n
  <2>1. n \in Nat
    BY <1>1, LenProperties
  <2>2. Polls \in [1 .. n -> ThreadRecord]
    BY <1>2 DEF Polls
  <2> QED
    BY <1>1, <2>1, <2>2, LenProperties
<1>4. \A i \in 1 .. n : (Told(i, threads[i], Len(threads)) /\ Own(i, threads[i]))'
  <2>1. bits' = bits /\ threads' = Polls /\ Len(threads') = Len(threads)
    BY <1>1, <1>3 DEF Pick, rest
  <2>2. \A i \in 1 .. n : Told(i, threads[i], Len(threads)) /\ Own(i, threads[i])
    BY DEF LinuxInv
  <2> QED
    BY <1>2, <2>1, <2>2 DEF Told, Own
<1>5. /\ running' \in 1 .. n /\ slice' \in {"none", "fresh"}
      /\ slice' # "none" => threads'[running'].state = "runnable"
      /\ ended' \in {"no", "deadlock"}
  <2>1. running \in 1 .. n
    BY DEF LinuxInv, LinuxTypeOK
  <2> QED
    BY <1>1, <2>1 DEF Pick
<1>6. UNCHANGED <<bits, joins, joining, blocked, words>>
  BY DEF Pick, rest
<1>7. LinuxTypeOK'
  BY <1>1, <1>3, <1>5, <1>6 DEF LinuxInv, LinuxTypeOK
<1>8. WordsTell'
  <2>1. 1 \in 1 .. n /\ \A i \in 2 .. n : i \in 1 .. n
    BY <1>1
  <2> QED
    BY <1>1, <1>2, <1>3, <1>6, <2>1 DEF LinuxInv, WordsTell
<1>9. JoinedIsGone'
  <2>1. joins = 0 \/ n = MaxThreads
    BY DEF LinuxInv, WordsTell
  <2>2. \A i \in 2 .. joins + 1 : i \in 1 .. n
    BY <1>1, <2>1, LinuxThreadsAssumption DEF LinuxInv, LinuxTypeOK, LinuxThreadsAssumption
  <2> QED
    BY <1>1, <1>2, <1>6, <2>2 DEF LinuxInv, JoinedIsGone
<1> QED
  BY <1>3, <1>4, <1>5, <1>7, <1>8, <1>9 DEF LinuxInv, SliceRuns

LEMMA Stopping ==
  ASSUME LinuxThreadsAssumption, LinuxInv, Expire \/ ExitGroup \/ UNCHANGED linuxVars
  PROVE  LinuxInv'
<1>1. UNCHANGED <<bits, threads, running, blocked, words, joins, joining>>
  BY DEF Expire, ExitGroup, linuxVars, rest
<1>2. slice' \in {slice, "none"} /\ ended' \in {ended, "group"}
  BY DEF Expire, ExitGroup, linuxVars
<1> QED
  BY <1>1, <1>2 DEF LinuxInv, LinuxTypeOK, Told, Own, WordsTell, JoinedIsGone, SliceRuns

LEMMA Starting ==
  ASSUME LinuxThreadsAssumption, LinuxInit
  PROVE  LinuxInv
<1> DEFINE t == Thread("start", IF bits = 64 THEN 1 ELSE 0, IF bits = 32 THEN 1 ELSE 0, 0)
<1>1. /\ t \in ThreadRecord /\ t.pc = "start" /\ t.clear = 0 /\ t.fs = (IF bits = 64 THEN 1 ELSE 0)
      /\ "start" \in First
  <2>1. "start" \in First
    BY DEF First, Early, Alone
  <2> QED
    BY <2>1 DEF Thread, ThreadRecord
<1> HIDE DEF t
<1>2. threads = <<t>>
  BY DEF LinuxInit, t
<1>3. threads \in Seq(ThreadRecord) /\ Len(threads) = 1 /\ threads[1] = t
  BY <1>1, <1>2
<1>4. LinuxTypeOK
  <2>1. MaxThreads \in Nat \ {0} /\ bits \in {32, 64}
    BY DEF LinuxThreadsAssumption, LinuxInit
  <2> QED
    BY <1>3, <2>1 DEF LinuxInit, LinuxTypeOK
<1>5. Told(1, t, 1) /\ Own(1, t)
  BY <1>1, Numbers DEF Told, Own
<1>6. WordsTell
  BY <1>1, <1>3 DEF WordsTell, LinuxInit, Early, Alone
<1>7. JoinedIsGone /\ SliceRuns
  BY DEF JoinedIsGone, SliceRuns, LinuxInit
<1> QED
  BY <1>3, <1>4, <1>5, <1>6, <1>7 DEF LinuxInv

-----------------------------------------------------------------------------
(* Theorems.                                                               *)

LEMMA EveryLinuxStep ==
  ASSUME LinuxThreadsAssumption, LinuxInv, [LinuxNext]_linuxVars
  PROVE  LinuxInv'
BY Picking, Stopping, Calling, Registering, Cloning, Joining, Waiting, Waking, Leaving, Locking
   DEF LinuxNext, LinuxStep

LEMMA LinuxInvHolds == LinuxSpec => []LinuxInv
<1>1. LinuxInit => LinuxInv
  BY Starting, LinuxThreadsAssumption
<1>2. LinuxInv /\ [LinuxNext]_linuxVars => LinuxInv'
  BY EveryLinuxStep, LinuxThreadsAssumption
<1> QED
  BY <1>1, <1>2, PTL DEF LinuxSpec

\* Every thread record is what Thread may hold, the one that runs is in the table, and
\* the block flag of a call is taken before the next call is made (LinuxThread,
\* take_syscall_block).
THEOREM LinuxTypeCorrect == LinuxSpec => []LinuxTypeOK
BY LinuxInvHolds, PTL DEF LinuxInv

\* For any number of workers and either width: each thread goes on with the answer to
\* its own call, in a 64-bit guest with a thread pointer nobody else has, and whoever
\* has been joined runs no more (on_syscall, clone_thread, exit).
THEOREM EveryThreadIsTold == LinuxSpec => []ThreadsAreTold
<1>1. LinuxInv => ThreadsAreTold
  <2> SUFFICES ASSUME LinuxInv PROVE ThreadsAreTold
    OBVIOUS
  <2>1. \A i \in 1 .. Len(threads) : Told(i, threads[i], Len(threads)) /\ Own(i, threads[i])
    BY DEF LinuxInv
  <2>2. CallsAreAnswered
    BY <2>1 DEF CallsAreAnswered, Told
  <2>3. OwnThreadPointer
    <3>1. \A i \in 1 .. Len(threads) : bits = 64 => ThreadPointer(threads[i]) = i
      BY <2>1 DEF ThreadPointer, Own
    <3> QED
      BY <3>1 DEF OwnThreadPointer
  <2> QED
    BY <2>2, <2>3 DEF LinuxInv, ThreadsAreTold
<1> QED
  BY <1>1, LinuxInvHolds, PTL

=============================================================================
