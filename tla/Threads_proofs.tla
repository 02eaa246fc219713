--------------------------- MODULE Threads_proofs ---------------------------
(***************************************************************************)
(* Proofs about the threads of a guest: the scheduler of GuestThreads, for *)
(* any objects, any number of threads and any timeouts; then a guest that  *)
(* is saved and resumed, for any threads and pages.                        *)
(***************************************************************************)
EXTENDS GuestThreads, SavedState, FiniteSetTheorems, TLAPS

-----------------------------------------------------------------------------
(* Inside a slice the current thread is runnable and has instructions left. *)
SliceInv == phase = "run" => slice_left > 0 /\ state[current] = "Runnable"

(* Lemmas about the operators the actions share.                           *)

(* Counting instructions keeps every deadline a deadline. *)
LEMMA ElapsedType ==
    ASSUME TypeOK, NEW n \in Nat
    PROVE  Elapsed(n) \in [Threads -> Nat \cup {NoTimer}]
BY DEF TypeOK, Elapsed, Less, NoTimer

(* Acquiring a mutex makes the current thread its owner. *)
LEMMA AcquiredMutexType ==
    ASSUME NEW o \in SyncObject, o.kind = "Mutex", current \in Threads
    PROVE  /\ Acquired(o) \in SyncObject
           /\ Acquired(o).kind = "Mutex"
<1>1. Acquired(o) = [o EXCEPT !.owner = current, !.recursion = o.recursion + 1]
  BY DEF Acquired
<1>2. o.recursion + 1 \in Nat
  BY DEF SyncObject
<1> QED
  BY <1>1, <1>2 DEF SyncObject

(* Acquiring an available object leaves an object of the same kind. *)
LEMMA AcquiredType ==
    ASSUME TypeOK, NEW h \in Handles, Available(h)
    PROVE  /\ Acquired(sync_objects[h]) \in SyncObject
           /\ Acquired(sync_objects[h]).kind = sync_objects[h].kind
<1> DEFINE o == sync_objects[h]
<1>1. o \in SyncObject
  BY DEF TypeOK
<1>a. current \in Threads
  BY ThreadsAssumption DEF TypeOK, Live, Threads
<1>2. CASE o.kind = "Event"
  BY <1>1, <1>2 DEF Acquired, SyncObject
<1>3. CASE o.kind = "Semaphore"
  <2>1. o.count > 0
    BY <1>1, <1>3 DEF Available
  <2> QED
    BY <1>1, <1>3, <2>1 DEF Acquired, SyncObject
<1>4. CASE o.kind = "Mutex"
  BY <1>1, <1>a, <1>4, AcquiredMutexType
<1>5. CASE o.kind \in {"None", "Thread"}
  BY <1>1, <1>5 DEF Acquired, SyncObject
<1> QED
  BY <1>1, <1>2, <1>3, <1>4, <1>5 DEF SyncObject

LEMMA ReleasedType ==
    ASSUME NEW o \in SyncObject
    PROVE  /\ Released(o) \in SyncObject
           /\ Released(o).kind = o.kind
           /\ Released(o).signalled = o.signalled
<1>1. o.recursion \in Nat
  BY DEF SyncObject
<1>2. CASE o.recursion <= 1
  BY <1>2 DEF Released, SyncObject
<1>3. CASE ~(o.recursion <= 1)
  <2>1. o.recursion - 1 \in Nat
    BY <1>1, <1>3
  <2>2. Released(o) = [o EXCEPT !.recursion = o.recursion - 1]
    BY <1>3 DEF Released
  <2> QED
    BY <2>1, <2>2 DEF SyncObject
<1> QED
  BY <1>2, <1>3

(* The grant table keeps its type, whichever handles were acquired. *)
LEMMA GrantedType ==
    ASSUME TypeOK, NEW t \in Threads, NEW hs
    PROVE  Granted(t, hs) \in [Threads -> [Objects -> Nat]]
BY DEF TypeOK, Granted

(* The part of the state a slice step changes when the thread goes on. *)
LEMMA HookType ==
    ASSUME TypeOK, SliceInv, NEW r \in Rax, NEW y \in BOOLEAN, Hook(r, y)
    PROVE  /\ state' = state /\ wait_handle' = wait_handle
           /\ wake_at' \in [Threads -> Nat \cup {NoTimer}]
           /\ saved' = saved /\ current' = current
           /\ rax' \in Rax /\ view' \in [Threads -> Rax]
           /\ slice_left' \in 0 .. Quantum
           /\ phase' \in {"wake", "run"}
           /\ scan' \in 0 .. nthreads
<1>1. Elapsed(1) \in [Threads -> Nat \cup {NoTimer}]
  BY ElapsedType
<1>2. /\ slice_left' \in 0 .. Quantum
      /\ phase' \in {"wake", "run"}
      /\ scan' \in 0 .. nthreads
  BY ThreadsAssumption DEF Hook, Continue, TypeOK, SliceInv
<1> QED
  BY <1>1, <1>2 DEF Hook, Return, TypeOK

(* The same for a step that blocks the current thread. *)
LEMMA BlockType ==
    ASSUME TypeOK, NEW h \in Handles \cup {NoHandle}, NEW d \in Nat \cup {NoTimer},
           Block(h, d)
    PROVE  /\ state' \in [Threads -> {"Runnable", "Blocked", "Finished"}]
           /\ wait_handle' \in [Threads -> Handles \cup {NoHandle}]
           /\ wake_at' \in [Threads -> Nat \cup {NoTimer}]
           /\ slice_left' = 0 /\ phase' = "wake" /\ scan' = 0
<1>1. Elapsed(1) \in [Threads -> Nat \cup {NoTimer}]
  BY ElapsedType
<1> QED
  BY <1>1, ThreadsAssumption DEF Block, Continue, TypeOK

(* A deadline is a number of instructions, positive when the timeout is. *)
LEMMA DeadlineType ==
    ASSUME NEW ms \in Timeouts \cup {Infinite}
    PROVE  Deadline(ms) \in (Nat \ {0}) \cup {NoTimer}
BY ThreadsAssumption DEF Deadline, Infinite, NoTimer

(* What the current thread calls is described by a Call record. *)
LEMMA CallsType ==
    ASSUME TypeOK, NEW mode \in {"any", "all"}, NEW wants \in SUBSET Handles,
           NEW got \in SUBSET Handles, NEW ms, Calls(mode, wants, got, ms)
    PROVE  call' \in [Threads -> Call]
BY DEF TypeOK, Calls, Call

LEMMA FinishedCallType ==
    ASSUME TypeOK, Finished_call
    PROVE  call' \in [Threads -> Call]
BY DEF TypeOK, Finished_call, Call, NoCall

(* Taking available handles keeps the object table and the grants typed. *)
LEMMA TakeType ==
    ASSUME TypeOK, NEW hs \in SUBSET Handles, \A h \in hs : Available(h), Take(hs)
    PROVE  /\ sync_objects' \in [Handles -> SyncObject]
           /\ grants' \in [Threads -> [Objects -> Nat]]
           /\ \A h \in Handles : sync_objects'[h].kind = sync_objects[h].kind
<1>1. \A h \in hs : /\ Acquired(sync_objects[h]) \in SyncObject
                    /\ Acquired(sync_objects[h]).kind = sync_objects[h].kind
  BY AcquiredType
<1>2. current \in Threads
  BY ThreadsAssumption DEF TypeOK, Live, Threads
<1>3. grants' \in [Threads -> [Objects -> Nat]]
  BY <1>2, GrantedType DEF Take
<1> QED
  BY <1>1, <1>3 DEF Take, TypeOK

(* The index WaitForMultipleObjects answers is a result. *)
LEMMA ResultIndex ==
    ASSUME NEW n \in 1 .. 64, NEW i \in 1 .. n
    PROVE  i - 1 \in Rax
BY DEF Rax, WaitTimeout

(* The handles of a wait list are handles. *)
LEMMA WaitListType ==
    ASSUME NEW hs \in WaitLists
    PROVE  /\ Len(hs) \in 1 .. 64
           /\ \A i \in 1 .. Len(hs) : hs[i] \in Handles
           /\ ToSet(hs) \in SUBSET Handles
BY ObjectsAssumption DEF Handles, Threads, ToSet

-----------------------------------------------------------------------------
(* Type correctness.                                                       *)

TypeInv == TypeOK /\ SliceInv

LEMMA InitType == Init => TypeInv
<1> SUFFICES ASSUME Init PROVE TypeInv
  OBVIOUS
<1>1. sync_objects \in [Handles -> SyncObject]
  BY ThreadsAssumption
     DEF Init, SyncObject, ThreadObject, NoObject, Object, Threads, NoOwner
<1>2. call \in [Threads -> Call]
  BY DEF Init, Call, NoCall
<1>3. /\ nthreads \in 1 .. MaxThreads
      /\ current \in Live
      /\ scan \in 0 .. nthreads
      /\ slice_left \in 0 .. Quantum
  BY ThreadsAssumption DEF Init, Live
<1>4. /\ state \in [Threads -> {"Runnable", "Blocked", "Finished"}]
      /\ wait_handle \in [Threads -> Handles \cup {NoHandle}]
      /\ wake_at \in [Threads -> Nat \cup {NoTimer}]
      /\ grants \in [Threads -> [Objects -> Nat]]
  BY DEF Init
<1>5. /\ saved \in [Threads -> Rax] /\ view \in [Threads -> Rax] /\ rax \in Rax
      /\ phase = "wake"
  BY DEF Init, Rax, WaitTimeout
<1> QED
  BY <1>1, <1>2, <1>3, <1>4, <1>5 DEF TypeInv, TypeOK, SliceInv

(* The scheduling pass. *)
LEMMA PassType == TypeInv /\ Pass => TypeInv'
<1> SUFFICES ASSUME TypeInv, Pass PROVE TypeInv'
  OBVIOUS
<1> USE DEF TypeInv
<1>0. Live \subseteq Threads
  BY ThreadsAssumption DEF TypeOK, Live, Threads
<1>1. ASSUME NEW t \in Threads, WakeOnTimer(t) PROVE TypeInv'
  BY <1>1 DEF WakeOnTimer, Visited, MakeRunnable, TypeOK, SliceInv, Live, history
<1>2. ASSUME NEW t \in Threads, WakeOnObject(t) PROVE TypeInv'
  <2> DEFINE h == wait_handle[t]
  <2>1. h \in Handles /\ Available(h)
    BY <1>2 DEF WakeOnObject, TypeOK
  <2>2. sync_objects' \in [Handles -> SyncObject]
    BY <1>2, <2>1, AcquiredType DEF WakeOnObject, TypeOK
  <2>3. grants' \in [Threads -> [Objects -> Nat]]
    BY <1>2, GrantedType DEF WakeOnObject
  <2>4. call' \in [Threads -> Call]
    BY <1>2, <2>1 DEF WakeOnObject, TypeOK, Call
  <2>5. /\ state' \in [Threads -> {"Runnable", "Blocked", "Finished"}]
        /\ wait_handle' \in [Threads -> Handles \cup {NoHandle}]
        /\ wake_at' \in [Threads -> Nat \cup {NoTimer}]
        /\ scan' \in 0 .. nthreads
    BY <1>2 DEF WakeOnObject, Visited, MakeRunnable, TypeOK
  <2>6. /\ phase' = phase /\ phase = "wake"
        /\ UNCHANGED <<nthreads, saved, current, rax, slice_left, view>>
    BY <1>2 DEF WakeOnObject, Visited
  <2> QED
    BY <2>2, <2>3, <2>4, <2>5, <2>6 DEF TypeOK, SliceInv, Live
<1>3. ASSUME NEW t \in Threads, LeaveAsIs(t) PROVE TypeInv'
  BY <1>3 DEF LeaveAsIs, Visited, TypeOK, SliceInv, Live, threadVars, history
<1>4. ASSUME NEW i \in Threads, Dispatch(i) PROVE TypeInv'
  <2>1. i \in Live /\ state[i] = "Runnable"
    BY <1>4 DEF Dispatch, NextRunnable
  <2> QED
    BY <1>0, <1>4, <2>1, ThreadsAssumption
       DEF Dispatch, SwitchTo, TypeOK, SliceInv, Live, history
<1>5. ASSUME Idle PROVE TypeInv'
  <2>1. ASSUME NEW first \in Timed,
               wake_at' = Elapsed(IF wake_at[first] > Quantum THEN wake_at[first] ELSE Quantum)
        PROVE  wake_at' \in [Threads -> Nat \cup {NoTimer}]
    <3>1. wake_at[first] \in Nat
      BY <1>0 DEF Timed, TypeOK
    <3> QED
      BY <2>1, <3>1, ElapsedType, ThreadsAssumption
  <2>2. wake_at' \in [Threads -> Nat \cup {NoTimer}]
    BY <1>5, <2>1 DEF Idle, TypeOK
  <2> QED
    BY <1>5, <2>2 DEF Idle, TypeOK, SliceInv, Live, history
<1> QED
  BY <1>1, <1>2, <1>3, <1>4, <1>5 DEF Pass

(* What a slice step must say besides HookType or BlockType. *)
LEMMA HookTypeInv ==
    ASSUME TypeInv, NEW r \in Rax, NEW y \in BOOLEAN, Hook(r, y),
           nthreads' \in nthreads .. MaxThreads,
           sync_objects' \in [Handles -> SyncObject],
           grants' \in [Threads -> [Objects -> Nat]],
           call' \in [Threads -> Call]
    PROVE  TypeInv'
<1> USE DEF TypeInv
<1>1. TypeOK'
  <2>1. /\ state' = state /\ wait_handle' = wait_handle
        /\ wake_at' \in [Threads -> Nat \cup {NoTimer}]
        /\ saved' = saved /\ current' = current
        /\ rax' \in Rax /\ view' \in [Threads -> Rax]
        /\ slice_left' \in 0 .. Quantum
        /\ phase' \in {"wake", "run"}
        /\ scan' \in 0 .. nthreads
    BY HookType
  <2>2. /\ nthreads' \in 1 .. MaxThreads
        /\ current' \in Live'
        /\ scan' \in 0 .. nthreads'
    <3>1. \A n \in nthreads .. MaxThreads :
             /\ n \in 1 .. MaxThreads
             /\ current \in 0 .. n - 1
             /\ 0 .. nthreads \subseteq 0 .. n
      BY ThreadsAssumption DEF TypeOK, Live
    <3> QED
      BY <2>1, <3>1, Zenon DEF Live
  <2>3. phase' \in {"wake", "run", "exited", "deadlock"}
    BY <2>1
  <2> QED
    BY <2>1, <2>2, <2>3 DEF TypeOK
<1>2. SliceInv'
  BY DEF SliceInv, Hook, Continue, TypeOK
<1> QED
  BY <1>1, <1>2

LEMMA BlockTypeInv ==
    ASSUME TypeInv, NEW h \in Handles \cup {NoHandle}, NEW d \in Nat \cup {NoTimer},
           Block(h, d), Return(0), UNCHANGED <<nthreads, saved, current>>,
           sync_objects' \in [Handles -> SyncObject],
           grants' \in [Threads -> [Objects -> Nat]],
           call' \in [Threads -> Call]
    PROVE  TypeInv'
<1> USE DEF TypeInv
<1>1. /\ state' \in [Threads -> {"Runnable", "Blocked", "Finished"}]
      /\ wait_handle' \in [Threads -> Handles \cup {NoHandle}]
      /\ wake_at' \in [Threads -> Nat \cup {NoTimer}]
      /\ slice_left' = 0 /\ phase' = "wake" /\ scan' = 0
  BY BlockType
<1>2. rax' \in Rax /\ view' \in [Threads -> Rax]
  <2>1. 0 \in Rax
    BY DEF Rax, WaitTimeout
  <2> QED
    BY <2>1 DEF Return, TypeOK
<1> QED
  BY <1>1, <1>2, ThreadsAssumption DEF TypeOK, SliceInv, Live

(* The waiting hooks. *)
LEMMA WaitType == TypeInv /\ Wait => TypeInv'
<1> SUFFICES ASSUME TypeInv, Wait PROVE TypeInv'
  OBVIOUS
<1> USE DEF TypeInv
<1>0. /\ 0 \in Rax /\ WaitTimeout \in Rax
      /\ \A i \in 1 .. 64 : i - 1 \in Rax
      /\ nthreads \in nthreads .. MaxThreads
      /\ Waitable \subseteq Handles
  BY ThreadsAssumption DEF Rax, WaitTimeout, TypeOK, Waitable, Handles, Live, Threads
<1>1. ASSUME NEW ms \in Timeouts \cup {0, Infinite}, ms # 0
      PROVE  Deadline(ms) \in Nat \cup {NoTimer}
  BY <1>1, DeadlineType
<1>2. ASSUME NEW ms \in Timeouts \cup {0, Infinite}, NEW h \in Waitable,
             WaitForSingleObject(h, ms)
      PROVE  TypeInv'
  <2>0. h \in Handles /\ nthreads' = nthreads
    BY <1>0, <1>2 DEF WaitForSingleObject
  <2>1. CASE Available(h) /\ Take({h}) /\ Calls("all", {h}, {h}, ms) /\ Hook(0, FALSE)
    BY <1>0, <2>0, <2>1, TakeType, CallsType, HookTypeInv
  <2>2. CASE /\ Hook(WaitTimeout, FALSE) /\ Finished_call
             /\ UNCHANGED <<sync_objects, grants>>
    BY <1>0, <2>0, <2>2, FinishedCallType, HookTypeInv DEF TypeOK
  <2>3. CASE /\ ms # 0 /\ Block(h, Deadline(ms)) /\ Return(0)
             /\ Calls("all", {h}, {}, ms)
             /\ UNCHANGED <<saved, sync_objects, current, grants>>
    BY <1>1, <2>0, <2>3, CallsType, BlockTypeInv DEF TypeOK
  <2> QED
    BY <1>2, <2>1, <2>2, <2>3 DEF WaitForSingleObject
<1>3. ASSUME NEW ms \in Timeouts \cup {0, Infinite}, NEW hs \in WaitLists, WaitAny(hs, ms)
      PROVE  TypeInv'
  <2>0. /\ nthreads' = nthreads /\ ToSet(hs) \in SUBSET Handles
        /\ Len(hs) \in 1 .. 64 /\ hs[1] \in Handles
    BY <1>3, WaitListType DEF WaitAny
  <2>1. ASSUME NEW i \in 1 .. Len(hs), Available(hs[i]), Take({hs[i]}),
               Calls("any", ToSet(hs), {hs[i]}, ms), Hook(i - 1, FALSE)
        PROVE  TypeInv'
    <3>1. hs[i] \in Handles /\ i - 1 \in Rax
      BY <2>0, WaitListType, ResultIndex
    <3> QED
      BY <1>0, <2>0, <2>1, <3>1, TakeType, CallsType, HookTypeInv
  <2>2. CASE /\ Calls("any", ToSet(hs), {}, ms) /\ UNCHANGED <<sync_objects, grants>>
             /\ Hook(0, FALSE)
    BY <1>0, <2>0, <2>2, CallsType, HookTypeInv DEF TypeOK
  <2>3. CASE /\ Calls("any", ToSet(hs), {}, ms) /\ UNCHANGED <<sync_objects, grants>>
             /\ ms # 0 /\ Block(hs[1], Deadline(ms)) /\ Return(0)
             /\ UNCHANGED <<saved, current>>
    BY <1>1, <2>0, <2>3, CallsType, BlockTypeInv DEF TypeOK
  <2> QED
    BY <1>3, <2>1, <2>2, <2>3 DEF WaitAny
<1>4. ASSUME NEW ms \in Timeouts \cup {0, Infinite}, NEW hs \in WaitLists, WaitAll(hs, ms)
      PROVE  TypeInv'
  <2>1. PICK n \in 0 .. Len(hs) :
          /\ \A i \in 1 .. n : Available(hs[i])
          /\ Take({hs[i] : i \in 1 .. n})
          /\ Calls("all", ToSet(hs), {hs[i] : i \in 1 .. n}, ms)
          /\ IF n = Len(hs) \/ ms = 0
             THEN Hook(0, FALSE)
             ELSE /\ Block(hs[n + 1], Deadline(ms))
                  /\ Return(0)
                  /\ UNCHANGED <<saved, current>>
    BY <1>4 DEF WaitAll
  <2> DEFINE taken == {hs[i] : i \in 1 .. n}
  <2>2. /\ taken \in SUBSET Handles /\ ToSet(hs) \in SUBSET Handles
        /\ \A h \in taken : Available(h)
        /\ n # Len(hs) => hs[n + 1] \in Handles
    BY <2>1, WaitListType
  <2>3. /\ sync_objects' \in [Handles -> SyncObject]
        /\ grants' \in [Threads -> [Objects -> Nat]]
        /\ call' \in [Threads -> Call]
        /\ nthreads' = nthreads
    BY <1>4, <2>1, <2>2, TakeType, CallsType DEF WaitAll
  <2>4. CASE n = Len(hs) \/ ms = 0
    BY <1>0, <2>1, <2>3, <2>4, HookTypeInv
  <2>5. CASE ~(n = Len(hs) \/ ms = 0)
    BY <1>1, <2>1, <2>2, <2>3, <2>5, BlockTypeInv
  <2> QED
    BY <2>4, <2>5
<1> QED
  BY <1>2, <1>3, <1>4 DEF Wait

(* Creating, signalling and releasing objects. *)
LEMMA UseObjectType == TypeInv /\ UseObject => TypeInv'
<1> SUFFICES ASSUME TypeInv, UseObject PROVE TypeInv'
  OBVIOUS
<1> USE DEF TypeInv
<1>0. /\ 1 \in Rax
      /\ nthreads \in nthreads .. MaxThreads
      /\ current \in Threads
  BY ThreadsAssumption DEF Rax, WaitTimeout, TypeOK, Live, Threads
<1>a. \A h \in Objects : h \in Handles /\ sync_objects[h] \in SyncObject
  BY DEF TypeOK, Handles
<1>b. ASSUME NEW h \in Objects, NEW o \in SyncObject,
             sync_objects' = [sync_objects EXCEPT ![h] = o],
             grants' \in [Threads -> [Objects -> Nat]],
             Hook(1, FALSE), Finished_call, UNCHANGED nthreads
      PROVE  TypeInv'
  <2>1. sync_objects' \in [Handles -> SyncObject]
    BY <1>b DEF TypeOK
  <2> QED
    BY <1>0, <1>b, <2>1, FinishedCallType, HookTypeInv
<1>1. ASSUME NEW h \in Objects, NEW signalled \in BOOLEAN, CreateObject(h, signalled)
      PROVE  TypeInv'
  <2> DEFINE event     == Object("Event", h \in ManualReset, signalled, 0, NoOwner)
             semaphore == Object("Semaphore", FALSE, FALSE, InitialCount[h], NoOwner)
             mutex     == Object("Mutex", FALSE, FALSE, 0, NoOwner)
             owned     == Kind[h] = "Mutex" /\ signalled
             created   == CASE Kind[h] = "Event"     -> event
                            [] Kind[h] = "Semaphore" -> semaphore
                            [] Kind[h] = "Mutex"     -> IF owned THEN Acquired(mutex)
                                                                 ELSE mutex
  <2>1. event \in SyncObject /\ semaphore \in SyncObject /\ mutex \in SyncObject
    BY ObjectsAssumption DEF Object, SyncObject
  <2>2. Acquired(mutex) \in SyncObject
    <3>1. mutex.kind = "Mutex"
      BY DEF Object
    <3> QED
      BY <1>0, <2>1, <3>1, AcquiredMutexType
  <2>3. created \in SyncObject
    BY <2>1, <2>2, ObjectsAssumption
  <2>4. grants' \in [Threads -> [Objects -> Nat]]
    BY <1>0, <1>1 DEF CreateObject, TypeOK
  <2>5. /\ sync_objects' = [sync_objects EXCEPT ![h] = created]
        /\ Hook(1, FALSE) /\ Finished_call /\ UNCHANGED nthreads
    BY <1>1 DEF CreateObject
  <2> HIDE DEF created
  <2> QED
    BY <1>b, <2>3, <2>4, <2>5
<1>2. ASSUME NEW h \in Objects, SetEvent(h) \/ ResetEvent(h)
      PROVE  TypeInv'
  <2>1. \A b \in BOOLEAN : [sync_objects[h] EXCEPT !.signalled = b] \in SyncObject
    BY <1>a DEF SyncObject
  <2>2. PICK b \in BOOLEAN :
          sync_objects' = [sync_objects EXCEPT ![h] = [sync_objects[h] EXCEPT !.signalled = b]]
    BY <1>2, <1>a DEF SetEvent, ResetEvent, TypeOK
  <2> QED
    BY <1>b, <1>2, <2>1, <2>2 DEF SetEvent, ResetEvent, TypeOK
<1>3. ASSUME NEW h \in Objects, ReleaseMutex(h)
      PROVE  TypeInv'
  <2>1. Released(sync_objects[h]) \in SyncObject
    BY <1>a, ReleasedType
  <2>2. grants' \in [Threads -> [Objects -> Nat]]
    <3>1. grants[current][h] \in Nat /\ grants[current][h] > 0
      BY <1>0, <1>3 DEF ReleaseMutex, TypeOK
    <3>2. grants[current][h] - 1 \in Nat
      BY <3>1
    <3> QED
      BY <1>0, <1>3, <3>2 DEF ReleaseMutex, TypeOK
  <2>3. sync_objects' = [sync_objects EXCEPT ![h] = Released(sync_objects[h])]
    BY <1>3 DEF ReleaseMutex
  <2>4. Hook(1, FALSE) /\ Finished_call /\ UNCHANGED nthreads
    BY <1>3 DEF ReleaseMutex
  <2> QED
    BY <1>b, <2>1, <2>2, <2>3, <2>4
<1>4. ASSUME NEW h \in Objects, ReleaseSemaphore(h)
      PROVE  TypeInv'
  <2> DEFINE o == sync_objects[h]
             released == [o EXCEPT !.count = o.count + 1]
  <2>1. released \in SyncObject
    BY <1>a DEF SyncObject
  <2>2. grants' \in [Threads -> [Objects -> Nat]]
    <3>1. grants[current][h] \in Nat /\ grants[current][h] > 0
      BY <1>0, <1>4 DEF ReleaseSemaphore, TypeOK
    <3>2. grants[current][h] - 1 \in Nat
      BY <3>1
    <3> QED
      BY <1>0, <1>4, <3>2 DEF ReleaseSemaphore, TypeOK
  <2>3. sync_objects' = [sync_objects EXCEPT ![h] = released]
    BY <1>4, <1>a DEF ReleaseSemaphore, TypeOK
  <2>4. Hook(1, FALSE) /\ Finished_call /\ UNCHANGED nthreads
    BY <1>4 DEF ReleaseSemaphore
  <2> HIDE DEF released
  <2> QED
    BY <1>b, <2>1, <2>2, <2>3, <2>4
<1> QED
  BY <1>1, <1>2, <1>3, <1>4 DEF UseObject

(* The rest of the slice. *)
LEMMA SliceType == TypeInv /\ Slice => TypeInv'
<1> SUFFICES ASSUME TypeInv, Slice PROVE TypeInv'
  OBVIOUS
<1> USE DEF TypeInv
<1>0. /\ 0 \in Rax /\ 1 \in Rax
      /\ nthreads \in nthreads .. MaxThreads
      /\ current \in Threads /\ current \in Handles
  BY ThreadsAssumption DEF Rax, WaitTimeout, TypeOK, Live, Threads, Handles
<1>a. /\ sync_objects \in [Handles -> SyncObject]
      /\ grants \in [Threads -> [Objects -> Nat]]
      /\ rax \in Rax
  BY DEF TypeOK
<1>1. CASE Compute
  BY <1>0, <1>1, <1>a, FinishedCallType, HookTypeInv DEF Compute
<1>2. CASE SwitchToThread
  BY <1>0, <1>2, <1>a, FinishedCallType, HookTypeInv DEF SwitchToThread
<1>3. CASE Wait
  BY <1>3, WaitType
<1>4. CASE UseObject
  BY <1>4, UseObjectType
<1>5. ASSUME NEW ms \in Timeouts \cup {0}, Sleep(ms) PROVE TypeInv'
  <2>1. call' \in [Threads -> Call]
    BY <1>5, FinishedCallType DEF Sleep
  <2>2. CASE ms = 0
    <3>1. Hook(0, TRUE)
      BY <1>5, <2>2 DEF Sleep, Hook
    <3> QED
      BY <1>0, <1>5, <1>a, <2>1, <3>1, HookTypeInv DEF Sleep
  <2>3. CASE ms # 0
    <3>1. Deadline(ms) \in Nat \cup {NoTimer}
      BY <2>3, DeadlineType
    <3> QED
      BY <1>0, <1>5, <1>a, <2>1, <2>3, <3>1, BlockTypeInv DEF Sleep, TypeOK
  <2> QED
    BY <2>2, <2>3
<1>6. CASE CreateThread
  <2>1. nthreads \in Threads /\ nthreads \in Handles /\ nthreads + 1 \in nthreads .. MaxThreads
    BY <1>6, ThreadsAssumption DEF CreateThread, TypeOK, Threads, Handles
  <2>2. ThreadObject(nthreads) \in SyncObject
    BY <2>1 DEF ThreadObject, Object, SyncObject
  <2>3. sync_objects' \in [Handles -> SyncObject]
    BY <1>6, <1>a, <2>1, <2>2 DEF CreateThread
  <2> QED
    BY <1>0, <1>6, <1>a, <2>1, <2>3, FinishedCallType, HookTypeInv DEF CreateThread
<1>7. CASE CreateThreadFails
  BY <1>0, <1>7, <1>a, FinishedCallType, HookTypeInv DEF CreateThreadFails
<1>8. CASE ExitThread
  <2>1. [sync_objects[current] EXCEPT !.signalled = TRUE] \in SyncObject
    BY <1>0, <1>a DEF SyncObject
  <2>2. sync_objects' \in [Handles -> SyncObject]
    BY <1>0, <1>8, <1>a, <2>1 DEF ExitThread
  <2>3. wake_at' \in [Threads -> Nat \cup {NoTimer}]
    BY <1>8, ElapsedType DEF ExitThread
  <2>4. call' \in [Threads -> Call]
    BY <1>8, FinishedCallType DEF ExitThread
  <2>5. /\ phase' \in {"wake", "exited"}
        /\ scan' \in 0 .. nthreads
        /\ slice_left' \in 0 .. Quantum
    BY <1>8, ThreadsAssumption DEF ExitThread, Continue, TypeOK
  <2>6. state' \in [Threads -> {"Runnable", "Blocked", "Finished"}]
    BY <1>8 DEF ExitThread, TypeOK
  <2> QED
    BY <1>8, <2>2, <2>3, <2>4, <2>5, <2>6 DEF ExitThread, TypeOK, SliceInv, Live
<1>9. CASE ExitProcess
  BY <1>9 DEF ExitProcess, TypeOK, SliceInv, Live, threadVars, history
<1> QED
  BY <1>1, <1>2, <1>3, <1>4, <1>5, <1>6, <1>7, <1>8, <1>9 DEF Slice

(* Every reachable state is well typed, and inside a slice the current      *)
(* thread is runnable and has instructions left, for any number of threads. *)
LEMMA TypeInvariance == Spec => []TypeInv
<1>1. TypeInv /\ [Next]_vars => TypeInv'
  <2> SUFFICES ASSUME TypeInv, [Next]_vars PROVE TypeInv'
    OBVIOUS
  <2>1. CASE UNCHANGED vars
    BY <2>1 DEF vars, threadVars, cpuVars, history, TypeInv, TypeOK, SliceInv, Live
  <2>2. CASE Terminated
    BY <2>1, <2>2 DEF Terminated
  <2> QED
    BY <2>1, <2>2, PassType, SliceType DEF Next
<1> QED
  BY <1>1, InitType, PTL DEF Spec

(* Type correctness of the scheduler and of the waitable objects. *)
THEOREM TypeCorrect == Spec => []TypeOK
BY TypeInvariance, PTL DEF TypeInv

-----------------------------------------------------------------------------
(* No stale wait.                                                          *)

(* NoHandle is not a handle and counting never arms or disarms a timer. *)
LEMMA NoHandleIsNone == NoHandle \notin Handles
BY ThreadsAssumption, ObjectsAssumption DEF NoHandle, Handles, Threads

LEMMA ElapsedKeepsTimers ==
    ASSUME TypeOK, NEW n \in Nat
    PROVE  \A t \in Threads : Elapsed(n)[t] = NoTimer <=> wake_at[t] = NoTimer
BY DEF TypeOK, Elapsed, Less, NoTimer

(* A step that blocks the current thread on something, or none, keeps it. *)
LEMMA HookNoStaleWait ==
    ASSUME TypeOK, NoStaleWait, wake_at' = Elapsed(1), UNCHANGED <<state, wait_handle>>
    PROVE  NoStaleWait'
BY ElapsedKeepsTimers DEF NoStaleWait

LEMMA BlockNoStaleWait ==
    ASSUME TypeOK, NoStaleWait, NEW h, NEW d, h # NoHandle \/ d # NoTimer, Block(h, d)
    PROVE  NoStaleWait'
<1>1. /\ Elapsed(1) \in [Threads -> Nat \cup {NoTimer}]
      /\ current \in Threads
  BY ElapsedType, ThreadsAssumption DEF TypeOK, Live, Threads
<1> SUFFICES ASSUME NEW t \in Threads
             PROVE  /\ state'[t] = "Blocked" => wait_handle'[t] # NoHandle
                                                 \/ wake_at'[t] # NoTimer
                    /\ state'[t] # "Blocked" => wait_handle'[t] = NoHandle
                                                 /\ wake_at'[t] = NoTimer
  BY DEF NoStaleWait
<1>2. CASE t = current
  BY <1>1, <1>2 DEF Block, TypeOK
<1>3. CASE t # current
  <2>1. /\ state'[t] = state[t] /\ wait_handle'[t] = wait_handle[t]
        /\ wake_at'[t] = Elapsed(1)[t]
    BY <1>1, <1>3 DEF Block, TypeOK
  <2> QED
    BY <2>1, ElapsedKeepsTimers DEF NoStaleWait
<1> QED
  BY <1>2, <1>3

(* What a thread is blocked on is forgotten when it wakes, and nothing is   *)
(* blocked on nothing (threads.cpp, pick_runnable and begin_wait).          *)
THEOREM StaleWaitImpossible == Spec => []NoStaleWait
<1>1. Init => NoStaleWait
  BY DEF Init, NoStaleWait
<1>2. TypeInv /\ NoStaleWait /\ [Next]_vars => NoStaleWait'
  <2> SUFFICES ASSUME TypeInv, NoStaleWait, [Next]_vars PROVE NoStaleWait'
    OBVIOUS
  <2> USE DEF TypeInv
  <2>0. Waitable \subseteq Handles
    BY ThreadsAssumption DEF TypeOK, Waitable, Handles, Live, Threads
  <2>a. ASSUME NEW t \in Threads, MakeRunnable(t) PROVE NoStaleWait'
    BY <2>a DEF MakeRunnable, NoStaleWait, TypeOK
  <2>b. ASSUME UNCHANGED <<state, wait_handle, wake_at>> PROVE NoStaleWait'
    BY <2>b DEF NoStaleWait
  <2>c. ASSUME NEW r, NEW y, Hook(r, y) PROVE NoStaleWait'
    BY <2>c, HookNoStaleWait DEF Hook
  <2>1. CASE Pass
    <3>1. ASSUME NEW t \in Threads, WakeOnTimer(t) \/ WakeOnObject(t) PROVE NoStaleWait'
      BY <2>a, <3>1 DEF WakeOnTimer, WakeOnObject
    <3>2. ASSUME NEW t \in Threads, LeaveAsIs(t) \/ Dispatch(t) PROVE NoStaleWait'
      BY <2>b, <3>2 DEF LeaveAsIs, Dispatch, threadVars
    <3>3. CASE Idle
      <4>1. ASSUME NEW n \in Nat, wake_at' = Elapsed(n), UNCHANGED <<state, wait_handle>>
            PROVE  NoStaleWait'
        BY <4>1, ElapsedKeepsTimers DEF NoStaleWait
      <4>2. ASSUME NEW first \in Timed
            PROVE  (IF wake_at[first] > Quantum THEN wake_at[first] ELSE Quantum) \in Nat
        <5>1. wake_at[first] \in Nat
          BY ThreadsAssumption DEF Timed, TypeOK, Live, Threads
        <5> QED
          BY <5>1, ThreadsAssumption
      <4> QED
        BY <2>b, <3>3, <4>1, <4>2 DEF Idle
    <3> QED
      BY <2>1, <3>1, <3>2, <3>3 DEF Pass
  <2>2. CASE Wait
    <3>1. ASSUME NEW ms \in Timeouts \cup {0, Infinite}, NEW h \in Waitable,
                 WaitForSingleObject(h, ms)
          PROVE  NoStaleWait'
      BY <2>0, <2>c, <3>1, NoHandleIsNone, BlockNoStaleWait DEF WaitForSingleObject
    <3>2. ASSUME NEW ms \in Timeouts \cup {0, Infinite}, NEW hs \in WaitLists, WaitAny(hs, ms)
          PROVE  NoStaleWait'
      <4>1. hs[1] # NoHandle
        BY WaitListType, NoHandleIsNone
      <4> QED
        BY <2>c, <3>2, <4>1, BlockNoStaleWait DEF WaitAny
    <3>3. ASSUME NEW ms \in Timeouts \cup {0, Infinite}, NEW hs \in WaitLists, WaitAll(hs, ms)
          PROVE  NoStaleWait'
      <4>1. PICK n \in 0 .. Len(hs) :
              IF n = Len(hs) \/ ms = 0 THEN Hook(0, FALSE)
                                       ELSE Block(hs[n + 1], Deadline(ms))
        BY <3>3 DEF WaitAll
      <4>2. n # Len(hs) => hs[n + 1] # NoHandle
        BY WaitListType, NoHandleIsNone
      <4> QED
        BY <2>c, <4>1, <4>2, BlockNoStaleWait
    <3> QED
      BY <2>2, <3>1, <3>2, <3>3 DEF Wait
  <2>3. CASE UseObject
    BY <2>c, <2>3 DEF UseObject, CreateObject, SetEvent, ResetEvent, ReleaseMutex,
                      ReleaseSemaphore
  <2>4. ASSUME NEW ms \in Timeouts \cup {0}, Sleep(ms) PROVE NoStaleWait'
    <3>1. CASE ms = 0
      BY <2>4, <3>1, HookNoStaleWait DEF Sleep
    <3>2. CASE ms # 0
      <4>1. Deadline(ms) # NoTimer
        BY <3>2, ThreadsAssumption DEF Deadline, Infinite, NoTimer
      <4> QED
        BY <2>4, <3>2, <4>1, BlockNoStaleWait DEF Sleep
    <3> QED
      BY <3>1, <3>2
  <2>5. CASE ExitThread
    <3>1. current \in Threads
      BY ThreadsAssumption DEF TypeOK, Live, Threads
    <3>2. state[current] # "Blocked"
      BY <2>5 DEF ExitThread, SliceInv
    <3> QED
      BY <2>5, <3>1, <3>2, ElapsedKeepsTimers DEF ExitThread, NoStaleWait, TypeOK
  <2>6. CASE Compute \/ SwitchToThread \/ CreateThread \/ CreateThreadFails
    BY <2>c, <2>6 DEF Compute, SwitchToThread, CreateThread, CreateThreadFails
  <2>7. CASE ExitProcess \/ Terminated \/ UNCHANGED vars
    BY <2>b, <2>7 DEF ExitProcess, Terminated, vars, threadVars
  <2> QED
    BY <2>1, <2>2, <2>3, <2>4, <2>5, <2>6, <2>7 DEF Next, Slice
<1> QED
  BY <1>1, <1>2, TypeInvariance, PTL DEF Spec

-----------------------------------------------------------------------------
(* No missed wake-up, and no false deadlock.                               *)

(* A slice step either stays in the slice, ends the process, or starts the  *)
(* next pass from the first thread.                                         *)
LEMMA SliceEnds ==
    ASSUME Slice
    PROVE  phase = "run" /\ (phase' = "wake" => scan' = 0) /\ phase' # "deadlock"
<1>1. ASSUME NEW r, NEW y, Hook(r, y) \/ (phase = "run" /\ Continue(y))
      PROVE  phase = "run" /\ (phase' = "wake" => scan' = 0) /\ phase' # "deadlock"
  BY <1>1 DEF Hook, Continue
<1>2. ASSUME NEW h, NEW d, Block(h, d), phase = "run"
      PROVE  phase = "run" /\ (phase' = "wake" => scan' = 0) /\ phase' # "deadlock"
  BY <1>2 DEF Block, Continue
<1>3. CASE Wait
  BY <1>1, <1>2, <1>3 DEF Wait, WaitForSingleObject, WaitAny, WaitAll
<1>4. CASE UseObject
  BY <1>1, <1>4 DEF UseObject, CreateObject, SetEvent, ResetEvent, ReleaseMutex,
                    ReleaseSemaphore
<1>5. ASSUME NEW ms \in Timeouts \cup {0}, Sleep(ms)
      PROVE  phase = "run" /\ (phase' = "wake" => scan' = 0) /\ phase' # "deadlock"
  BY <1>1, <1>2, <1>5 DEF Sleep
<1>6. CASE Compute \/ SwitchToThread \/ CreateThread \/ CreateThreadFails
  BY <1>1, <1>6 DEF Compute, SwitchToThread, CreateThread, CreateThreadFails
<1>7. CASE ExitThread \/ ExitProcess
  BY <1>1, <1>7 DEF ExitThread, ExitProcess
<1> QED
  BY <1>3, <1>4, <1>5, <1>6, <1>7 DEF Slice

(* Acquiring an available object makes no other object available. *)
LEMMA AcquiringEnablesNothing ==
    ASSUME NEW t \in Threads, WakeOnObject(t), TypeOK, NEW g \in Handles, ~Available(g)
    PROVE  ~Available(g)'
<1>1. wait_handle[t] \in Handles /\ Available(wait_handle[t])
  BY DEF WakeOnObject, TypeOK
<1>2. g # wait_handle[t]
  BY <1>1
<1>3. sync_objects'[g] = sync_objects[g] /\ current' = current
  BY <1>1, <1>2 DEF WakeOnObject, TypeOK
<1> QED
  BY <1>3 DEF Available

PassInv == NoMissedWake /\ DeadlockIsReal

LEMMA PassInvPreserved ==
    ASSUME TypeInv, NoStaleWait, PassInv, [Next]_vars
    PROVE  PassInv'
<1> USE DEF TypeInv, PassInv
<1>0. Live \subseteq Threads /\ Threads \subseteq Nat
  BY ThreadsAssumption DEF TypeOK, Live, Threads
<1>1. ASSUME NEW t \in Threads, WakeOnTimer(t) PROVE PassInv'
  <2>1. /\ \A u \in Threads : state'[u] = "Blocked" =>
              u # t /\ state[u] = "Blocked" /\ wake_at'[u] = wake_at[u]
                    /\ wait_handle'[u] = wait_handle[u]
        /\ \A u \in Threads : u < scan' => u < scan \/ u = t
    BY <1>0, <1>1 DEF WakeOnTimer, Visited, MakeRunnable, TypeOK
  <2>2. \A h : Available(h)' <=> Available(h)
    BY <1>1 DEF WakeOnTimer, Available
  <2> QED
    BY <1>1, <2>1, <2>2 DEF WakeOnTimer, Visited, NoMissedWake, DeadlockIsReal
<1>2. ASSUME NEW t \in Threads, WakeOnObject(t) PROVE PassInv'
  <2>1. /\ \A u \in Threads : state'[u] = "Blocked" =>
              u # t /\ state[u] = "Blocked" /\ wake_at'[u] = wake_at[u]
                    /\ wait_handle'[u] = wait_handle[u]
        /\ \A u \in Threads : u < scan' => u < scan \/ u = t
    <3>1. MakeRunnable(t) /\ t = scan /\ scan' = scan + 1
      BY <1>2 DEF WakeOnObject, Visited
    <3> QED
      BY <1>0, <3>1 DEF MakeRunnable, TypeOK
  <2>2. \A h \in Handles : ~Available(h) => ~Available(h)'
    BY <1>2, AcquiringEnablesNothing
  <2>3. \A u \in Threads : wait_handle[u] # NoHandle => wait_handle[u] \in Handles
    BY DEF TypeOK
  <2> QED
    BY <1>2, <2>1, <2>2, <2>3 DEF WakeOnObject, Visited, NoMissedWake, DeadlockIsReal
<1>3. ASSUME NEW t \in Threads, LeaveAsIs(t) PROVE PassInv'
  <2>1. \A u \in Threads : u < scan' => u < scan \/ u = t
    BY <1>0, <1>3 DEF LeaveAsIs, Visited, TypeOK
  <2>2. \A h : Available(h)' <=> Available(h)
    BY <1>3 DEF LeaveAsIs, Available
  <2> QED
    BY <1>3, <2>1, <2>2 DEF LeaveAsIs, Visited, threadVars, NoMissedWake, DeadlockIsReal
<1>4. ASSUME NEW i \in Threads, Dispatch(i) PROVE PassInv'
  BY <1>4 DEF Dispatch, NoMissedWake, DeadlockIsReal
<1>5. CASE Idle
  <2>1. CASE scan' = 0 /\ UNCHANGED phase
    BY <1>0, <1>5, <2>1 DEF Idle, NoMissedWake, DeadlockIsReal
  <2>2. CASE Timed = {} /\ phase' = "deadlock" /\ UNCHANGED <<wake_at, scan>>
    <3>1. ASSUME NEW t \in Live, state[t] # "Finished"
          PROVE  /\ state[t] = "Blocked" /\ wake_at[t] = NoTimer
                 /\ wait_handle[t] # NoHandle /\ ~Available(wait_handle[t])
      <4>1. t \in Threads /\ t < scan /\ phase = "wake"
        BY <1>0, <1>5 DEF Idle, Live, TypeOK
      <4>2. state[t] = "Blocked"
        BY <1>5, <3>1, <4>1 DEF Idle, TypeOK
      <4>3. wake_at[t] = NoTimer
        BY <2>2, <4>2 DEF Timed
      <4> QED
        BY <4>1, <4>2, <4>3 DEF NoMissedWake, NoStaleWait
    <3>2. \A h : Available(h)' <=> Available(h)
      BY <1>5 DEF Idle, Available
    <3> QED
      BY <1>5, <2>2, <3>1, <3>2 DEF Idle, NoMissedWake, DeadlockIsReal, Live
  <2> QED
    BY <1>5, <2>1, <2>2 DEF Idle
<1>6. CASE Slice
  <2>1. (phase' = "wake" => scan' = 0) /\ phase' # "deadlock"
    BY <1>6, SliceEnds
  <2>2. \A u \in Threads : ~(u < 0)
    BY <1>0
  <2>3. phase' = "wake" => \A u \in Threads : ~(u < scan')
    BY <2>1, <2>2
  <2> QED
    BY <2>1, <2>3 DEF NoMissedWake, DeadlockIsReal
<1>7. CASE Terminated \/ UNCHANGED vars
  <2>1. UNCHANGED vars
    BY <1>7 DEF Terminated
  <2>2. \A h : Available(h)' <=> Available(h)
    BY <2>1 DEF vars, cpuVars, Available
  <2> QED
    BY <2>1, <2>2 DEF vars, threadVars, cpuVars, NoMissedWake, DeadlockIsReal, Live
<1> QED
  BY <1>1, <1>2, <1>3, <1>4, <1>5, <1>6, <1>7 DEF Next, Pass

LEMMA PassInvariance == Spec => []PassInv
<1>1. Init => PassInv
  BY ThreadsAssumption DEF Init, PassInv, NoMissedWake, DeadlockIsReal, Threads
<1>2. TypeInv /\ NoStaleWait /\ PassInv /\ [Next]_vars => PassInv'
  BY PassInvPreserved
<1> QED
  BY <1>1, <1>2, TypeInvariance, StaleWaitImpossible, PTL DEF Spec

(* A thread the scheduling pass has been past and left blocked waits for    *)
(* something that is unavailable (threads.cpp, pick_runnable).              *)
THEOREM MissedWakeImpossible == Spec => []NoMissedWake
BY PassInvariance, PTL DEF PassInv

(* What a thread waits for is neither missed by the pass nor remembered     *)
(* once it has woken (pick_runnable).                                       *)
THEOREM WaitsAlwaysSound == Spec => []WaitsAreSound
BY MissedWakeImpossible, StaleWaitImpossible, PTL DEF WaitsAreSound

(* A deadlock is only reported when there is one (processes.cpp, run).      *)
THEOREM FalseDeadlockImpossible == Spec => []DeadlockIsReal
BY PassInvariance, PTL DEF PassInv

-----------------------------------------------------------------------------
(* Contexts.                                                               *)

(* switch_to_thread never loses or mixes contexts.                          *)
THEOREM ContextsAreKept == Spec => []ContextIntegrity
<1>1. Init => ContextIntegrity
  BY ThreadsAssumption DEF Init, ContextIntegrity, Threads
<1>2. TypeInv /\ ContextIntegrity /\ [Next]_vars => ContextIntegrity'
  <2> SUFFICES ASSUME TypeInv, ContextIntegrity, [Next]_vars PROVE ContextIntegrity'
    OBVIOUS
  <2> USE DEF TypeInv
  <2>0. current \in Threads
    BY ThreadsAssumption DEF TypeOK, Live, Threads
  <2>a. ASSUME UNCHANGED <<saved, current, rax, view>> PROVE ContextIntegrity'
    BY <2>a DEF ContextIntegrity
  <2>b. ASSUME NEW r, Return(r), UNCHANGED <<saved, current>> PROVE ContextIntegrity'
    BY <2>0, <2>b DEF Return, ContextIntegrity, TypeOK
  <2>c. ASSUME NEW r, NEW y, Hook(r, y) PROVE ContextIntegrity'
    BY <2>b, <2>c DEF Hook
  <2>1. ASSUME NEW i \in Threads, Dispatch(i) PROVE ContextIntegrity'
    BY <2>0, <2>1 DEF Dispatch, SwitchTo, ContextIntegrity, TypeOK, history
  <2>2. CASE Wait
    BY <2>b, <2>c, <2>2 DEF Wait, WaitForSingleObject, WaitAny, WaitAll
  <2>3. CASE UseObject
    BY <2>c, <2>3 DEF UseObject, CreateObject, SetEvent, ResetEvent, ReleaseMutex,
                      ReleaseSemaphore
  <2>4. ASSUME NEW ms \in Timeouts \cup {0}, Sleep(ms) PROVE ContextIntegrity'
    BY <2>b, <2>4 DEF Sleep
  <2>5. CASE Compute \/ SwitchToThread \/ CreateThread \/ CreateThreadFails
    BY <2>c, <2>5 DEF Compute, SwitchToThread, CreateThread, CreateThreadFails
  <2>6. CASE ExitThread \/ ExitProcess \/ Terminated \/ Idle \/ UNCHANGED vars
    BY <2>a, <2>6 DEF ExitThread, ExitProcess, Terminated, Idle, vars, threadVars,
                      cpuVars, history
  <2>7. ASSUME NEW t \in Threads, WakeOnTimer(t) \/ WakeOnObject(t) \/ LeaveAsIs(t)
        PROVE  ContextIntegrity'
    BY <2>a, <2>7 DEF WakeOnTimer, WakeOnObject, LeaveAsIs, threadVars, history
  <2> QED
    BY <2>1, <2>2, <2>3, <2>4, <2>5, <2>6, <2>7 DEF Next, Slice, Pass
<1> QED
  BY <1>1, <1>2, TypeInvariance, PTL DEF Spec

-----------------------------------------------------------------------------
(* Joining.                                                                *)

JoinInv == JoinSound /\ \A t \in Threads \ Live : state[t] = "Runnable"

(* The three ways a step can leave the thread objects alone. *)
LEMMA JoinUnchanged ==
    ASSUME TypeInv, JoinInv, UNCHANGED nthreads,
           \A t \in Live : sync_objects'[t] = sync_objects[t],
           \A t \in Threads : state'[t] # state[t] =>
               t \in Live /\ state[t] # "Finished" /\ state'[t] # "Finished"
    PROVE  JoinInv'
<1>1. Live' = Live /\ Live \subseteq Threads
  BY ThreadsAssumption DEF TypeInv, TypeOK, Live, Threads
<1> QED
  BY <1>1 DEF JoinInv, JoinSound

(* Acquiring objects never changes a thread object. *)
LEMMA TakeKeepsThreads ==
    ASSUME TypeInv, JoinInv, NEW hs, Take(hs)
    PROVE  \A t \in Live : sync_objects'[t] = sync_objects[t]
<1>1. \A t \in Live : t \in Handles /\ sync_objects[t].kind = "Thread"
  BY ThreadsAssumption DEF JoinInv, JoinSound, TypeInv, TypeOK, Live, Threads, Handles
<1>2. \A t \in Live : Acquired(sync_objects[t]) = sync_objects[t]
  BY <1>1 DEF Acquired
<1> QED
  BY <1>1, <1>2 DEF Take

LEMMA JoinInvPreserved ==
    ASSUME TypeInv, JoinInv, [Next]_vars
    PROVE  JoinInv'
<1>0. /\ Live \subseteq Threads /\ Live \subseteq Handles /\ current \in Live
      /\ Objects \cap Live = {}
  BY ThreadsAssumption, ObjectsAssumption DEF TypeInv, TypeOK, Live, Threads, Handles
<1>a. ASSUME UNCHANGED <<nthreads, state, sync_objects>> PROVE JoinInv'
  BY <1>a, JoinUnchanged
<1>b. ASSUME NEW r, NEW y, Hook(r, y), UNCHANGED nthreads,
             \A t \in Live : sync_objects'[t] = sync_objects[t]
      PROVE  JoinInv'
  BY <1>b, JoinUnchanged DEF Hook
<1>c. ASSUME NEW h, NEW d, Block(h, d), phase = "run", UNCHANGED nthreads,
             \A t \in Live : sync_objects'[t] = sync_objects[t]
      PROVE  JoinInv'
  <2>1. state[current] = "Runnable"
    BY <1>c DEF TypeInv, SliceInv
  <2>2. \A t \in Threads : state'[t] # state[t] => t = current /\ state'[t] = "Blocked"
    BY <1>0, <1>c DEF Block, TypeInv, TypeOK
  <2> QED
    BY <1>0, <1>c, <2>1, <2>2, JoinUnchanged
<1>1. ASSUME NEW t \in Threads, WakeOnTimer(t) \/ WakeOnObject(t) PROVE JoinInv'
  <2>1. /\ state[t] = "Blocked" /\ state' = [state EXCEPT ![t] = "Runnable"]
        /\ UNCHANGED nthreads
    BY <1>1 DEF WakeOnTimer, WakeOnObject, MakeRunnable
  <2>2. t \in Live
    BY <2>1 DEF JoinInv
  <2>3. \A u \in Live : sync_objects'[u] = sync_objects[u]
    <3>1. \A u \in Live : Acquired(sync_objects[u]) = sync_objects[u]
      BY DEF JoinInv, JoinSound, Acquired
    <3> QED
      BY <1>0, <1>1, <3>1 DEF WakeOnTimer, WakeOnObject, TypeInv, TypeOK
  <2>4. \A u \in Threads : state'[u] # state[u] => u = t /\ state'[u] = "Runnable"
    BY <2>1 DEF TypeInv, TypeOK
  <2> QED
    BY <2>1, <2>2, <2>3, <2>4, JoinUnchanged
<1>2. ASSUME NEW t \in Threads, LeaveAsIs(t) \/ Dispatch(t) PROVE JoinInv'
  BY <1>a, <1>2 DEF LeaveAsIs, Dispatch, threadVars
<1>3. CASE Wait
  <2>1. ASSUME NEW ms \in Timeouts \cup {0, Infinite}, NEW h \in Waitable,
               WaitForSingleObject(h, ms)
        PROVE  JoinInv'
    BY <1>b, <1>c, <2>1, TakeKeepsThreads DEF WaitForSingleObject
  <2>2. ASSUME NEW ms \in Timeouts \cup {0, Infinite}, NEW hs \in WaitLists, WaitAny(hs, ms)
        PROVE  JoinInv'
    BY <1>b, <1>c, <2>2, TakeKeepsThreads DEF WaitAny
  <2>3. ASSUME NEW ms \in Timeouts \cup {0, Infinite}, NEW hs \in WaitLists, WaitAll(hs, ms)
        PROVE  JoinInv'
    BY <1>b, <1>c, <2>3, TakeKeepsThreads DEF WaitAll
  <2> QED
    BY <1>3, <2>1, <2>2, <2>3 DEF Wait
<1>4. ASSUME NEW h \in Objects,
             \/ \E s \in BOOLEAN : CreateObject(h, s)
             \/ SetEvent(h) \/ ResetEvent(h) \/ ReleaseMutex(h) \/ ReleaseSemaphore(h)
      PROVE  JoinInv'
  <2>1. UNCHANGED nthreads /\ Hook(1, FALSE)
    BY <1>4 DEF CreateObject, SetEvent, ResetEvent, ReleaseMutex, ReleaseSemaphore
  <2>2. \A t \in Live : t # h
    BY <1>0
  <2>3. \A t \in Live : sync_objects'[t] = sync_objects[t]
    BY <1>0, <1>4, <2>2
       DEF CreateObject, SetEvent, ResetEvent, ReleaseMutex, ReleaseSemaphore, TypeInv, TypeOK
  <2> QED
    BY <1>b, <2>1, <2>3
<1>5. ASSUME NEW ms \in Timeouts \cup {0}, Sleep(ms) PROVE JoinInv'
  BY <1>a, <1>c, <1>5 DEF Sleep
<1>6. CASE CreateThread
  <2> DEFINE new == nthreads
  <2>1. /\ new \in Threads \ Live /\ new \in Handles
        /\ \A t \in Threads : t \in 0 .. new => t \in Live \/ t = new
        /\ \A t \in Live : t \in 0 .. new
        /\ new \in 0 .. new
    BY <1>6, ThreadsAssumption DEF CreateThread, TypeInv, TypeOK, Live, Threads, Handles
  <2>2. Live' = 0 .. new
    BY <1>6 DEF CreateThread, Live, TypeInv, TypeOK
  <2>3. /\ state' = state
        /\ sync_objects'[new] = ThreadObject(new)
        /\ \A t \in Live : sync_objects'[t] = sync_objects[t]
    BY <1>0, <1>6, <2>1 DEF CreateThread, Hook, TypeInv, TypeOK
  <2>4. ThreadObject(new).kind = "Thread" /\ ThreadObject(new).signalled = FALSE
    BY DEF ThreadObject, Object
  <2>5. state[new] = "Runnable"
    BY <2>1 DEF JoinInv
  <2>6. \A t \in 0 .. new : t \in Live \/ t = new
    BY DEF Live, TypeInv, TypeOK
  <2> QED
    BY <2>1, <2>2, <2>3, <2>4, <2>5, <2>6 DEF JoinInv, JoinSound
<1>7. CASE ExitThread
  <2>1. /\ state' = [state EXCEPT ![current] = "Finished"]
        /\ sync_objects' = [sync_objects EXCEPT ![current].signalled = TRUE]
        /\ Live' = Live
    BY <1>7 DEF ExitThread, Live
  <2>2. sync_objects[current] \in SyncObject
    BY <1>0 DEF TypeInv, TypeOK
  <2>3. sync_objects'[current].signalled = TRUE /\ sync_objects'[current].kind = "Thread"
    BY <1>0, <2>1, <2>2 DEF TypeInv, TypeOK, SyncObject, JoinInv, JoinSound
  <2>4. \A t \in Live : t # current =>
           sync_objects'[t] = sync_objects[t] /\ state'[t] = state[t]
    BY <1>0, <2>1 DEF TypeInv, TypeOK
  <2>5. state'[current] = "Finished" /\ \A t \in Threads \ Live : state'[t] = state[t]
    BY <1>0, <2>1 DEF TypeInv, TypeOK
  <2> QED
    BY <2>1, <2>3, <2>4, <2>5 DEF JoinInv, JoinSound
<1>8. CASE Compute \/ SwitchToThread \/ CreateThreadFails
  BY <1>b, <1>8 DEF Compute, SwitchToThread, CreateThreadFails
<1>9. CASE Idle \/ ExitProcess \/ Terminated \/ UNCHANGED vars
  BY <1>a, <1>9 DEF Idle, ExitProcess, Terminated, vars, threadVars
<1> QED
  BY <1>1, <1>2, <1>3, <1>4, <1>5, <1>6, <1>7, <1>8, <1>9 DEF Next, Pass, Slice, UseObject

(* A thread's handle is signalled exactly when the thread has finished      *)
(* (threads.cpp, exit_thread and try_acquire), so joining never returns     *)
(* early and never misses an exit.                                          *)
THEOREM JoinIsSound == Spec => []JoinSound
<1>1. Init => JoinInv
  BY ThreadsAssumption
     DEF Init, JoinInv, JoinSound, Live, Threads, Handles, ThreadObject, Object
<1>2. TypeInv /\ JoinInv /\ [Next]_vars => JoinInv'
  BY JoinInvPreserved
<1>3. JoinInv => JoinSound
  BY DEF JoinInv
<1> QED
  BY <1>1, <1>2, <1>3, TypeInvariance, PTL DEF Spec

-----------------------------------------------------------------------------
(* Conservation of what is granted.                                        *)

(* The grants of h are as they were. *)
SameGrants(h) == \A t \in Threads : grants'[t][h] = grants[t][h]

(* Thread t has one grant of h more, or one less. *)
OneMore(t, h) ==
    \A u \in Threads : grants'[u][h] = IF u = t THEN grants[t][h] + 1 ELSE grants[u][h]
OneLess(t, h) ==
    \A u \in Threads : grants'[u][h] = IF u = t THEN grants[t][h] - 1 ELSE grants[u][h]

(* GrantsConserved for one object, and what makes it inductive: the grants  *)
(* are finitely many, a handle names what it was created as, and nothing    *)
(* of an object that does not exist is granted.                             *)
GrantInv(h) ==
    LET o == sync_objects[h] IN
    /\ IsFiniteSet(Held(h))
    /\ o.kind \in {"None", Kind[h]}
    /\ o.kind = "None" => o = NoObject /\ Outstanding(h) = 0
    /\ o.kind = "Semaphore" => o.count + Outstanding(h) = InitialCount[h]
    /\ o.kind = "Mutex" => /\ o.recursion = Outstanding(h)
                           /\ o.owner = NoOwner <=> o.recursion = 0
GrantsInv == \A h \in Objects : GrantInv(h)

(* Everything an action can do to an object and its grants. *)
Untouched(h) == sync_objects'[h] = sync_objects[h] /\ SameGrants(h)
TakenFor(t, h) ==
    /\ Available(h)
    /\ sync_objects'[h] = Acquired(sync_objects[h])
    /\ IF Owned(h) THEN OneMore(t, h) ELSE SameGrants(h)
Created(h) ==
    /\ sync_objects[h] = NoObject
    /\ sync_objects'[h].kind = Kind[h]
    /\ Kind[h] = "Semaphore" =>
          sync_objects'[h].count = InitialCount[h] /\ SameGrants(h)
    /\ Kind[h] = "Mutex" =>
          \/ /\ sync_objects'[h].owner = NoOwner /\ sync_objects'[h].recursion = 0
             /\ SameGrants(h)
          \/ /\ sync_objects'[h].owner = current /\ sync_objects'[h].recursion = 1
             /\ OneMore(current, h)
    /\ Kind[h] = "Event" => SameGrants(h)
Signalled(h) ==
    /\ sync_objects[h] # NoObject
    /\ LET o == sync_objects[h]
           p == sync_objects'[h]
       IN  p.kind = o.kind /\ p.count = o.count /\ p.owner = o.owner /\ p.recursion = o.recursion
    /\ SameGrants(h)
Returned(h) ==
    /\ sync_objects[h] # NoObject
    /\ grants[current][h] > 0 /\ OneLess(current, h)
    /\ \/ /\ Kind[h] = "Mutex"
          /\ sync_objects'[h] = Released(sync_objects[h])
       \/ /\ Kind[h] = "Semaphore"
          /\ sync_objects'[h] = [sync_objects[h] EXCEPT !.count = sync_objects[h].count + 1]

GrantStep(h) == \/ Untouched(h) \/ Created(h) \/ Signalled(h) \/ Returned(h)
                \/ \E t \in Threads : TakenFor(t, h)

(* The set of grants changes by the one that is made or given back. *)
LEMMA HeldSame ==
    ASSUME NEW h \in Objects, SameGrants(h)
    PROVE  Held(h)' = Held(h)
BY DEF Held, SameGrants

LEMMA HeldMore ==
    ASSUME TypeOK, NEW h \in Objects, NEW t \in Threads, OneMore(t, h),
           IsFiniteSet(Held(h))
    PROVE  IsFiniteSet(Held(h)') /\ Outstanding(h)' = Outstanding(h) + 1
<1> DEFINE g == <<t, grants[t][h] + 1>>
<1>1. \A u \in Threads : grants[u][h] \in Nat
  BY DEF TypeOK
<1>2. g \notin Held(h)
  BY <1>1 DEF Held
<1>3. Held(h)' = Held(h) \cup {g}
  <2>1. \A u \in Threads : {u} \X (1 .. grants'[u][h])
                = ({u} \X (1 .. grants[u][h])) \cup (IF u = t THEN {g} ELSE {})
    BY <1>1 DEF OneMore
  <2>2. ASSUME NEW x \in Held(h)' PROVE x \in Held(h) \cup {g}
    BY <2>1 DEF Held
  <2>3. ASSUME NEW x \in Held(h) \cup {g} PROVE x \in Held(h)'
    BY <2>1 DEF Held
  <2> QED
    BY <2>2, <2>3
<1> QED
  BY <1>2, <1>3, FS_AddElement DEF Outstanding

LEMMA HeldLess ==
    ASSUME TypeOK, NEW h \in Objects, NEW t \in Threads, OneLess(t, h),
           grants[t][h] > 0, IsFiniteSet(Held(h))
    PROVE  IsFiniteSet(Held(h)') /\ Outstanding(h)' = Outstanding(h) - 1
<1> DEFINE g == <<t, grants[t][h]>>
<1>1. \A u \in Threads : grants[u][h] \in Nat
  BY DEF TypeOK
<1>2. g \in Held(h)
  BY <1>1 DEF Held
<1>3. Held(h)' = Held(h) \ {g}
  <2>1. \A u \in Threads : {u} \X (1 .. grants'[u][h])
                = ({u} \X (1 .. grants[u][h])) \ {g}
    BY <1>1 DEF OneLess
  <2>2. ASSUME NEW x \in Held(h)' PROVE x \in Held(h) \ {g}
    BY <2>1 DEF Held
  <2>3. ASSUME NEW x \in Held(h) \ {g} PROVE x \in Held(h)'
    BY <2>1 DEF Held
  <2> QED
    BY <2>2, <2>3
<1>4. /\ IsFiniteSet(Held(h) \ {g})
      /\ Cardinality(Held(h) \ {g}) = Cardinality(Held(h)) - 1
  <2> HIDE DEF g
  <2> QED
    BY <1>2, FS_RemoveElement
<1> QED
  BY <1>3, <1>4 DEF Outstanding

(* Each of them keeps the books. *)
LEMMA GrantStepKeeps ==
    ASSUME TypeOK, TypeOK', NEW h \in Objects, GrantInv(h), GrantStep(h)
    PROVE  GrantInv(h)'
<1> DEFINE o == sync_objects[h]
<1>0. /\ o \in SyncObject /\ sync_objects'[h] \in SyncObject
      /\ current \in Threads /\ current # NoOwner
      /\ IsFiniteSet(Held(h)) /\ Outstanding(h) \in Nat
      /\ Kind[h] \in {"Event", "Mutex", "Semaphore"}
  <2>1. current \in Threads /\ current # NoOwner
    BY ThreadsAssumption DEF TypeOK, Live, Threads, NoOwner
  <2>2. IsFiniteSet(Held(h)) /\ Outstanding(h) \in Nat
    BY FS_CardinalityType DEF GrantInv, Outstanding
  <2> QED
    BY <2>1, <2>2, ObjectsAssumption DEF TypeOK, Handles
<1>s. SameGrants(h) => /\ IsFiniteSet(Held(h)')
                       /\ Outstanding(h)' = Outstanding(h)
  BY <1>0, HeldSame DEF Outstanding
<1>1. CASE Untouched(h)
  BY <1>0, <1>1, <1>s DEF Untouched, GrantInv
<1>2. CASE Created(h)
  <2>1. Outstanding(h) = 0
    BY <1>2 DEF Created, GrantInv, NoObject, Object
  <2>2. sync_objects'[h].kind = Kind[h] /\ IsFiniteSet(Held(h))
    BY <1>0, <1>2 DEF Created
  <2>3. CASE Kind[h] = "Mutex"
    <3>1. ASSUME sync_objects'[h].owner = NoOwner, sync_objects'[h].recursion = 0,
                 SameGrants(h)
          PROVE  GrantInv(h)'
      BY <1>s, <2>1, <2>2, <2>3, <3>1 DEF GrantInv
    <3>2. ASSUME sync_objects'[h].owner = current, sync_objects'[h].recursion = 1,
                 OneMore(current, h)
          PROVE  GrantInv(h)'
      <4>1. IsFiniteSet(Held(h)') /\ Outstanding(h)' = 1
        BY <1>0, <2>1, <3>2, HeldMore
      <4> QED
        BY <1>0, <2>2, <2>3, <3>2, <4>1 DEF GrantInv
    <3> QED
      BY <1>2, <2>3, <3>1, <3>2 DEF Created
  <2>4. CASE Kind[h] = "Semaphore"
    <3>1. sync_objects'[h].count = InitialCount[h] /\ SameGrants(h)
      BY <1>2, <2>4 DEF Created
    <3> QED
      BY <1>0, <1>s, <2>1, <2>2, <2>4, <3>1, ObjectsAssumption DEF GrantInv
  <2>5. CASE Kind[h] = "Event"
    <3>1. SameGrants(h)
      BY <1>2, <2>5 DEF Created
    <3> QED
      BY <1>s, <2>2, <2>5, <3>1 DEF GrantInv
  <2> QED
    BY <1>0, <2>3, <2>4, <2>5
<1>3. CASE Signalled(h)
  BY <1>0, <1>3, <1>s DEF Signalled, GrantInv
<1>4. CASE Returned(h)
  <2>1. IsFiniteSet(Held(h)') /\ Outstanding(h)' = Outstanding(h) - 1
    BY <1>0, <1>4, HeldLess DEF Returned
  <2>2. o.kind = Kind[h]
    BY <1>4 DEF Returned, GrantInv
  <2>3. CASE Kind[h] = "Mutex"
    <3>1. sync_objects'[h] = Released(o) /\ o.recursion \in Nat
      BY <1>0, <1>4, <2>3 DEF Returned, SyncObject
    <3>2. Outstanding(h)' \in Nat
      BY <1>0, <2>1, FS_CardinalityType DEF Outstanding
    <3>3. o.recursion = Outstanding(h) /\ (o.owner = NoOwner <=> o.recursion = 0)
      BY <2>2, <2>3 DEF GrantInv
    <3>4. /\ sync_objects'[h].kind = o.kind
          /\ sync_objects'[h].recursion = o.recursion - 1
          /\ sync_objects'[h].owner = NoOwner <=> sync_objects'[h].recursion = 0
      BY <1>0, <2>1, <3>1, <3>2, <3>3 DEF Released, SyncObject
    <3> QED
      BY <1>0, <2>1, <2>2, <2>3, <3>3, <3>4 DEF GrantInv
  <2>4. CASE Kind[h] = "Semaphore"
    <3>1. /\ sync_objects'[h].kind = o.kind
          /\ sync_objects'[h].count = o.count + 1
          /\ o.count \in Nat
      BY <1>0, <1>4, <2>4 DEF Returned, SyncObject
    <3>2. o.count + Outstanding(h) = InitialCount[h]
      BY <2>2, <2>4 DEF GrantInv
    <3> QED
      BY <1>0, <2>1, <2>2, <2>4, <3>1, <3>2 DEF GrantInv
  <2> QED
    BY <1>4, <2>3, <2>4 DEF Returned
<1>5. ASSUME NEW t \in Threads, TakenFor(t, h) PROVE GrantInv(h)'
  <2>1. CASE o.kind = "Mutex"
    <3>1. IsFiniteSet(Held(h)') /\ Outstanding(h)' = Outstanding(h) + 1
      BY <1>0, <1>5, <2>1, HeldMore DEF TakenFor, Owned
    <3>2. sync_objects'[h] = [o EXCEPT !.owner = current, !.recursion = o.recursion + 1]
      BY <1>5, <2>1 DEF TakenFor, Acquired
    <3>3. /\ sync_objects'[h].kind = "Mutex"
          /\ sync_objects'[h].owner = current
          /\ sync_objects'[h].recursion = o.recursion + 1
          /\ o.recursion \in Nat
      BY <1>0, <2>1, <3>2 DEF SyncObject
    <3> QED
      BY <1>0, <2>1, <3>1, <3>3 DEF GrantInv
  <2>2. CASE o.kind = "Semaphore"
    <3>1. IsFiniteSet(Held(h)') /\ Outstanding(h)' = Outstanding(h) + 1
      BY <1>0, <1>5, <2>2, HeldMore DEF TakenFor, Owned
    <3>2. sync_objects'[h] = [o EXCEPT !.count = o.count - 1]
      BY <1>5, <2>2 DEF TakenFor, Acquired
    <3>3. /\ sync_objects'[h].kind = "Semaphore"
          /\ sync_objects'[h].count = o.count - 1
          /\ o.count \in Nat
      BY <1>0, <2>2, <3>2 DEF SyncObject
    <3> QED
      BY <1>0, <2>2, <3>1, <3>3 DEF GrantInv
  <2>3. CASE o.kind \in {"None", "Event"}
    <3>1. SameGrants(h)
      BY <1>5, <2>3 DEF TakenFor, Owned
    <3>2. sync_objects'[h].kind = o.kind
      BY <1>0, <1>5, <2>3 DEF TakenFor, Acquired, SyncObject
    <3>3. o.kind = "None" => sync_objects'[h] = o
      BY <1>5 DEF TakenFor, Acquired
    <3> QED
      BY <1>s, <2>3, <3>1, <3>2, <3>3 DEF GrantInv
  <2> QED
    BY <1>0, <2>1, <2>2, <2>3 DEF GrantInv
<1> QED
  BY <1>1, <1>2, <1>3, <1>4, <1>5 DEF GrantStep

(* Every action of the scheduler does one of these to each object. *)
LEMMA TakeSteps ==
    ASSUME TypeOK, NEW hs \in SUBSET Handles, \A h \in hs : Available(h), Take(hs)
    PROVE  \A h \in Objects : GrantStep(h)
<1> SUFFICES ASSUME NEW h \in Objects PROVE GrantStep(h)
  OBVIOUS
<1>1. current \in Threads /\ h \in Handles
  BY ThreadsAssumption DEF TypeOK, Live, Threads, Handles
<1>2. \A t \in Threads : grants'[t] = IF t = current
          THEN [g \in Objects |-> IF g \in hs /\ Owned(g) THEN grants[current][g] + 1
                                                       ELSE grants[current][g]]
          ELSE grants[t]
  BY <1>1 DEF Take, Granted, TypeOK
<1>3. CASE h \in hs
  <2>1. sync_objects'[h] = Acquired(sync_objects[h])
    BY <1>1, <1>3 DEF Take
  <2>2. IF Owned(h) THEN OneMore(current, h) ELSE SameGrants(h)
    BY <1>1, <1>2, <1>3 DEF OneMore, SameGrants
  <2> QED
    BY <1>1, <1>3, <2>1, <2>2 DEF GrantStep, TakenFor
<1>4. CASE h \notin hs
  BY <1>1, <1>2, <1>4 DEF Take, GrantStep, Untouched, SameGrants
<1> QED
  BY <1>3, <1>4

LEMMA PassSteps ==
    ASSUME TypeOK, Pass
    PROVE  \A h \in Objects : GrantStep(h)
<1> SUFFICES ASSUME NEW h \in Objects PROVE GrantStep(h)
  OBVIOUS
<1>1. ASSUME NEW t \in Threads, WakeOnObject(t) PROVE GrantStep(h)
  <2> DEFINE w == wait_handle[t]
  <2>1. w \in Handles /\ Available(w) /\ h \in Handles
    BY <1>1 DEF WakeOnObject, TypeOK, Handles
  <2>2. sync_objects' = [sync_objects EXCEPT ![w] = Acquired(sync_objects[w])]
    BY <1>1 DEF WakeOnObject
  <2>3. \A u \in Threads : grants'[u] = IF u = t
            THEN [g \in Objects |-> IF g \in {w} /\ Owned(g) THEN grants[t][g] + 1
                                                         ELSE grants[t][g]]
            ELSE grants[u]
    BY <1>1 DEF WakeOnObject, Granted, TypeOK
  <2>4. CASE h = w
    <3>1. sync_objects'[h] = Acquired(sync_objects[h])
      BY <2>1, <2>2, <2>4 DEF TypeOK
    <3>2. IF Owned(h) THEN OneMore(t, h) ELSE SameGrants(h)
      <4>1. \A u \in Threads : grants'[u][h] =
               IF u = t /\ Owned(h) THEN grants[t][h] + 1 ELSE grants[u][h]
        <5> HIDE DEF w
        <5>1. grants'[t][h] = IF h \in {w} /\ Owned(h) THEN grants[t][h] + 1
                                                      ELSE grants[t][h]
          BY <2>3
        <5>2. \A u \in Threads : u # t => grants'[u][h] = grants[u][h]
          BY <2>3
        <5> QED
          BY <2>4, <5>1, <5>2
      <4> QED
        BY <4>1 DEF OneMore, SameGrants
    <3> QED
      BY <2>1, <2>4, <3>1, <3>2 DEF GrantStep, TakenFor
  <2>5. CASE h # w
    <3>1. sync_objects'[h] = sync_objects[h]
      BY <2>1, <2>2, <2>5 DEF TypeOK
    <3>2. \A u \in Threads : grants'[u][h] = grants[u][h]
      BY <2>3, <2>5
    <3> QED
      BY <3>1, <3>2 DEF GrantStep, Untouched, SameGrants
  <2> QED
    BY <2>4, <2>5
<1>2. CASE UNCHANGED <<sync_objects, grants>>
  BY <1>2 DEF GrantStep, Untouched, SameGrants
<1> QED
  BY <1>1, <1>2 DEF Pass, WakeOnTimer, LeaveAsIs, Dispatch, Idle, history

LEMMA WaitSteps ==
    ASSUME TypeOK, Wait
    PROVE  \A h \in Objects : GrantStep(h)
<1>0. Waitable \subseteq Handles
  BY ThreadsAssumption DEF TypeOK, Waitable, Handles, Live, Threads
<1>a. ASSUME UNCHANGED <<sync_objects, grants>>
      PROVE  \A h \in Objects : GrantStep(h)
  BY <1>a DEF GrantStep, Untouched, SameGrants
<1>1. ASSUME NEW ms \in Timeouts \cup {0, Infinite}, NEW w \in Waitable,
             WaitForSingleObject(w, ms)
      PROVE  \A h \in Objects : GrantStep(h)
  <2>1. CASE Available(w) /\ Take({w})
    BY <1>0, <2>1, TakeSteps
  <2> QED
    BY <1>1, <1>a, <2>1 DEF WaitForSingleObject
<1>2. ASSUME NEW ms \in Timeouts \cup {0, Infinite}, NEW hs \in WaitLists, WaitAny(hs, ms)
      PROVE  \A h \in Objects : GrantStep(h)
  <2>1. ASSUME NEW i \in 1 .. Len(hs), Available(hs[i]), Take({hs[i]})
        PROVE  \A h \in Objects : GrantStep(h)
    BY <2>1, WaitListType, TakeSteps
  <2> QED
    BY <1>2, <1>a, <2>1 DEF WaitAny
<1>3. ASSUME NEW ms \in Timeouts \cup {0, Infinite}, NEW hs \in WaitLists, WaitAll(hs, ms)
      PROVE  \A h \in Objects : GrantStep(h)
  <2>1. PICK n \in 0 .. Len(hs) : /\ \A i \in 1 .. n : Available(hs[i])
                                  /\ Take({hs[i] : i \in 1 .. n})
    BY <1>3 DEF WaitAll
  <2>2. /\ {hs[i] : i \in 1 .. n} \in SUBSET Handles
        /\ \A h \in {hs[i] : i \in 1 .. n} : Available(h)
    BY <2>1, WaitListType
  <2> QED
    BY <2>1, <2>2, TakeSteps
<1> QED
  BY <1>1, <1>2, <1>3 DEF Wait

LEMMA UseObjectSteps ==
    ASSUME TypeOK, UseObject
    PROVE  \A h \in Objects : GrantStep(h)
<1> SUFFICES ASSUME NEW h \in Objects PROVE GrantStep(h)
  OBVIOUS
<1>0. /\ current \in Threads /\ Objects \subseteq Handles
      /\ \A g \in Objects : sync_objects[g] \in SyncObject
                            /\ Kind[g] \in {"Event", "Mutex", "Semaphore"}
  BY ThreadsAssumption, ObjectsAssumption DEF TypeOK, Live, Threads, Handles
<1>1. ASSUME NEW g \in Objects, g # h,
             \/ \E signalled \in BOOLEAN : CreateObject(g, signalled)
             \/ SetEvent(g) \/ ResetEvent(g) \/ ReleaseMutex(g) \/ ReleaseSemaphore(g)
      PROVE  GrantStep(h)
  <2>1. sync_objects'[h] = sync_objects[h]
    BY <1>0, <1>1
       DEF CreateObject, SetEvent, ResetEvent, ReleaseMutex, ReleaseSemaphore, TypeOK
  <2>2. \/ grants' = grants
        \/ grants' = [grants EXCEPT ![current][g] = grants[current][g] + 1]
        \/ grants' = [grants EXCEPT ![current][g] = grants[current][g] - 1]
    BY <1>1 DEF CreateObject, SetEvent, ResetEvent, ReleaseMutex, ReleaseSemaphore
  <2>3. \A t \in Threads : grants'[t][h] = grants[t][h]
    BY <1>0, <1>1, <2>2 DEF TypeOK
  <2> QED
    BY <2>1, <2>3 DEF GrantStep, Untouched, SameGrants
<1>2. ASSUME NEW signalled \in BOOLEAN, CreateObject(h, signalled) PROVE GrantStep(h)
  <2> DEFINE mutex == Object("Mutex", FALSE, FALSE, 0, NoOwner)
             owned == Kind[h] = "Mutex" /\ signalled
  <2>1. sync_objects'[h] =
           CASE Kind[h] = "Event"     -> Object("Event", h \in ManualReset, signalled, 0, NoOwner)
             [] Kind[h] = "Semaphore" -> Object("Semaphore", FALSE, FALSE, InitialCount[h], NoOwner)
             [] Kind[h] = "Mutex"     -> IF owned THEN Acquired(mutex) ELSE mutex
    BY <1>0, <1>2 DEF CreateObject, TypeOK
  <2>2. IF owned THEN OneMore(current, h) ELSE SameGrants(h)
    BY <1>0, <1>2 DEF CreateObject, TypeOK, OneMore, SameGrants
  <2>3. Acquired(mutex).kind = "Mutex" /\ Acquired(mutex).owner = current
        /\ Acquired(mutex).recursion = 1
    <3>1. mutex \in SyncObject /\ mutex.kind = "Mutex" /\ mutex.recursion = 0
      BY DEF Object, SyncObject
    <3> HIDE DEF mutex
    <3>2. Acquired(mutex) = [mutex EXCEPT !.owner = current,
                                          !.recursion = mutex.recursion + 1]
      BY <3>1 DEF Acquired
    <3> QED
      BY <3>1, <3>2 DEF SyncObject
  <2>4. sync_objects[h] = NoObject
    BY <1>2 DEF CreateObject
  <2>5. CASE Kind[h] = "Mutex"
    BY <2>1, <2>2, <2>3, <2>4, <2>5 DEF GrantStep, Created, Object
  <2>6. CASE Kind[h] # "Mutex"
    BY <1>0, <2>1, <2>2, <2>4, <2>6 DEF GrantStep, Created, Object
  <2> QED
    BY <2>5, <2>6
<1>3. ASSUME SetEvent(h) \/ ResetEvent(h) PROVE GrantStep(h)
  <2>1. sync_objects[h] # NoObject /\ SameGrants(h)
    BY <1>3 DEF SetEvent, ResetEvent, Exists, SameGrants
  <2>2. /\ sync_objects'[h].kind = sync_objects[h].kind
        /\ sync_objects'[h].count = sync_objects[h].count
        /\ sync_objects'[h].owner = sync_objects[h].owner
        /\ sync_objects'[h].recursion = sync_objects[h].recursion
    <3>1. PICK o \in SyncObject : o = sync_objects[h]
      BY <1>0
    <3>2. PICK b \in BOOLEAN : sync_objects'[h] = [o EXCEPT !.signalled = b]
      BY <1>0, <1>3, <3>1 DEF SetEvent, ResetEvent, TypeOK
    <3> QED
      BY <3>1, <3>2 DEF SyncObject
  <2> QED
    BY <2>1, <2>2 DEF GrantStep, Signalled
<1>4. ASSUME ReleaseMutex(h) \/ ReleaseSemaphore(h) PROVE GrantStep(h)
  <2>0. /\ sync_objects[h] # NoObject /\ grants[current][h] > 0
        /\ grants' = [grants EXCEPT ![current][h] = grants[current][h] - 1]
    BY <1>4 DEF ReleaseMutex, ReleaseSemaphore, Exists
  <2>1. OneLess(current, h)
    BY <1>0, <2>0 DEF OneLess, TypeOK
  <2>2. \/ /\ Kind[h] = "Mutex"
           /\ sync_objects'[h] = Released(sync_objects[h])
        \/ /\ Kind[h] = "Semaphore"
           /\ sync_objects'[h] = [sync_objects[h] EXCEPT !.count = sync_objects[h].count + 1]
    BY <1>0, <1>4 DEF ReleaseMutex, ReleaseSemaphore, TypeOK
  <2> QED
    BY <2>0, <2>1, <2>2 DEF GrantStep, Returned
<1> QED
  BY <1>1, <1>2, <1>3, <1>4 DEF UseObject

LEMMA SliceSteps ==
    ASSUME TypeOK, Slice
    PROVE  \A h \in Objects : GrantStep(h)
<1>1. CASE UNCHANGED <<sync_objects, grants>>
  BY <1>1 DEF GrantStep, Untouched, SameGrants
<1>2. ASSUME CreateThread \/ ExitThread PROVE \A h \in Objects : GrantStep(h)
  <2>1. nthreads \in Int /\ current \in Int /\ Objects \cap Int = {}
        /\ Objects \subseteq Handles
    BY ObjectsAssumption DEF TypeOK, Live, Handles
  <2>2. \A h \in Objects : sync_objects'[h] = sync_objects[h]
    BY <1>2, <2>1 DEF CreateThread, ExitThread, TypeOK
  <2>3. grants' = grants
    BY <1>2 DEF CreateThread, ExitThread
  <2> QED
    BY <2>2, <2>3 DEF GrantStep, Untouched, SameGrants
<1> QED
  BY <1>1, <1>2, WaitSteps, UseObjectSteps
     DEF Slice, Compute, SwitchToThread, Sleep, CreateThreadFails, ExitProcess, history

LEMMA GrantsInvariance == Spec => []GrantsInv
<1>1. Init => GrantsInv
  <2> SUFFICES ASSUME Init, NEW h \in Objects PROVE GrantInv(h)
    BY DEF GrantsInv
  <2>1. Held(h) = {}
    BY DEF Init, Held
  <2>2. IsFiniteSet(Held(h)) /\ Outstanding(h) = 0
    BY <2>1, FS_EmptySet DEF Outstanding
  <2>3. sync_objects[h] = NoObject
    BY ObjectsAssumption DEF Init, Handles
  <2> QED
    BY <2>2, <2>3 DEF GrantInv, NoObject, Object
<1>2. TypeOK /\ TypeOK' /\ GrantsInv /\ [Next]_vars => GrantsInv'
  <2> SUFFICES ASSUME TypeOK, TypeOK', GrantsInv, [Next]_vars, NEW h \in Objects
               PROVE  GrantInv(h)'
    BY DEF GrantsInv
  <2>1. GrantStep(h)
    <3>1. CASE UNCHANGED vars
      BY <3>1 DEF vars, history, GrantStep, Untouched, SameGrants
    <3>2. CASE Terminated
      BY <3>1, <3>2 DEF Terminated
    <3> QED
      BY <3>1, <3>2, PassSteps, SliceSteps DEF Next
  <2> QED
    BY <2>1, GrantStepKeeps DEF GrantsInv
<1> QED
  BY <1>1, <1>2, TypeCorrect, PTL DEF Spec

(* The books balance, whether the hook took the object or the pass took it  *)
(* for a blocked thread: a semaphore's permits are in its count or with the *)
(* threads that were granted them, a mutex is re-entered as often as it was *)
(* granted, and has an owner exactly while it is.  The owner need not be    *)
(* the thread granted it: see MutexHasOneHolder.                            *)
THEOREM GrantsAlwaysBalance == Spec => []GrantsConserved
<1>1. GrantsInv => GrantsConserved
  BY DEF GrantsInv, GrantInv, GrantsConserved
<1> QED
  BY <1>1, GrantsInvariance, PTL

-----------------------------------------------------------------------------
(* A saved guest.  What the sections hold of the guest that was saved: a     *)
(* page is carried, blank or left to its file, and it is left to its file    *)
(* only when it belongs to one.                                              *)
Describes(s, a) ==
    /\ s.current = a.current /\ a.current \in Tids
    /\ s.cpu = a.thread[a.current].ctx
    /\ \A t \in Tids : /\ s.thread[t].ctx = a.thread[t].ctx
                       /\ s.thread[t].state = IF a.thread[t].state = "predicate" THEN "runnable"
                                              ELSE a.thread[t].state
    /\ s.mapped = {p \in Pages : a.mem[p] # "-"}
    /\ s.fromFile \subseteq FilePages
    /\ DOMAIN s.carried = s.mapped \ ({p \in Pages : a.mem[p] = "zero"} \cup s.fromFile)
    /\ \A p \in DOMAIN s.carried : s.carried[p] = a.mem[p]
    /\ \A p \in FilePages : a.mem[p] # "-"

Guest ==
    /\ holder \in Tids /\ cpu \in Int
    /\ thread \in [Tids -> [ctx : Int, state : Kinds]]
    /\ mem \in [Pages -> Contents \cup {"-"}]
    /\ \A p \in FilePages : mem[p] # "-"

SavedInv ==
    /\ stage \in {"running", "saved"} => Guest
    /\ stage = "saved" => Describes(image.has, asked)
    /\ ResumedIsSaved

-----------------------------------------------------------------------------
(* The sections are read one after the other: After is a recursive function, *)
(* and the nine values it takes are written out to show that it is one.      *)

WithCpu     == ReadCpu(Newborn, image.has)
WithThreads == ReadThreads(WithCpu, image.has)
WithRegions == ReadRegions(WithThreads)
WithMapped  == ReadMapped(WithRegions, image.has)
WithPages   == ReadPages(WithMapped, image.has)

Reads(f) == f = [n \in 0 .. Len(Order) |->
                   IF n = 0 THEN Newborn ELSE Apply(Order[n], f[n - 1], image.has)]

StageAt(n) == CASE n = 0 -> Newborn
                [] n \in {1, 2} -> WithCpu
                [] n \in {3, 4, 5} -> WithThreads
                [] n = 6 -> WithRegions
                [] n = 7 -> WithMapped
                [] n \in {8, 9} -> WithPages

LEMMA Tags ==
  /\ Len(Order) = 9
  /\ Order[1] = "CPU " /\ Order[2] = "ALLO" /\ Order[3] = "THRD" /\ Order[4] = "SYNC"
  /\ Order[5] = "FDS " /\ Order[6] = "REGN" /\ Order[7] = "MAPD" /\ Order[8] = "PAGE"
  /\ Order[9] = "END "
BY DEF Order

LEMMA Applied ==
  ASSUME NEW g, NEW s
  PROVE  /\ Apply("CPU ", g, s) = ReadCpu(g, s) /\ Apply("THRD", g, s) = ReadThreads(g, s)
         /\ Apply("REGN", g, s) = ReadRegions(g) /\ Apply("MAPD", g, s) = ReadMapped(g, s)
         /\ Apply("PAGE", g, s) = ReadPages(g, s)
         /\ \A tag \in {"ALLO", "SYNC", "FDS ", "END "} : Apply(tag, g, s) = g
BY DEF Apply

LEMMA StageValues ==
  /\ StageAt(0) = Newborn /\ StageAt(1) = WithCpu /\ StageAt(2) = WithCpu
  /\ StageAt(3) = WithThreads /\ StageAt(4) = WithThreads /\ StageAt(5) = WithThreads
  /\ StageAt(6) = WithRegions /\ StageAt(7) = WithMapped /\ StageAt(8) = WithPages
  /\ StageAt(9) = WithPages
BY DEF StageAt

LEMMA Reading ==
  /\ Apply("CPU ", Newborn, image.has) = WithCpu
  /\ Apply("ALLO", WithCpu, image.has) = WithCpu
  /\ Apply("THRD", WithCpu, image.has) = WithThreads
  /\ Apply("SYNC", WithThreads, image.has) = WithThreads
  /\ Apply("FDS ", WithThreads, image.has) = WithThreads
  /\ Apply("REGN", WithThreads, image.has) = WithRegions
  /\ Apply("MAPD", WithRegions, image.has) = WithMapped
  /\ Apply("PAGE", WithMapped, image.has) = WithPages
  /\ Apply("END ", WithPages, image.has) = WithPages
<1>1. PICK s : s = image.has
  OBVIOUS
<1>2. WithCpu = ReadCpu(Newborn, s)
  BY <1>1 DEF WithCpu
<1>3. WithThreads = ReadThreads(WithCpu, s)
  BY <1>1 DEF WithThreads
<1>4. WithRegions = ReadRegions(WithThreads)
  BY DEF WithRegions
<1>5. WithMapped = ReadMapped(WithRegions, s)
  BY <1>1 DEF WithMapped
<1>6. WithPages = ReadPages(WithMapped, s)
  BY <1>1 DEF WithPages
<1>7. /\ Apply("CPU ", Newborn, s) = ReadCpu(Newborn, s)
      /\ Apply("THRD", WithCpu, s) = ReadThreads(WithCpu, s)
      /\ Apply("REGN", WithThreads, s) = ReadRegions(WithThreads)
      /\ Apply("MAPD", WithRegions, s) = ReadMapped(WithRegions, s)
      /\ Apply("PAGE", WithMapped, s) = ReadPages(WithMapped, s)
  BY Applied
<1>8. /\ Apply("ALLO", WithCpu, s) = WithCpu /\ Apply("SYNC", WithThreads, s) = WithThreads
      /\ Apply("FDS ", WithThreads, s) = WithThreads /\ Apply("END ", WithPages, s) = WithPages
  BY Applied
<1> QED  BY <1>1, <1>2, <1>3, <1>4, <1>5, <1>6, <1>7, <1>8

LEMMA StagesAreRead == Reads([n \in 0 .. Len(Order) |-> StageAt(n)])
<1> DEFINE f == [n \in 0 .. 9 |-> StageAt(n)]
<1>1. ASSUME NEW n \in 1 .. 9, NEW m \in 0 .. 8, m = n - 1
      PROVE  StageAt(n) = Apply(Order[n], StageAt(m), image.has)
  <2>1. CASE n = 1
    <3>1. m = 0
      BY <1>1, <2>1
    <3> QED  BY <2>1, <3>1, StageValues, Tags, Reading
  <2>2. CASE n \in {2, 4, 5, 9}
    <3>1. (n = 2 /\ m = 1) \/ (n = 4 /\ m = 3) \/ (n = 5 /\ m = 4) \/ (n = 9 /\ m = 8)
      BY <1>1, <2>2
    <3> QED  BY <3>1, StageValues, Tags, Reading
  <2>3. CASE n = 3
    <3>1. m = 2
      BY <1>1, <2>3
    <3> QED  BY <2>3, <3>1, StageValues, Tags, Reading
  <2>4. CASE n = 6
    <3>1. m = 5
      BY <1>1, <2>4
    <3> QED  BY <2>4, <3>1, StageValues, Tags, Reading
  <2>5. CASE n = 7
    <3>1. m = 6
      BY <1>1, <2>5
    <3> QED  BY <2>5, <3>1, StageValues, Tags, Reading
  <2>6. CASE n = 8
    <3>1. m = 7
      BY <1>1, <2>6
    <3> QED  BY <2>6, <3>1, StageValues, Tags, Reading
  <2> QED  BY <2>1, <2>2, <2>3, <2>4, <2>5, <2>6
<1>2. ASSUME NEW n \in 0 .. 9
      PROVE  f[n] = IF n = 0 THEN Newborn ELSE Apply(Order[n], f[n - 1], image.has)
  <2>1. CASE n = 0
    BY <2>1, StageValues
  <2>2. CASE n # 0
    <3>1. n \in 1 .. 9
      BY <2>2
    <3>2. PICK m : m = n - 1 /\ m \in 0 .. 8 /\ m \in 0 .. 9
      BY <3>1
    <3>3. StageAt(n) = Apply(Order[n], StageAt(m), image.has)
      BY <1>1, <3>1, <3>2
    <3>4. f[n] = StageAt(n) /\ f[m] = StageAt(m)
      BY <3>2
    <3> HIDE DEF f
    <3> QED  BY <2>2, <3>2, <3>3, <3>4, Zenon
  <2> QED  BY <2>1, <2>2
<1>3. f = [n \in 0 .. 9 |-> IF n = 0 THEN Newborn ELSE Apply(Order[n], f[n - 1], image.has)]
  <2> DEFINE h == [n \in 0 .. 9 |-> IF n = 0 THEN Newborn ELSE Apply(Order[n], f[n - 1], image.has)]
  <2>1. \A n \in 0 .. 9 : h[n] = f[n]
    <3> HIDE DEF f
    <3> QED  BY <1>2
  <2>2. f = [n \in 0 .. 9 |-> f[n]] /\ h = [n \in 0 .. 9 |-> h[n]]
    OBVIOUS
  <2> HIDE DEF f, h
  <2>3. f = h
    BY <2>1, <2>2
  <2> QED  BY <2>3 DEF h
<1> HIDE DEF f
<1>4. Reads(f)
  BY <1>3, Tags DEF Reads
<1> QED  BY <1>4, Tags DEF f

LEMMA AfterReads == Reads(After)
<1>1. After = CHOOSE f : Reads(f)
  BY DEF After, Reads
<1> QED  BY <1>1, StagesAreRead, Zenon

LEMMA AfterStep ==
  ASSUME NEW n \in 1 .. 9, NEW m, m = n - 1
  PROVE  After[n] = Apply(Order[n], After[m], image.has)
<1>1. PICK f : f = After
  OBVIOUS
<1>2. f = [k \in 0 .. 9 |-> IF k = 0 THEN Newborn ELSE Apply(Order[k], f[k - 1], image.has)]
  BY <1>1, AfterReads, Tags DEF Reads
<1>3. n \in 0 .. 9 /\ n # 0
  OBVIOUS
<1>4. f[n] = IF n = 0 THEN Newborn ELSE Apply(Order[n], f[n - 1], image.has)
  BY <1>2, <1>3, Zenon
<1> QED  BY <1>1, <1>3, <1>4, Zenon

LEMMA AfterAll == After[9] = WithPages
<1>1. After[0] = Newborn
  <2>1. PICK f : f = After
    OBVIOUS
  <2>2. f = [k \in 0 .. 9 |-> IF k = 0 THEN Newborn ELSE Apply(Order[k], f[k - 1], image.has)]
    BY <2>1, AfterReads, Tags DEF Reads
  <2> QED  BY <2>1, <2>2
<1>2. /\ 0 = 1 - 1 /\ 1 = 2 - 1 /\ 2 = 3 - 1 /\ 3 = 4 - 1 /\ 4 = 5 - 1 /\ 5 = 6 - 1
      /\ 6 = 7 - 1 /\ 7 = 8 - 1 /\ 8 = 9 - 1
      /\ \A n \in {1, 2, 3, 4, 5, 6, 7, 8, 9} : n \in 1 .. 9
  OBVIOUS
<1>3. /\ After[1] = Apply(Order[1], After[0], image.has) /\ After[2] = Apply(Order[2], After[1], image.has)
      /\ After[3] = Apply(Order[3], After[2], image.has) /\ After[4] = Apply(Order[4], After[3], image.has)
      /\ After[5] = Apply(Order[5], After[4], image.has) /\ After[6] = Apply(Order[6], After[5], image.has)
      /\ After[7] = Apply(Order[7], After[6], image.has) /\ After[8] = Apply(Order[8], After[7], image.has)
      /\ After[9] = Apply(Order[9], After[8], image.has)
  BY <1>2, AfterStep, Zenon
<1>4. /\ After[1] = Apply("CPU ", After[0], image.has) /\ After[2] = Apply("ALLO", After[1], image.has)
      /\ After[3] = Apply("THRD", After[2], image.has) /\ After[4] = Apply("SYNC", After[3], image.has)
      /\ After[5] = Apply("FDS ", After[4], image.has) /\ After[6] = Apply("REGN", After[5], image.has)
      /\ After[7] = Apply("MAPD", After[6], image.has) /\ After[8] = Apply("PAGE", After[7], image.has)
      /\ After[9] = Apply("END ", After[8], image.has)
  BY <1>3, Tags
<1>5. After[1] = WithCpu /\ After[2] = WithCpu
  BY <1>1, <1>4, Reading
<1>6. After[3] = WithThreads /\ After[4] = WithThreads /\ After[5] = WithThreads
  BY <1>4, <1>5, Reading
<1> QED  BY <1>4, <1>6, Reading

-----------------------------------------------------------------------------
(* What the guest is when all sections have been read.                      *)
LEMMA WithPagesIs ==
  ASSUME NEW s, s = image.has
  PROVE  /\ WithPages.cpu = s.cpu /\ WithPages.current = s.current /\ WithPages.thread = s.thread
         /\ \A p \in Pages : WithPages.mem[p] =
              CASE p \in DOMAIN s.carried -> s.carried[p]
                [] p \in s.fromFile /\ file[p] # "-" -> file[p]
                [] OTHER -> IF p \in FilePages \/ p \in s.mapped THEN "zero" ELSE "-"
<1>2. /\ WithCpu = [cpu |-> s.cpu, current |-> Main, thread |-> Fresh, mem |-> FreshMem]
  BY DEF WithCpu, ReadCpu, Newborn
<1>3. WithThreads = [cpu |-> s.cpu, current |-> s.current, thread |-> s.thread, mem |-> FreshMem]
  <2>1. PICK g : g = WithCpu
    OBVIOUS
  <2>2. PICK h : h = [cpu |-> s.cpu, current |-> Main, thread |-> s.thread, mem |-> FreshMem]
    OBVIOUS
  <2>3. [g EXCEPT !.thread = s.thread] = h
    BY <1>2, <2>1, <2>2
  <2>4. [h EXCEPT !.current = s.current]
          = [cpu |-> s.cpu, current |-> s.current, thread |-> s.thread, mem |-> FreshMem]
    BY <2>2
  <2>5. [g EXCEPT !.thread = s.thread, !.current = s.current] = [h EXCEPT !.current = s.current]
    BY <2>3
  <2> QED  BY <2>1, <2>4, <2>5 DEF WithThreads, ReadThreads
<1>4. PICK m1 : m1 = [p \in Pages |-> IF p \in FilePages THEN "zero" ELSE "-"]
  OBVIOUS
<1>5. WithRegions = [cpu |-> s.cpu, current |-> s.current, thread |-> s.thread, mem |-> m1]
  BY <1>3, <1>4 DEF WithRegions, ReadRegions
<1>6. PICK m2 : m2 = [p \in Pages |-> IF p \in s.mapped /\ m1[p] = "-" THEN "zero" ELSE m1[p]]
  OBVIOUS
<1>7. WithMapped = [cpu |-> s.cpu, current |-> s.current, thread |-> s.thread, mem |-> m2]
  BY <1>5, <1>6 DEF WithMapped, ReadMapped
<1>8. PICK m3 : m3 = [p \in Pages |-> CASE p \in DOMAIN s.carried -> s.carried[p]
                                        [] p \in s.fromFile /\ file[p] # "-" -> file[p]
                                        [] OTHER -> m2[p]]
  OBVIOUS
<1>9. WithPages = [cpu |-> s.cpu, current |-> s.current, thread |-> s.thread, mem |-> m3]
  BY <1>7, <1>8 DEF WithPages, ReadPages
<1>10. \A p \in Pages : m2[p] = IF p \in FilePages \/ p \in s.mapped THEN "zero" ELSE "-"
  BY <1>4, <1>6
<1> QED  BY <1>8, <1>9, <1>10

LEMMA LoadedIs ==
  ASSUME SavedStateAssumption, SavedInv, Load, Whole(image)
  PROVE  ResumedIsSaved'
<1> DEFINE s == image.has
           a == asked
<1>1. stage = "saved" /\ Describes(s, a)
  BY DEF Load, SavedInv
<1>2. After[image.whole] = WithPages
  BY AfterAll, Tags DEF Whole
<1>3. /\ cpu' = s.cpu /\ holder' = s.current /\ thread' = s.thread /\ mem' = WithPages.mem
      /\ file' = file /\ image' = image /\ asked' = asked
  BY <1>2, WithPagesIs DEF Load
<1>4. /\ holder' = a.current /\ cpu' = a.thread[a.current].ctx
      /\ \A t \in Tids : /\ thread'[t].ctx = a.thread[t].ctx
                         /\ thread'[t].state = IF a.thread[t].state = "predicate" THEN "runnable"
                                               ELSE a.thread[t].state
  BY <1>1, <1>3 DEF Describes
<1>5. \A p \in Pages : mem'[p] =
        CASE p \in DOMAIN s.carried -> s.carried[p]
          [] p \in s.fromFile /\ file[p] # "-" -> file[p]
          [] OTHER -> IF p \in FilePages \/ p \in s.mapped THEN "zero" ELSE "-"
  BY <1>3, WithPagesIs
<1>6. ASSUME NEW p \in Pages \ s.fromFile
      PROVE  mem'[p] = a.mem[p]
  <2>1. CASE p \in DOMAIN s.carried
    BY <1>1, <1>5, <2>1 DEF Describes
  <2>2. CASE p \notin DOMAIN s.carried
    <3>1. mem'[p] = IF p \in FilePages \/ p \in s.mapped THEN "zero" ELSE "-"
      BY <1>5, <2>2
    <3>2. a.mem[p] = IF p \in s.mapped THEN "zero" ELSE "-"
      BY <1>1, <2>2 DEF Describes
    <3>3. p \in FilePages => p \in s.mapped
      BY <1>1 DEF Describes
    <3> QED  BY <3>1, <3>2, <3>3
  <2> QED  BY <2>1, <2>2
<1>7. ASSUME NEW p \in s.fromFile
      PROVE  mem'[p] = IF file[p] = "-" THEN "zero" ELSE file[p]
  <2>1. p \in Pages /\ p \in FilePages /\ p \notin DOMAIN s.carried
    BY <1>1 DEF Describes, SavedStateAssumption
  <2> QED  BY <1>5, <2>1
<1> QED  BY <1>3, <1>4, <1>6, <1>7 DEF ResumedIsSaved

LEMMA SectionsDescribe ==
  ASSUME SavedStateAssumption, SavedInv, NEW whole, NEW cut, Save(whole, cut)
  PROVE  Describes(image'.has, asked')
<1> DEFINE s == image'.has
           a == asked'
<1>1. /\ s.cpu = cpu /\ s.current = holder /\ s.thread = [t \in Tids |-> RecordOf(t)]
      /\ s.mapped = {p \in Pages : mem[p] # "-"} /\ s.fromFile = FromFile
      /\ s.carried = [p \in Carried |-> mem[p]]
  BY DEF Save, Sections
<1>2. /\ a.thread = [t \in Tids |-> IF t = holder THEN [thread[t] EXCEPT !.ctx = cpu] ELSE thread[t]]
      /\ a.current = holder /\ a.mem = mem
  BY DEF Save
<1>3. holder \in Tids /\ thread \in [Tids -> [ctx : Int, state : Kinds]] /\ \A p \in FilePages : mem[p] # "-"
  BY DEF SavedInv, Guest, Save
<1>4. ASSUME NEW t \in Tids
      PROVE  /\ s.thread[t].ctx = a.thread[t].ctx
             /\ s.thread[t].state = IF a.thread[t].state = "predicate" THEN "runnable" ELSE a.thread[t].state
  <2>1. /\ a.thread[t].ctx = (IF t = holder THEN cpu ELSE thread[t].ctx)
        /\ a.thread[t].state = thread[t].state
    BY <1>2, <1>3
  <2>2. s.thread[t] = RecordOf(t)
    BY <1>1
  <2> HIDE DEF s, a
  <2> QED  BY <2>1, <2>2 DEF RecordOf
<1>5. s.cpu = a.thread[a.current].ctx
  BY <1>1, <1>2, <1>3
<1>6. /\ s.fromFile \subseteq FilePages
      /\ DOMAIN s.carried = s.mapped \ ({p \in Pages : a.mem[p] = "zero"} \cup s.fromFile)
      /\ \A p \in DOMAIN s.carried : s.carried[p] = a.mem[p]
  <2> HIDE DEF s, a
  <2> QED  BY <1>1, <1>2 DEF Carried, Blank, FromFile
<1> HIDE DEF s, a
<1>7. Describes(s, a)
  BY <1>1, <1>2, <1>3, <1>4, <1>5, <1>6 DEF Describes
<1> QED  BY <1>7 DEF s, a

LEMMA SavedKeeps ==
  ASSUME SavedStateAssumption, SavedInv, [StateNext]_savedVars
  PROVE  SavedInv'
<1>1. CASE Step
  <2>1. /\ stage = "running" /\ stage' = "running" /\ holder' = holder /\ thread' = thread /\ cpu' \in Int
    BY <1>1 DEF Step, Run, SavedInv, Guest
  <2>2. mem' \in [Pages -> Contents \cup {"-"}]
    BY <1>1 DEF Run, Step, SavedInv, Guest
  <2>3. \A p \in FilePages : mem'[p] # "-"
    BY <1>1, <2>1 DEF Step, SavedInv, Guest, SavedStateAssumption, Contents
  <2> QED  BY <2>1, <2>2, <2>3 DEF SavedInv, Guest, ResumedIsSaved
<1>2. ASSUME NEW how \in {"handle", "predicate"}, BlockOn(how)
      PROVE  SavedInv'
  <2>1. how \in Kinds
    BY DEF Kinds
  <2>2. thread' \in [Tids -> [ctx : Int, state : Kinds]]
    BY <1>2, <2>1 DEF Run, BlockOn, SavedInv, Guest
  <2> QED  BY <1>2, <2>2 DEF BlockOn, Run, SavedInv, Guest, ResumedIsSaved
<1>3. ASSUME NEW t \in Tids, Wake(t) \/ Create(t)
      PROVE  SavedInv'
  <2>1. /\ thread' = [thread EXCEPT ![t].state = "runnable"] /\ "runnable" \in Kinds
        /\ stage = "running"
    BY <1>3 DEF Wake, Create, Run, Kinds
  <2>2. thread' \in [Tids -> [ctx : Int, state : Kinds]]
    BY <2>1 DEF SavedInv, Guest
  <2> QED  BY <1>3, <2>2 DEF Wake, Create, Run, SavedInv, Guest, ResumedIsSaved
<1>4. ASSUME NEW t \in Tids, Switch(t)
      PROVE  SavedInv'
  <2>1. thread' \in [Tids -> [ctx : Int, state : Kinds]] /\ thread[t].ctx \in Int
    BY <1>4 DEF Run, Switch, SavedInv, Guest
  <2> QED  BY <1>4, <2>1 DEF Switch, Run, SavedInv, Guest, ResumedIsSaved
<1>5. ASSUME NEW p \in FilePages, NEW v \in {"text", "own", "-"}, EditFile(p, v)
      PROVE  SavedInv'
  BY <1>5 DEF EditFile, SavedInv, Guest, ResumedIsSaved
<1>6. ASSUME NEW n \in 0 .. Len(Order), NEW cut \in {"none", "header", "body"}, Save(n, cut)
      PROVE  SavedInv'
  <2>1. Describes(image'.has, asked')
    BY <1>6, SectionsDescribe
  <2>2. /\ stage = "running" /\ stage' = "saved"
        /\ UNCHANGED <<cpu, holder, thread, mem>>
    BY <1>6 DEF Save
  <2> QED  BY <2>1, <2>2 DEF SavedInv, Guest, ResumedIsSaved
<1>7. CASE Load
  <2>1. Whole(image) => ResumedIsSaved'
    BY <1>7, LoadedIs
  <2>2. image' = image /\ stage' \in {"refused", "resumed"}
    BY <1>7 DEF Load
  <2> QED  BY <1>7, <2>1, <2>2 DEF SavedInv, Guest, ResumedIsSaved, Whole
<1>8. CASE UNCHANGED savedVars
  BY <1>8 DEF savedVars, SavedInv, Guest, ResumedIsSaved, Describes, Whole
<1> QED  BY <1>1, <1>2, <1>3, <1>4, <1>5, <1>6, <1>7, <1>8 DEF StateNext

LEMMA SavedBegins ==
  ASSUME SavedStateAssumption, StateInit
  PROVE  SavedInv
<1>1. thread \in [Tids -> [ctx : Int, state : Kinds]]
  BY DEF StateInit, Fresh, Kinds
<1>2. /\ mem \in [Pages -> Contents \cup {"-"}]
      /\ \A p \in FilePages : mem[p] # "-"
  BY DEF StateInit, FreshMem, Contents, SavedStateAssumption
<1> QED  BY <1>1, <1>2 DEF StateInit, SavedInv, Guest, ResumedIsSaved, SavedStateAssumption

(* While the guest runs and while its state file waits, the types, and that *)
(* the file's sections describe the guest that was saved.                   *)
THEOREM StateFileDescribes ==
  ASSUME SavedStateAssumption
  PROVE  StateSpec => []SavedInv
<1>1. StateInit => SavedInv
  BY SavedBegins
<1>2. SavedInv /\ [StateNext]_savedVars => SavedInv'
  BY SavedKeeps
<1> QED  BY <1>1, <1>2, PTL DEF StateSpec

(* A guest of any number of threads and pages, resumed from a whole state   *)
(* file, is the one that was saved.                                         *)
THEOREM GuestComesBack ==
  ASSUME SavedStateAssumption
  PROVE  StateSpec => []ResumedIsSaved
<1>1. SavedInv => ResumedIsSaved
  BY DEF SavedInv
<1> QED  BY <1>1, StateFileDescribes, PTL
=============================================================================
