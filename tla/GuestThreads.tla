---------------------------- MODULE GuestThreads ----------------------------
(***************************************************************************)
(* The green threads of one emulated process: the scheduler of             *)
(* src/src/threads.cpp and emulator.cpp (pick_runnable, switch_to_thread,  *)
(* run_slice), the Win32 waitable objects and the waiting hooks.           *)
(*                                                                         *)
(* The emulator is one host thread.  It alternates between a scheduling    *)
(* pass (phase "wake": pick_runnable visits the threads one by one, then   *)
(* one is dispatched) and a slice (phase "run": the current thread         *)
(* executes instructions until it yields or the quantum is used up).  The  *)
(* guest program is arbitrary: in its slice a thread may call any hook,    *)
(* save that it releases only what it was granted.                         *)
(*                                                                         *)
(* Time is an instruction count that is only ever compared with a          *)
(* deadline, so deadlines are kept relative to it: wake_at[t] is how many  *)
(* instructions are left before t's timer is due, slice_left how many      *)
(* before the slice's deadline.                                            *)
(***************************************************************************)
EXTENDS Integers, SequencesExt

CONSTANTS
    MaxThreads,     \* bound: threads_ never grows beyond it
    Objects,        \* the handles CreateEvent/Mutex/Semaphore can return
    Kind,           \* Kind[h]: what the guest creates under h
    ManualReset,    \* the events created with bManualReset
    InitialCount,   \* a semaphore's initial count
    MaxRecursion,   \* bound: how often a thread re-takes a mutex it was granted
    WaitLists,      \* the handle arrays given to WaitForMultipleObjects
    Timeouts,       \* the finite, non-zero timeouts used, in milliseconds
    TicksPerMs,     \* 1000 instructions in begin_wait and Sleep
    Quantum         \* kQuantum, 20000 instructions

Threads == 0 .. MaxThreads - 1          \* indices into threads_
Handles == Objects \cup Threads         \* a thread's own handle is its index

NoHandle == -1
NoTimer  == -1
NoOwner  == -1
Infinite == -1                          \* kInfinite
WaitTimeout == 258                      \* 0x102
Rax == 0 .. WaitTimeout                 \* the results the hooks return

ASSUME ThreadsAssumption ==
    /\ MaxThreads \in Nat \ {0}
    /\ MaxRecursion \in Nat \ {0}
    /\ Quantum \in Nat \ {0}
    /\ TicksPerMs \in Nat \ {0}
    /\ Timeouts \subseteq Nat \ {0}

ASSUME ObjectsAssumption ==
    /\ Objects \cap Int = {}
    /\ Kind \in [Objects -> {"Event", "Mutex", "Semaphore"}]
    /\ ManualReset \subseteq Objects
    /\ InitialCount \in [Objects -> Nat]
    /\ \A hs \in WaitLists :
          /\ hs \in Seq(Objects \cup (0 .. MaxThreads - 1))
          /\ Len(hs) \in 1 .. 64                   \* MAXIMUM_WAIT_OBJECTS
          /\ \A i, j \in 1 .. Len(hs) : i # j => hs[i] # hs[j]

VARIABLES
    nthreads,      \* threads_.size()
    state,         \* GuestThread::state
    wait_handle,   \* GuestThread::wait_handle
    wake_at,       \* GuestThread::wake_at, relative to the clock
    saved,         \* the saved context of a thread, its RAX standing for all of it
    sync_objects,  \* sync_objects_
    current,       \* current_thread_
    rax,           \* the live CPU's RAX
    slice_left,    \* instructions left in the slice
    phase,         \* where System::run is: "wake", "run", "exited", "deadlock"
    scan           \* the threads pick_runnable's first loop has visited

(***************************************************************************)
(* History variables; no guard of the code's reads them.                   *)
(***************************************************************************)
VARIABLES
    view,          \* the RAX each thread's own instruction stream produced
    grants,        \* acquisitions of h made for t and not yet released by t
    call           \* the wait a thread is in, or has just returned from

threadVars == <<nthreads, state, wait_handle, wake_at, saved>>
cpuVars    == <<current, rax, slice_left, phase, scan>>
history    == <<view, grants, call>>
vars       == <<threadVars, cpuVars, sync_objects, history>>

-----------------------------------------------------------------------------
(* Types.                                                                  *)

SyncObject == [kind : {"None", "Event", "Mutex", "Semaphore", "Thread"},
               manual_reset : BOOLEAN, signalled : BOOLEAN,
               count : Nat, owner : Threads \cup {NoOwner}, recursion : Nat]

NoCall == [mode |-> "none", wants |-> {}, got |-> {}, timed |-> FALSE]
Call == [mode : {"none", "any", "all"}, wants : SUBSET Handles,
         got : SUBSET Handles, timed : BOOLEAN]

Live == 0 .. nthreads - 1               \* the threads created so far

TypeOK ==
    /\ nthreads \in 1 .. MaxThreads
    /\ state \in [Threads -> {"Runnable", "Blocked", "Finished"}]
    /\ wait_handle \in [Threads -> Handles \cup {NoHandle}]
    /\ wake_at \in [Threads -> Nat \cup {NoTimer}]
    /\ saved \in [Threads -> Rax]
    /\ sync_objects \in [Handles -> SyncObject]
    /\ current \in Live
    /\ rax \in Rax
    /\ slice_left \in 0 .. Quantum
    /\ phase \in {"wake", "run", "exited", "deadlock"}
    /\ scan \in 0 .. nthreads
    /\ view \in [Threads -> Rax]
    /\ grants \in [Threads -> [Objects -> Nat]]
    /\ call \in [Threads -> Call]

-----------------------------------------------------------------------------
(* Waitable objects.                                                       *)

Object(kind, manual, signalled, count, owner) ==
    [kind |-> kind, manual_reset |-> manual, signalled |-> signalled,
     count |-> count, owner |-> owner, recursion |-> 0]

NoObject == Object("None", FALSE, FALSE, 0, NoOwner)   \* not in sync_objects_
ThreadObject(t) == Object("Thread", TRUE, FALSE, 0, t)

(* try_acquire's test.  A mutex compares its owner with current_thread_id(), *)
(* whoever the acquisition is for; a handle that names no object is never    *)
(* something to wait on.                                                     *)
Available(h) ==
    LET o == sync_objects[h] IN
    CASE o.kind = "None"               -> TRUE
      [] o.kind \in {"Event", "Thread"} -> o.signalled
      [] o.kind = "Semaphore"          -> o.count > 0
      [] o.kind = "Mutex"              -> o.owner \in {NoOwner, current}

(* Mutant: taking a permit forgets to count it. *)
Acquired_KeepsPermit(o) ==
    CASE o.kind = "Event"     -> [o EXCEPT !.signalled = o.manual_reset]
      [] o.kind = "Mutex"     -> [o EXCEPT !.owner = current,
                                           !.recursion = o.recursion + 1]
      [] OTHER                -> o

(* try_acquire's side effect on an object that is available. *)
Acquired(o) ==
    CASE o.kind = "Event"     -> [o EXCEPT !.signalled = o.manual_reset]
      [] o.kind = "Semaphore" -> [o EXCEPT !.count = o.count - 1]
      [] o.kind = "Mutex"     -> [o EXCEPT !.owner = current,
                                           !.recursion = o.recursion + 1]
      [] OTHER                -> o

Owned(h) == h \in Objects /\ sync_objects[h].kind \in {"Mutex", "Semaphore"}

(* History: the handles hs were acquired for thread t. *)
Granted(t, hs) ==
    [grants EXCEPT ![t] = [h \in Objects |->
        IF h \in hs /\ Owned(h) THEN grants[t][h] + 1 ELSE grants[t][h]]]

-----------------------------------------------------------------------------
(* The clock.                                                              *)

Less(a, b) == IF a > b THEN a - b ELSE 0

(* Every pending deadline once n more instructions have been counted. *)
Elapsed(n) ==
    [t \in Threads |-> IF wake_at[t] = NoTimer THEN NoTimer
                                               ELSE Less(wake_at[t], n)]

Deadline(ms) == IF ms = Infinite THEN NoTimer ELSE ms * TicksPerMs

-----------------------------------------------------------------------------
(* The program is loaded: it is thread 0, its context already in the CPU.  *)

Init ==
    /\ nthreads = 1
    /\ state = [t \in Threads |-> "Runnable"]
    /\ wait_handle = [t \in Threads |-> NoHandle]
    /\ wake_at = [t \in Threads |-> NoTimer]
    /\ saved = [t \in Threads |-> 0]
    /\ sync_objects = [h \in Handles |-> IF h = 0 THEN ThreadObject(0) ELSE NoObject]
    /\ current = 0
    /\ rax = 0
    /\ slice_left = 0
    /\ phase = "wake"
    /\ scan = 0
    /\ view = [t \in Threads |-> 0]
    /\ grants = [t \in Threads |-> [h \in Objects |-> 0]]
    /\ call = [t \in Threads |-> NoCall]

-----------------------------------------------------------------------------
(* The scheduling pass: run_slice up to its loop, and System::run's idle   *)
(* round.                                                                  *)

Visited(t) == phase = "wake" /\ scan < nthreads /\ t = scan

(* The end of each branch of pick_runnable's loop that wakes t. *)
MakeRunnable(t) ==
    /\ state' = [state EXCEPT ![t] = "Runnable"]
    /\ wait_handle' = [wait_handle EXCEPT ![t] = NoHandle]
    /\ wake_at' = [wake_at EXCEPT ![t] = NoTimer]

(* The deadline has passed, of a Sleep or of a wait: nothing is acquired. *)
WakeOnTimer(t) ==
    /\ Visited(t)
    /\ state[t] = "Blocked" /\ wake_at[t] = 0
    /\ MakeRunnable(t)
    /\ scan' = scan + 1
    /\ UNCHANGED <<nthreads, saved, sync_objects, current, rax, slice_left,
                   phase, history>>

(* The object t waits for is available: it is acquired and t woken. *)
WakeOnObject(t) ==
    /\ Visited(t)
    /\ state[t] = "Blocked" /\ wake_at[t] # 0
    /\ wait_handle[t] # NoHandle /\ Available(wait_handle[t])
    /\ MakeRunnable(t)
    /\ sync_objects' = [sync_objects EXCEPT
                           ![wait_handle[t]] = Acquired(sync_objects[wait_handle[t]])]
    /\ grants' = Granted(t, {wait_handle[t]})
    /\ call' = [call EXCEPT ![t].got = call[t].got \cup {wait_handle[t]}]
    /\ scan' = scan + 1
    /\ UNCHANGED <<nthreads, saved, current, rax, slice_left, phase, view>>

(* Mutant: the loop starts at the second thread. *)
LeaveAsIs_SkipsFirst(t) ==
    /\ Visited(t)
    /\ state[t] = "Blocked" /\ t # 0 =>
          /\ wake_at[t] # 0
          /\ wait_handle[t] # NoHandle => ~Available(wait_handle[t])
    /\ scan' = scan + 1
    /\ UNCHANGED <<threadVars, sync_objects, current, rax, slice_left, phase,
                   history>>

(* Mutant: a thread that waits for an object is never woken by its timeout. *)
LeaveAsIs_IgnoresTimeout(t) ==
    /\ Visited(t)
    /\ state[t] = "Blocked" =>
          /\ wake_at[t] # 0 \/ wait_handle[t] # NoHandle
          /\ wait_handle[t] # NoHandle => ~Available(wait_handle[t])
    /\ scan' = scan + 1
    /\ UNCHANGED <<threadVars, sync_objects, current, rax, slice_left, phase,
                   history>>

(* t is not blocked, or must stay so. *)
LeaveAsIs(t) ==
    /\ Visited(t)
    /\ state[t] = "Blocked" =>
          /\ wake_at[t] # 0
          /\ wait_handle[t] # NoHandle => ~Available(wait_handle[t])
    /\ scan' = scan + 1
    /\ UNCHANGED <<threadVars, sync_objects, current, rax, slice_left, phase,
                   history>>

(* How far the round-robin search is from thread i: the thread after the   *)
(* current one is nearest, the current one itself farthest.                *)
Distance(i) == IF i > current THEN i - current ELSE i - current + nthreads

(* Mutant: the search starts at thread 0 instead of after the current one. *)
NextRunnable_FromFirst(i) ==
    /\ i \in Live /\ state[i] = "Runnable"
    /\ \A j \in Live : state[j] = "Runnable" => i <= j

NextRunnable(i) ==
    /\ i \in Live /\ state[i] = "Runnable"
    /\ \A j \in Live : state[j] = "Runnable" => Distance(i) <= Distance(j)

(* Mutant: the outgoing context is not saved. *)
SwitchTo_NoSave(i) ==
    /\ current' = i
    /\ saved' = saved
    /\ rax' = IF i = current THEN rax ELSE saved[i]

(* switch_to_thread: the outgoing context leaves the CPU, the incoming one *)
(* enters it.  The thread that is already current keeps the CPU as it is.  *)
SwitchTo(i) ==
    /\ current' = i
    /\ saved' = IF i = current THEN saved ELSE [saved EXCEPT ![current] = rax]
    /\ rax' = IF i = current THEN rax ELSE saved[i]

Dispatch(i) ==
    /\ phase = "wake" /\ scan = nthreads
    /\ NextRunnable(i)
    /\ SwitchTo(i)
    /\ slice_left' = Quantum
    /\ phase' = "run"
    /\ UNCHANGED <<nthreads, state, wait_handle, wake_at, sync_objects, scan,
                   history>>

(* Nothing can run: the clock keeps pace by a quantum and then jumps to    *)
(* the earliest deadline; without any deadline this is a deadlock.         *)
Timed == {t \in Live : state[t] = "Blocked" /\ wake_at[t] # NoTimer}

Idle ==
    /\ phase = "wake" /\ scan = nthreads
    /\ \A t \in Live : state[t] # "Runnable"
    /\ \/ \E first \in Timed :
             /\ \A t \in Timed : wake_at[first] <= wake_at[t]
             /\ wake_at' = Elapsed(IF wake_at[first] > Quantum
                                   THEN wake_at[first] ELSE Quantum)
             /\ scan' = 0
             /\ UNCHANGED phase
       \/ /\ Timed = {}
          /\ phase' = "deadlock"
          /\ UNCHANGED <<wake_at, scan>>
    /\ UNCHANGED <<nthreads, state, wait_handle, saved, sync_objects, current,
                   rax, slice_left, history>>

-----------------------------------------------------------------------------
(* The slice.  One action per hook; each counts one instruction.           *)

(* The loop of run_slice goes on unless the thread yielded or blocked, or  *)
(* the quantum is used up; then the next scheduling pass begins.           *)
Continue(yields) ==
    IF yields \/ slice_left = 1
    THEN phase' = "wake" /\ scan' = 0 /\ slice_left' = 0
    ELSE phase' = "run" /\ scan' = scan /\ slice_left' = slice_left - 1

(* The current thread has executed a hook with this result. *)
Return(result) ==
    /\ rax' = result
    /\ view' = [view EXCEPT ![current] = result]

(* A hook that neither blocks nor ends the thread. *)
Hook(result, yields) ==
    /\ phase = "run"
    /\ Return(result)
    /\ wake_at' = Elapsed(1)
    /\ Continue(yields)
    /\ UNCHANGED <<state, wait_handle, saved, current>>

(* The wait the current thread had returned from is behind it: history only. *)
Finished_call == call' = [call EXCEPT ![current] = NoCall]

(* Any instruction that is not a hook of this module, and keeps RAX. *)
Compute ==
    /\ Hook(rax, FALSE)
    /\ Finished_call
    /\ UNCHANGED <<nthreads, sync_objects, grants>>

SwitchToThread ==
    /\ Hook(1, TRUE)
    /\ Finished_call
    /\ UNCHANGED <<nthreads, sync_objects, grants>>

(* The current thread blocks on h, if that is a handle, until the deadline. *)
Block(h, deadline) ==
    /\ state' = [state EXCEPT ![current] = "Blocked"]
    /\ wait_handle' = [wait_handle EXCEPT ![current] = h]
    /\ wake_at' = [Elapsed(1) EXCEPT ![current] = deadline]
    /\ Continue(TRUE)

(* Sleep sets a deadline and leaves wait_handle as it is. *)
Sleep(ms) ==
    /\ phase = "run"
    /\ IF ms = 0 THEN /\ wake_at' = Elapsed(1)
                      /\ Continue(TRUE)
                      /\ UNCHANGED <<state, wait_handle>>
                 ELSE Block(wait_handle[current], Deadline(ms))
    /\ Return(0)
    /\ Finished_call
    /\ UNCHANGED <<nthreads, saved, sync_objects, current, grants>>

(* The current thread starts a wait: history only. *)
Calls(mode, wants, got, ms) ==
    call' = [call EXCEPT ![current] =
        [mode |-> mode, wants |-> wants, got |-> got, timed |-> ms # Infinite]]

(* The current thread acquires hs, all of them available, at once. *)
Take(hs) ==
    /\ sync_objects' = [h \in Handles |-> IF h \in hs THEN Acquired(sync_objects[h])
                                                      ELSE sync_objects[h]]
    /\ grants' = Granted(current, hs)

(* begin_wait(h, ms) and the hook around it: the object is acquired at     *)
(* once, the poll answered, or the thread blocks with the result in RAX.   *)
WaitForSingleObject(h, ms) ==
    /\ phase = "run"
    /\ \/ /\ Available(h)
          /\ Take({h})
          /\ Calls("all", {h}, {h}, ms)
          /\ Hook(0, FALSE)
       \/ /\ ~Available(h) /\ ms = 0
          /\ Hook(WaitTimeout, FALSE)
          /\ Finished_call
          /\ UNCHANGED <<sync_objects, grants>>
       \/ /\ ~Available(h) /\ ms # 0
          /\ Block(h, Deadline(ms))
          /\ Return(0)
          /\ Calls("all", {h}, {}, ms)
          /\ UNCHANGED <<saved, sync_objects, current, grants>>
    /\ UNCHANGED nthreads

(* WaitForMultipleObjects, bWaitAll FALSE: the first available handle is    *)
(* taken; when there is none the thread blocks on the first of the array.   *)
WaitAny(hs, ms) ==
    /\ phase = "run"
    /\ \/ \E i \in 1 .. Len(hs) :
             /\ Available(hs[i])
             /\ \A j \in 1 .. i - 1 : ~Available(hs[j])
             /\ Take({hs[i]})
             /\ Calls("any", ToSet(hs), {hs[i]}, ms)
             /\ Hook(i - 1, FALSE)
       \/ /\ \A i \in 1 .. Len(hs) : ~Available(hs[i])
          /\ Calls("any", ToSet(hs), {}, ms)
          /\ UNCHANGED <<sync_objects, grants>>
          /\ IF ms = 0 THEN Hook(0, FALSE)
                       ELSE /\ Block(hs[1], Deadline(ms))
                            /\ Return(0)
                            /\ UNCHANGED <<saved, current>>
    /\ UNCHANGED nthreads

(* WaitForMultipleObjects, bWaitAll TRUE: the handles are acquired one by   *)
(* one up to the first, the n+1st, that is not available.                   *)
WaitAll(hs, ms) ==
    /\ phase = "run"
    /\ \E n \in 0 .. Len(hs) :
          /\ \A i \in 1 .. n : Available(hs[i])
          /\ n < Len(hs) => ~Available(hs[n + 1])
          /\ LET taken == {hs[i] : i \in 1 .. n} IN
             /\ Take(taken)
             /\ Calls("all", ToSet(hs), taken, ms)
          /\ IF n = Len(hs) \/ ms = 0
             THEN Hook(0, FALSE)
             ELSE /\ Block(hs[n + 1], Deadline(ms))
                  /\ Return(0)
                  /\ UNCHANGED <<saved, current>>
    /\ UNCHANGED nthreads

-----------------------------------------------------------------------------
(* Creating, signalling and releasing.                                     *)

(* CreateEvent, CreateMutex, CreateSemaphore.  signalled: bInitialState of  *)
(* an event, bInitialOwner of a mutex.                                      *)
CreateObject(h, signalled) ==
    LET event     == Object("Event", h \in ManualReset, signalled, 0, NoOwner)
        semaphore == Object("Semaphore", FALSE, FALSE, InitialCount[h], NoOwner)
        mutex     == Object("Mutex", FALSE, FALSE, 0, NoOwner)
        owned     == Kind[h] = "Mutex" /\ signalled
    IN
    /\ sync_objects[h] = NoObject
    /\ sync_objects' = [sync_objects EXCEPT ![h] =
           CASE Kind[h] = "Event"     -> event
             [] Kind[h] = "Semaphore" -> semaphore
             [] Kind[h] = "Mutex"     -> IF owned THEN Acquired(mutex) ELSE mutex]
    /\ grants' = IF owned THEN [grants EXCEPT ![current][h] = grants[current][h] + 1]
                          ELSE grants
    /\ Hook(1, FALSE)
    /\ Finished_call
    /\ UNCHANGED nthreads

Exists(h) == sync_objects[h] # NoObject

(* SetEvent, PulseEvent and ResetEvent do not ask what kind of object it is: *)
(* a mutex or a semaphore gets a flag that nobody reads.  (The handle of a   *)
(* thread is not among Objects: set, it would be joined before its end.)     *)
SetEvent(h) ==
    /\ Exists(h)
    /\ sync_objects' = [sync_objects EXCEPT ![h].signalled = TRUE]
    /\ Hook(1, FALSE)
    /\ Finished_call
    /\ UNCHANGED <<nthreads, grants>>

ResetEvent(h) ==
    /\ Exists(h)
    /\ sync_objects' = [sync_objects EXCEPT ![h].signalled = FALSE]
    /\ Hook(1, FALSE)
    /\ Finished_call
    /\ UNCHANGED <<nthreads, grants>>

Released(o) ==
    IF o.recursion <= 1 THEN [o EXCEPT !.recursion = 0, !.owner = NoOwner]
                        ELSE [o EXCEPT !.recursion = o.recursion - 1]

(* ReleaseMutex looks at the recursion count only, not at who calls; the    *)
(* guest calls it for a mutex it was granted.                               *)
ReleaseMutex(h) ==
    /\ Exists(h) /\ Kind[h] = "Mutex"
    /\ grants[current][h] > 0
    /\ sync_objects' = [sync_objects EXCEPT ![h] = Released(sync_objects[h])]
    /\ grants' = [grants EXCEPT ![current][h] = grants[current][h] - 1]
    /\ Hook(1, FALSE)
    /\ Finished_call
    /\ UNCHANGED nthreads

(* The guest gives back one permit it was granted. *)
ReleaseSemaphore(h) ==
    /\ Exists(h) /\ Kind[h] = "Semaphore"
    /\ grants[current][h] > 0
    /\ sync_objects' = [sync_objects EXCEPT ![h].count = sync_objects[h].count + 1]
    /\ grants' = [grants EXCEPT ![current][h] = grants[current][h] - 1]
    /\ Hook(1, FALSE)
    /\ Finished_call
    /\ UNCHANGED nthreads

(* CreateThread: a new last thread, its handle an object of its own. *)
CreateThread ==
    /\ nthreads < MaxThreads
    /\ nthreads' = nthreads + 1
    /\ sync_objects' = [sync_objects EXCEPT ![nthreads] = ThreadObject(nthreads)]
    /\ Hook(1, FALSE)
    /\ Finished_call
    /\ UNCHANGED grants

(* alloc_pages found no room for the stack. *)
CreateThreadFails ==
    /\ Hook(0, FALSE)
    /\ Finished_call
    /\ UNCHANGED <<nthreads, sync_objects, grants>>

(* Mutant: the handle of a thread that ends is not signalled. *)
ExitThread_NoSignal ==
    /\ phase = "run"
    /\ state' = [state EXCEPT ![current] = "Finished"]
    /\ wake_at' = Elapsed(1)
    /\ IF current = 0 THEN /\ phase' = "exited"
                           /\ UNCHANGED <<scan, slice_left>>
                      ELSE Continue(TRUE)
    /\ Finished_call
    /\ UNCHANGED <<nthreads, wait_handle, saved, sync_objects, current, rax, view,
                   grants>>

(* ExitThread, or the start routine returning.  The process ends with its   *)
(* first thread.                                                            *)
ExitThread ==
    /\ phase = "run"
    /\ state' = [state EXCEPT ![current] = "Finished"]
    /\ sync_objects' = [sync_objects EXCEPT ![current].signalled = TRUE]
    /\ wake_at' = Elapsed(1)
    /\ IF current = 0 THEN /\ phase' = "exited"
                           /\ UNCHANGED <<scan, slice_left>>
                      ELSE Continue(TRUE)
    /\ Finished_call
    /\ UNCHANGED <<nthreads, wait_handle, saved, current, rax, view, grants>>

(* exit() or ExitProcess from any thread. *)
ExitProcess ==
    /\ phase = "run"
    /\ phase' = "exited"
    /\ UNCHANGED <<threadVars, current, rax, slice_left, scan, sync_objects, history>>

(* run() has returned, or thrown the deadlock. *)
Terminated ==
    /\ phase \in {"exited", "deadlock"}
    /\ UNCHANGED vars

-----------------------------------------------------------------------------
(* The guest never re-takes what it already holds MaxRecursion times. *)
MayTake(h) == h \in Objects => grants[current][h] < MaxRecursion
Waitable == Objects \cup Live

Pass == \/ \E t \in Threads : WakeOnTimer(t) \/ WakeOnObject(t) \/ LeaveAsIs(t)
        \/ \E i \in Threads : Dispatch(i)
        \/ Idle

Wait == \E ms \in Timeouts \cup {0, Infinite} :
           \/ \E h \in Waitable : MayTake(h) /\ WaitForSingleObject(h, ms)
           \/ \E hs \in WaitLists :
                 /\ \A h \in ToSet(hs) : MayTake(h)
                 /\ WaitAny(hs, ms) \/ WaitAll(hs, ms)

UseObject == \E h \in Objects :
                \/ \E signalled \in BOOLEAN : CreateObject(h, signalled)
                \/ SetEvent(h) \/ ResetEvent(h)
                \/ ReleaseMutex(h) \/ ReleaseSemaphore(h)

Slice == \/ Compute \/ SwitchToThread \/ Wait \/ UseObject
         \/ \E ms \in Timeouts \cup {0} : Sleep(ms)
         \/ CreateThread \/ CreateThreadFails \/ ExitThread \/ ExitProcess

Next == Pass \/ Slice \/ Terminated

Spec == Init /\ [][Next]_vars

(* The host thread that interprets the guest never stops of its own accord. *)
FairSpec == Spec /\ WF_vars(Next)

-----------------------------------------------------------------------------
(* Safety.                                                                 *)

(* What a thread is blocked on is forgotten when it wakes, whichever of the *)
(* three ways it woke: a wait handle or a deadline left behind would be     *)
(* acted on by its next Sleep or wait.  And nothing is blocked on nothing.  *)
NoStaleWait ==
    \A t \in Threads :
        /\ state[t] = "Blocked" => wait_handle[t] # NoHandle \/ wake_at[t] # NoTimer
        /\ state[t] # "Blocked" => wait_handle[t] = NoHandle /\ wake_at[t] = NoTimer

(* No lost wake-up: a thread the pass has been past and left blocked waits  *)
(* for something that is still unavailable, although threads visited after  *)
(* it have acquired objects of their own.                                   *)
NoMissedWake ==
    phase = "wake" =>
        \A t \in Threads :
            t < scan /\ state[t] = "Blocked" =>
                /\ wake_at[t] # 0
                /\ wait_handle[t] # NoHandle => ~Available(wait_handle[t])

(* What a thread waits for is neither missed nor remembered too long.       *)
WaitsAreSound == NoMissedWake /\ NoStaleWait

(* "all processes are blocked: deadlock" is only thrown when every thread   *)
(* that is not finished waits, without a timeout, for an object nobody can  *)
(* signal any more.                                                         *)
DeadlockIsReal ==
    phase = "deadlock" =>
        \A t \in Live :
            \/ state[t] = "Finished"
            \/ /\ state[t] = "Blocked" /\ wake_at[t] = NoTimer
               /\ wait_handle[t] # NoHandle /\ ~Available(wait_handle[t])

(* Joining: a thread's handle is signalled exactly when it has finished,    *)
(* whatever was waited on, set or reset meanwhile.                          *)
JoinSound ==
    \A t \in Live : sync_objects[t].kind = "Thread" /\
                    (sync_objects[t].signalled <=> state[t] = "Finished")

(* switch_to_thread loses no context: the CPU holds what the current        *)
(* thread's own instructions computed, every other record what that thread  *)
(* had when it last ran.                                                    *)
ContextIntegrity ==
    /\ view[current] = rax
    /\ \A t \in Threads \ {current} : saved[t] = view[t]

(* The books balance: a semaphore's permits are in its count or with the    *)
(* threads they were granted to, a mutex's recursion is the number of       *)
(* outstanding grants and it has an owner when there are any.               *)
(* Held: the first, second, ... grant of each thread.                       *)
Held(h) == UNION {{t} \X (1 .. grants[t][h]) : t \in Threads}
Outstanding(h) == Cardinality(Held(h))

GrantsConserved ==
    \A h \in Objects :
        LET o == sync_objects[h] IN
        /\ o.kind = "Semaphore" => o.count + Outstanding(h) = InitialCount[h]
        /\ o.kind = "Mutex" => /\ o.recursion = Outstanding(h)
                               /\ o.owner = NoOwner <=> o.recursion = 0

-----------------------------------------------------------------------------
(* What comments of the source claim and the code does not do.             *)

(* WaitForMultipleObjects: "Block on the first; the retry will look at all  *)
(* of them again."  When the pass is over no thread is left blocked in a    *)
(* wait for any of several objects while one of them is available.          *)
AnyWaitLooksAtAll ==
    phase = "wake" /\ scan = nthreads =>
        \A t \in Live : state[t] = "Blocked" /\ call[t].mode = "any"
                            => \A h \in call[t].wants : ~Available(h)

(* A mutex has one holder, and only its holder may take it again            *)
(* (emulator.h:219, :220).                                                  *)
MutexHasOneHolder ==
    \A h \in Objects : Kind[h] = "Mutex" =>
        Cardinality({t \in Threads : grants[t][h] > 0}) <= 1

-----------------------------------------------------------------------------
(* Liveness, under FairSpec.                                               *)

Running == phase \in {"wake", "run"}

(* pick_runnable is round-robin "so no one starves": a runnable thread is   *)
(* eventually given a slice, whatever the others do.                        *)
RunnableRuns ==
    \A t \in Threads :
        t \in Live /\ state[t] = "Runnable"
            ~> ~Running \/ (phase = "run" /\ current = t)

(* A deadline is always met, even when every thread is blocked: the idle    *)
(* clock jumps.                                                             *)
TimerFires ==
    \A t \in Threads :
        state[t] = "Blocked" /\ wake_at[t] # NoTimer ~> ~Running \/ state[t] # "Blocked"

(* Both: no thread is left behind, whatever it is doing.                    *)
EveryThreadGoesOn == RunnableRuns /\ TimerFires

(* A thread waiting for another is released once the other has finished.    *)
JoinCompletes ==
    \A t, u \in Threads :
        state[t] = "Blocked" /\ wait_handle[t] = u /\ u \in Live /\ state[u] = "Finished"
            ~> ~Running \/ state[t] # "Blocked"

=============================================================================
