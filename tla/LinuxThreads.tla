---------------------------- MODULE LinuxThreads ---------------------------
(***************************************************************************)
(* Threads of a Linux guest (syscalls.cpp, threads.cpp): clone, the futex, *)
(* set_tid_address, exit, and how a system call that has to wait is made   *)
(* again.  The guest is a C library's: a first thread clones workers with  *)
(* CLONE_CHILD_CLEARTID, each takes and gives back a lock of three states, *)
(* and the first one joins them on the words the emulator clears.          *)
(*                                                                         *)
(* Instructions are those that touch a shared word, and system calls.  A   *)
(* call is its number in RAX until it is answered.                         *)
(***************************************************************************)
EXTENDS Integers, Sequences, FiniteSets

CONSTANTS
  MaxThreads,   \* the first thread and its workers
  Bits          \* 32 or 64, one or both

ASSUME LinuxThreadsAssumption == MaxThreads \in Nat \ {0} /\ Bits \subseteq {32, 64}

VARIABLES
  bits,
  threads,      \* threads_: [pc, rax, state, pred, fs, gs, clear]
  running,      \* current_thread_
  slice,        \* "fresh" when nothing has run in it yet, "on", or "none" when its
                \* quantum or reschedule_ has ended it
  blocked,      \* syscall_blocked_
  words,        \* the guest's words: the lock, and a thread's id at each of its slots
  joins,        \* workers the first thread has joined
  joining,      \* it is to join them; else it just leaves
  ended         \* "no", "exit", "group" or "deadlock"

linuxVars == <<bits, threads, running, slice, blocked, words, joins, joining, ended>>
rest == <<bits, joins, joining>>

Ids == 1..MaxThreads
Lock == 0                                  \* the lock's word; a thread's is its number
Thread(pc, fs, gs, clear) ==
  [pc |-> pc, rax |-> 0, state |-> "runnable", pred |-> <<>>, fs |-> fs, gs |-> gs, clear |-> clear]

EAGAIN == -11
Number == [clone |-> 56, exit |-> 60, futex_wait |-> 202, futex_wake |-> 202,
           set_tid_address |-> 218, exit_group |-> 231]
SysCalls == DOMAIN Number

SliceOn == slice # "none" /\ ended = "no"
Me == threads[running]
At(pc) == SliceOn /\ Me.pc = pc

----------------------------------------------------------------------------
(* Slices.                                                                  *)

\* pick_runnable: whoever has been waiting for a word that has changed may go on.
Polled(t) == IF t.state = "blocked" /\ words[t.pred[1]] # t.pred[2]
             THEN [t EXCEPT !.state = "runnable", !.pred = <<>>] ELSE t
Polls == [i \in 1..Len(threads) |-> Polled(threads[i])]

\* Then the first that can run, round the table from the one after the current.
Distance(i) == (i - running - 1 + Len(threads)) % Len(threads)
Pick ==
  /\ slice = "none" /\ ended = "no"
  /\ threads' = Polls
  /\ LET ready == {i \in 1..Len(threads) : Polls[i].state = "runnable"}
     IN  \/ ready = {} /\ ended' = "deadlock" /\ UNCHANGED <<running, slice>>
         \/ /\ running' \in {i \in ready : \A j \in ready : Distance(i) <= Distance(j)}
            /\ slice' = "fresh" /\ UNCHANGED ended
  /\ UNCHANGED <<rest, blocked, words>>

\* The quantum, of one instruction at least, is used up.
Expire ==
  /\ slice = "on" /\ slice' = "none" /\ ended = "no"
  /\ UNCHANGED <<rest, threads, running, blocked, words, ended>>

----------------------------------------------------------------------------
(* on_syscall: a call is made, and answered unless it is to be made again.  *)

\* take_syscall_block, was being what the call has left in the flag.
TakeSyscallBlock(was) == blocked' = FALSE

\* The calling thread when its call has the result r and it goes on at pc.
Answered(t, was, r, pc) == IF was THEN t ELSE [t EXCEPT !.rax = r, !.pc = pc]

Answer(r, pc) ==
  /\ TakeSyscallBlock(blocked)
  /\ threads' = [threads EXCEPT ![running] = Answered(@, blocked, r, pc)]

\* The guest sets up a call: its number is in RAX.
Invoke(from, call) ==
  /\ At(from)
  /\ threads' = [threads EXCEPT ![running].pc = call, ![running].rax = Number[call]]
  /\ slice' = "on" /\ UNCHANGED <<rest, running, blocked, words, ended>>

\* FUTEX_WAIT.  block_syscall_retry leaves RIP on the call.
FutexWait(a, v, pc) ==
  IF words[a] # v THEN Answer(EAGAIN, pc) /\ slice' = "on"
  ELSE /\ threads' = [threads EXCEPT ![running].state = "blocked", ![running].pred = <<a, v>>]
       /\ TakeSyscallBlock(TRUE)
       /\ slice' = "none"

\* FUTEX_WAKE: waiters watch the word.
FutexWake(n, pc) == Answer(n, pc) /\ slice' = "on"

\* Mutant: CLONE_SETTLS is left to the guest.
NewThread_ParentsTls(id) == Thread("lock", Me.fs, Me.gs, id)

\* clone_thread: the thread pointer goes to fs, whatever the guest's width; the
\* rest is the parent's.
NewThread(id) == Thread("lock", id, Me.gs, id)

\* clone with CLONE_PARENT_SETTID, CLONE_CHILD_CLEARTID and CLONE_SETTLS
CloneThread(pc) ==
  LET id == Len(threads) + 1
  IN  /\ TakeSyscallBlock(blocked)
      /\ threads' = Append([threads EXCEPT ![running] = Answered(@, blocked, id, pc)], NewThread(id))
      /\ words' = [words EXCEPT ![id] = id]

\* Mutant: the word a join waits for is not cleared.
ClearTid_Skipped(id) == UNCHANGED words
ClearTid(id) == words' = [words EXCEPT ![id] = 0]

\* exit of a thread of several: its word is cleared, and it ends; with the first
\* thread the process does (exit_thread).
ExitThread ==
  /\ IF Me.clear # 0 THEN ClearTid(Me.clear) ELSE UNCHANGED words
  /\ threads' = [threads EXCEPT ![running].state = "finished"]
  /\ ended' = IF running = 1 THEN "exit" ELSE ended
  /\ slice' = "none"

SysExit ==
  /\ At("exit")
  /\ IF Len(threads) > 1 THEN ExitThread
     ELSE ended' = "exit" /\ UNCHANGED <<threads, slice, words>>
  /\ UNCHANGED <<rest, running, blocked>>

ExitGroup ==
  /\ At("exit_group")
  /\ ended' = "group"
  /\ UNCHANGED <<rest, threads, running, slice, blocked, words>>

\* Which of the two waits a thread is in is in its registers.
WaitsFor == IF running = 1 THEN <<joins + 2, joins + 2>> ELSE <<Lock, 2>>

SetTidAddress ==
  /\ At("set_tid_address")
  /\ TakeSyscallBlock(blocked)
  /\ threads' = [threads EXCEPT ![running] = [Answered(@, blocked, 1, "spawn") EXCEPT !.clear = 1]]
  /\ slice' = "on" /\ UNCHANGED <<rest, running, words, ended>>

Clone == At("clone") /\ CloneThread("spawn") /\ slice' = "on" /\ UNCHANGED <<rest, running, ended>>
Wait ==
  /\ At("futex_wait")
  /\ FutexWait(WaitsFor[1], WaitsFor[2], IF running = 1 THEN "join" ELSE "again")
  /\ UNCHANGED <<rest, running, words, ended>>
Wake == At("futex_wake") /\ FutexWake(1, "leave") /\ UNCHANGED <<rest, running, words, ended>>

----------------------------------------------------------------------------
(* The C library.                                                           *)

Goto(pc) == threads' = [threads EXCEPT ![running].pc = pc]
Quiet == slice' = "on" /\ UNCHANGED <<rest, running, blocked, ended>>

TryLock ==
  /\ At("lock")
  /\ IF words[Lock] = 0 THEN Goto("work") /\ words' = [words EXCEPT ![Lock] = 1]
                       ELSE Goto("again") /\ UNCHANGED words
  /\ Quiet

LockSlowly ==
  /\ At("again")
  /\ words' = [words EXCEPT ![Lock] = 2]
  /\ IF words[Lock] = 0 THEN Goto("work")
     ELSE threads' = [threads EXCEPT ![running].pc = "futex_wait", ![running].rax = Number["futex_wait"]]
  /\ Quiet

Unlock ==
  /\ At("work")
  /\ words' = [words EXCEPT ![Lock] = 0]
  /\ IF words[Lock] = 1 THEN Goto("leave")
     ELSE threads' = [threads EXCEPT ![running].pc = "futex_wake", ![running].rax = Number["futex_wake"]]
  /\ Quiet

Leave == Invoke("leave", "exit")

SetUp == Invoke("start", "set_tid_address")
Spawn == At("spawn") /\ Len(threads) < MaxThreads /\ Invoke("spawn", "clone")

\* pthread_join, for each worker, or none.
Join ==
  /\ \/ At("spawn") /\ Len(threads) = MaxThreads
     \/ At("join")
  /\ IF ~joining \/ joins + 2 > MaxThreads
     THEN /\ \E call \in {"exit", "exit_group"} :
               /\ joining => call = "exit_group"
               /\ threads' = [threads EXCEPT ![running].pc = call, ![running].rax = Number[call]]
          /\ UNCHANGED joins
     ELSE IF words[joins + 2] = 0 THEN joins' = joins + 1 /\ Goto("join")
     ELSE /\ threads' = [threads EXCEPT ![running].pc = "futex_wait", ![running].rax = Number["futex_wait"]]
          /\ UNCHANGED joins
  /\ slice' = "on" /\ UNCHANGED <<bits, joining, running, blocked, words, ended>>

----------------------------------------------------------------------------
LinuxInit ==
  /\ bits \in Bits /\ joining \in BOOLEAN
  /\ threads = <<Thread("start", IF bits = 64 THEN 1 ELSE 0, IF bits = 32 THEN 1 ELSE 0, 0)>>
  /\ running = 1 /\ slice = "none" /\ blocked = FALSE
  /\ words = [a \in {Lock} \cup Ids |-> IF a = 1 THEN 1 ELSE 0]
  /\ joins = 0 /\ ended = "no"

LinuxStep ==
  \/ SetUp \/ SetTidAddress \/ Spawn \/ Clone \/ Join \/ Wait \/ Wake \/ Leave \/ SysExit \/ ExitGroup
  \/ TryLock \/ LockSlowly \/ Unlock

LinuxNext == Pick \/ Expire \/ LinuxStep

\* The loop of the System goes round, and a slice makes progress and ends.
LinuxFairness == WF_linuxVars(LinuxNext)
LinuxSpec == LinuxInit /\ [][LinuxNext]_linuxVars
LinuxFairSpec == LinuxSpec /\ LinuxFairness

----------------------------------------------------------------------------
\* A thread that is to make its call again still has the call's number in RAX, and
\* one that goes on after a call has that call's own answer there: a new thread
\* zero, its parent the thread's id, a waiter EAGAIN, a waker what it asked for
\* (on_syscall, block_syscall_retry, clone_thread).
CallsAreAnswered ==
  \A i \in 1..Len(threads) :
    LET t == threads[i]
    IN  /\ t.pc \in SysCalls => t.rax = Number[t.pc]
        /\ t.pc = "spawn" => t.rax = Len(threads)
        /\ i > 1 /\ t.pc = "lock" => t.rax = 0
        /\ t.pc \in {"again", "work"} => t.rax \in {0, EAGAIN}
        /\ t.pc = "join" => t.rax \in {Len(threads), EAGAIN}

\* A thread that has been joined runs no more: its stack may be freed (exit).
JoinedIsGone == \A i \in 2..joins + 1 : threads[i].state = "finished"

\* A program that joins its threads ends by itself: no waiter sleeps on when its
\* lock has been given back or the thread it joins has ended, though no queue of
\* waiters is kept (futex).
JoinsComplete == joining => <>(ended = "group")

\* In a 64-bit guest each thread has a thread pointer of its own (clone_thread).
ThreadPointer(t) == IF bits = 64 THEN t.fs ELSE t.gs
OwnThreadPointer ==
  \A i, j \in 1..Len(threads) : bits = 64 /\ i # j => ThreadPointer(threads[i]) # ThreadPointer(threads[j])

\* What a thread has in its registers is its own, and what it was told.
ThreadsAreTold == CallsAreAnswered /\ OwnThreadPointer /\ JoinedIsGone

\* "exit() ends the calling thread; exit_group ends the process" (syscalls.cpp:461).
ExitEndsOneThread == ended = "exit" => \A i \in 1..Len(threads) : threads[i].state = "finished"

\* So has each thread of a 32-bit guest: the child gets "the caller-provided stack,
\* its own TLS base" (threads.cpp:289, :290).
OwnThreadPointer32 ==
  \A i, j \in 1..Len(threads) : bits = 32 /\ i # j => ThreadPointer(threads[i]) # ThreadPointer(threads[j])

=============================================================================
