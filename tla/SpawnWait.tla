------------------------------ MODULE SpawnWait ------------------------------
(***************************************************************************)
(* The processes of an emulated Windows machine: CreateProcess, process    *)
(* handles and TerminateProcess (hooks_process.cpp), the wait for a child  *)
(* through its handle (threads.cpp), and _wspawnv (hooks_win32c.cpp),      *)
(* which runs its child to the end inside the hook: System::run_until_exit *)
(* (processes.cpp) is a second loop over the processes on top of the first *)
(* one, with the slice of the spawning process suspended between them.     *)
(*                                                                         *)
(* frames is that stack on the host: the loop of System::run at the bottom,*)
(* a loop of run_until_exit for every spawn that is being waited for.      *)
(* Processes have one thread and no timers; they are never collected.      *)
(***************************************************************************)
EXTENDS Integers, Sequences

CONSTANTS
    MaxProcs,       \* bound: how many processes are ever made
    MaxFrames,      \* bound: how deep the loops nest
    ExitCodes,      \* what guests exit with, and what they terminate others with
    Spawners,       \* the processes that call _wspawnv(_P_WAIT, ...)
    Terminators     \* the processes that call TerminateProcess on a child

Procs == 1 .. MaxProcs
Root == 1
None == 0
CannotFinish == -1              \* "the child cannot finish; report failure"
Crashed == 127
Codes == ExitCodes \cup {0, Crashed}

\* What is taken for granted of them.
SpawnWaitAssumption ==
    /\ MaxProcs \in Nat \ {0} /\ MaxFrames \in Nat \ {0}
    /\ ExitCodes \subseteq Nat
    /\ Spawners \subseteq 1 .. MaxProcs /\ Terminators \subseteq 1 .. MaxProcs

VARIABLES
    nprocs,     \* procs_.size()
    ppid,       \* Process::ppid
    zombie,     \* Process::zombie
    exit_code,  \* Process::exit_code
    handles,    \* the process handles each process holds, by the pid they name
    waiting,    \* the process a process is blocked on, through its handle
    frames,     \* the loops on the host's stack
    phase       \* "run", "over", "deadlock" or "crashed"

VARIABLES
    spawned,    \* history: what the last _wspawnv of a process returned, and for whom
    told        \* history: what GetExitCodeProcess has told of a process, STILL_ACTIVE apart

procVars == <<nprocs, ppid, zombie, exit_code, handles>>
history == <<spawned, told>>
spawnVars == <<procVars, waiting, frames, phase, history>>

Made == 1 .. nprocs
Alive == {p \in Made : ~zombie[p]}

(* A loop: until which process exits, which it leaves out, the index it is *)
(* at, whether anything has moved in this round, and whose slice it is in. *)
Frame == [target : Procs, except : Procs \cup {None}, at : 0 .. MaxProcs + 1,
          progress : BOOLEAN, current : Procs \cup {None}]

Depth == Len(frames)
Top == frames[Depth]
Loop(target, except) == [target |-> target, except |-> except, at |-> 1,
                         progress |-> FALSE, current |-> None]

SpawnTypeOK ==
    /\ nprocs \in Procs
    /\ ppid \in [Procs -> Procs \cup {None}]
    /\ zombie \in [Procs -> BOOLEAN] /\ exit_code \in [Procs -> Codes]
    /\ handles \in [Procs -> SUBSET Procs]
    /\ waiting \in [Procs -> Procs \cup {None}]
    /\ frames \in Seq(Frame) /\ Depth \in 1 .. MaxFrames
    /\ phase \in {"run", "over", "deadlock", "crashed"}
    /\ \A k \in 1 .. Depth : frames[k].at <= nprocs + 1
    /\ \A k \in 1 .. Depth - 1 : frames[k].current # None

SpawnInit ==
    /\ nprocs = 1
    /\ ppid = [p \in Procs |-> None]
    /\ zombie = [p \in Procs |-> FALSE] /\ exit_code = [p \in Procs |-> 0]
    /\ handles = [p \in Procs |-> {}]
    /\ waiting = [p \in Procs |-> None]
    /\ frames = <<Loop(Root, None)>>
    /\ phase = "run"
    /\ spawned = [p \in Procs |-> [child |-> None, result |-> 0]]
    /\ told = [p \in Procs |-> {}]

-----------------------------------------------------------------------------
(* The loop on top: System::run or run_until_exit.                         *)

Running == phase = "run"
Looping == Running /\ Top.current = None
InSlice(p) == Running /\ Top.current = p

Passed(frame) == [frame EXCEPT !.at = @ + 1, !.current = None]

Moved(frame) == [Passed(frame) EXCEPT !.progress = TRUE]
Step(frame) == frames' = [frames EXCEPT ![Depth] = frame]

(* make_zombie *)
MakeZombie(p, code) ==
    /\ zombie' = [zombie EXCEPT ![p] = TRUE]
    /\ exit_code' = [exit_code EXCEPT ![p] = code]
    /\ UNCHANGED <<nprocs, ppid, handles>>

(* The loop passes by what has finished, and by except_pid. *)
Skipped(p) == zombie[p] \/ p = Top.except

Skip ==
    /\ Looping /\ Top.at <= nprocs /\ Skipped(Top.at)
    /\ Step(Passed(Top))
    /\ UNCHANGED <<procVars, waiting, phase, history>>

(* Mutant: a crash does not signal the handle. *)
Signalled_Exited(c) == zombie[c] /\ exit_code[c] # Crashed

(* try_acquire of a process handle: "the System is the authority". *)
Signalled(c) == zombie[c]

(* run_slice, when the process can run: its wait, if any, is over. *)
Slice(p) ==
    /\ Looping /\ Top.at = p /\ p <= nprocs /\ ~Skipped(p)
    /\ waiting[p] # None => Signalled(waiting[p])
    /\ waiting' = [waiting EXCEPT ![p] = None]
    /\ Step([Top EXCEPT !.current = p])
    /\ UNCHANGED <<procVars, phase, history>>

(* run_slice, when it cannot: SliceStatus::Idle. *)
IdleSlice(p) ==
    /\ Looping /\ Top.at = p /\ p <= nprocs /\ ~Skipped(p)
    /\ waiting[p] # None /\ ~Signalled(waiting[p])
    /\ Step(Passed(Top))
    /\ UNCHANGED <<procVars, waiting, phase, history>>

(* A round of run_until_exit begins with a look at the target, one of      *)
(* System::run ends with it; nothing happens in between.                   *)
RoundOver == Looping /\ Top.at > nprocs
NextRound == Step([Top EXCEPT !.at = 1, !.progress = FALSE])

(* run_until_exit returns into the hook of the process it left out, which  *)
(* goes on with its slice.                                                 *)
HookReturns(code) ==
    /\ frames' = SubSeq(frames, 1, Depth - 1)
    /\ spawned' = [spawned EXCEPT ![Top.except] = [child |-> Top.target, result |-> code]]
    /\ UNCHANGED <<procVars, waiting, phase, told>>

(* Mutant: the end of any child will do. *)
Ended_AnyChild(p) == \E c \in Made : zombie[c] /\ ppid[c] = ppid[p]

Ended(p) == zombie[p]

EndRound ==
    /\ RoundOver
    /\ \/ /\ Ended(Top.target) /\ Depth > 1
          /\ HookReturns(exit_code[Top.target])
       \/ /\ Ended(Top.target) /\ Depth = 1
          /\ phase' = "over" /\ UNCHANGED <<procVars, waiting, frames, history>>
       \/ /\ ~Ended(Top.target) /\ Top.progress
          /\ NextRound /\ UNCHANGED <<procVars, waiting, phase, history>>
       \/ /\ ~Ended(Top.target) /\ ~Top.progress /\ Depth > 1
          /\ HookReturns(CannotFinish)
       \/ /\ ~Ended(Top.target) /\ ~Top.progress /\ Depth = 1
          /\ phase' = "deadlock" /\ UNCHANGED <<procVars, waiting, frames, history>>

-----------------------------------------------------------------------------
(* What the process whose slice it is does.                                *)

(* Its own instructions go on; the quantum ends. *)
EndSlice(p) ==
    /\ InSlice(p)
    /\ Step(Moved(Top))
    /\ UNCHANGED <<procVars, waiting, phase, history>>

(* ExitProcess: SliceStatus::Exited. *)
Exit(p) ==
    /\ InSlice(p)
    /\ \E code \in ExitCodes : MakeZombie(p, code)
    /\ Step(Moved(Top))
    /\ UNCHANGED <<waiting, phase, history>>

(* A slice that throws.  A loop makes a zombie of the process it was in, or *)
(* throws on what the root threw: through the hook that runs the loop, into *)
(* the loop below, which blames the process whose slice that hook was in.   *)
(* What no loop holds back ends the emulator.                               *)
Blamed == {k \in 1 .. Depth : frames[k].current # Root}

CrashStopsAt(k) ==
    /\ \A j \in Blamed : j <= k
    /\ MakeZombie(frames[k].current, Crashed)
    /\ frames' = Append(SubSeq(frames, 1, k - 1), Moved(frames[k]))
    /\ UNCHANGED phase

Crash(p) ==
    /\ InSlice(p)
    /\ \/ \E k \in Blamed : CrashStopsAt(k)
       \/ Blamed = {} /\ phase' = "crashed" /\ UNCHANGED <<procVars, frames>>
    /\ UNCHANGED <<waiting, history>>

(* System::spawn *)
Start(p, c) ==
    /\ c = nprocs + 1 /\ c \in Procs
    /\ nprocs' = c
    /\ ppid' = [ppid EXCEPT ![c] = p]
    /\ UNCHANGED <<zombie, exit_code>>

CreateProcess(p) ==
    /\ InSlice(p)
    /\ Start(p, nprocs + 1)
    /\ handles' = [handles EXCEPT ![p] = @ \cup {nprocs + 1}]
    /\ UNCHANGED <<waiting, frames, phase, history>>

(* _wspawnv(_P_WAIT, ...): the child's end is waited for inside the hook. *)
SpawnAndWait(p) ==
    /\ InSlice(p) /\ p \in Spawners /\ Depth < MaxFrames
    /\ Start(p, nprocs + 1)
    /\ frames' = Append(frames, Loop(nprocs + 1, p))
    /\ UNCHANGED <<handles, waiting, phase, history>>

(* WaitForSingleObject(process, INFINITE): at once, or the slice is over. *)
WaitForProcess(p, c) ==
    /\ InSlice(p) /\ c \in handles[p]
    /\ IF Signalled(c)
       THEN UNCHANGED <<waiting, frames>>
       ELSE waiting' = [waiting EXCEPT ![p] = c] /\ Step(Moved(Top))
    /\ UNCHANGED <<procVars, phase, history>>

(* GetExitCodeProcess of a process that is not STILL_ACTIVE. *)
GetExitCodeProcess(p, c) ==
    /\ InSlice(p) /\ c \in handles[p] /\ zombie[c]
    /\ told' = [told EXCEPT ![c] = @ \cup {exit_code[c]}]
    /\ UNCHANGED <<procVars, waiting, frames, phase, spawned>>

(* TerminateProcess of a child: its emulator is destroyed then and there. *)
TerminateProcess(p, c) ==
    /\ InSlice(p) /\ p \in Terminators /\ c \in handles[p] /\ ~zombie[c]
    /\ \E code \in ExitCodes : MakeZombie(c, code)
    /\ UNCHANGED <<waiting, frames, phase, history>>

Terminated == phase # "run" /\ UNCHANGED spawnVars

Schedule == Skip \/ (\E p \in Procs : Slice(p) \/ IdleSlice(p)) \/ EndRound

Execute == \E p \in Procs :
    \/ EndSlice(p) \/ Exit(p) \/ Crash(p) \/ CreateProcess(p) \/ SpawnAndWait(p)
    \/ \E c \in Procs :
          WaitForProcess(p, c) \/ GetExitCodeProcess(p, c) \/ TerminateProcess(p, c)

SpawnNext == Schedule \/ Execute \/ Terminated

SpawnSpec == SpawnInit /\ [][SpawnNext]_spawnVars

(* The host keeps running, and a slice ends with its quantum. *)
SpawnFairSpec == SpawnSpec /\ WF_spawnVars(SpawnNext) /\ WF_spawnVars(\E p \in Procs : EndSlice(p))

-----------------------------------------------------------------------------
(* Safety.                                                                 *)

(* Blocked for good, as far as the loop with this exception can tell. *)
Stuck(p) == waiting[p] # None /\ ~zombie[waiting[p]]

(* _wspawnv "returns the child's exit code": the code the child ended with,*)
(* and only once it has ended, whatever else ran meanwhile.                *)
SpawnTellsTheCode ==
    \A p \in Procs :
        LET s == spawned[p] IN
        s.child # None /\ s.result # CannotFinish
            => zombie[s.child] /\ exit_code[s.child] = s.result

(* "the child cannot finish; report failure": -1 is only returned when     *)
(* nobody the loop may run could ever move again.                          *)
FailureIsReal ==
    [][\A p \in Procs :
          spawned'[p] # spawned[p] /\ spawned'[p].result = CannotFinish
              => \A q \in Alive \ {p} : Stuck(q)]_spawnVars

(* The deadlock is only thrown when every process waits for one that is    *)
(* not going to end.                                                       *)
DeadlockIsReal == phase = "deadlock" => \A p \in Alive : Stuck(p)

(* What a process ended with is told the same for ever, to whoever asks.   *)
OneExitCode ==
    \A p \in Procs : told[p] \subseteq {exit_code[p]} /\ (told[p] # {} => zombie[p])

(* What a process is told of the others is so.                             *)
WhatIsToldIsSo == SpawnTellsTheCode /\ OneExitCode /\ DeadlockIsReal

(* "never scheduling except_pid": while a process is paused inside a hook  *)
(* its instructions are not executed by any other loop.                    *)
PausedIsNotScheduled ==
    \A j, k \in 1 .. Depth :
        j # k /\ frames[j].current # None => frames[j].current # frames[k].current

-----------------------------------------------------------------------------
(* Liveness, under SpawnFairSpec.                                          *)

(* A process that waits for another by its handle hears of its end.        *)
WaiterHears ==
    \A p \in Procs :
        waiting[p] # None /\ zombie[waiting[p]] ~> ~Running \/ zombie[p] \/ waiting[p] = None

(* The spawn returns once its child has ended, unless a crash of the root   *)
(* on the way has ended the spawner with it.                                *)
SpawnReturns ==
    \A p, c \in Procs :
        (\E k \in 1 .. Depth : frames[k].except = p /\ frames[k].target = c /\ zombie[c])
            ~> ~Running \/ spawned[p].child = c \/ exit_code[p] = Crashed

(* Both, and a wait that is given up could not have ended.                 *)
WaitsEnd == FailureIsReal /\ WaiterHears /\ SpawnReturns
=============================================================================
