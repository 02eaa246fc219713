----------------------------- MODULE Processes -----------------------------
(***************************************************************************)
(* The processes of an emulated Linux machine: System (processes.cpp) with *)
(* the syscalls that make, replace, signal and collect processes           *)
(* (syscalls.cpp), and the pipes their file tables share (files.cpp).      *)
(*                                                                         *)
(* System::run gives every process a slice in turn.  Here a process has    *)
(* one thread; several threads of one process are GuestThreads' subject.   *)
(* Process p is the p-th entry of procs_, the root the first: entries are  *)
(* never removed, only marked.                                             *)
(*                                                                         *)
(* Syscalls that fail without changing anything (EBADF, EPIPE, ECHILD,     *)
(* EMFILE, WNOHANG, ESRCH) are not actions of their own.                   *)
(***************************************************************************)
EXTENDS Integers, Sequences, FiniteSets

CONSTANTS
    MaxProcs,     \* bound: how many processes are ever made
    NPipes,       \* bound: how many pipes are ever made
    MaxFds,       \* bound: descriptors per table (3 and up; 0..2 are left out)
    MaxBytes,     \* bound: bytes buffered in a pipe (the code has no limit)
    ExitCodes,    \* what guests give to exit_group
    RootExecs,    \* whether the root process ever calls execve
    CloexecUsed   \* whether descriptors are ever marked close-on-exec

Procs == 1 .. MaxProcs
Root == 1
Pipes == 1 .. NPipes
Fds == 1 .. MaxFds

Crashed == 127                  \* make_zombie(p, 127)
Killed == 137                   \* terminate(target, 128 + SIGKILL)
Codes == ExitCodes \cup {0, Crashed, Killed}

ASSUME ProcessesAssumption ==
    /\ MaxProcs \in Nat \ {0}
    /\ NPipes \in Nat /\ MaxFds \in Nat /\ MaxBytes \in Nat
    /\ ExitCodes \subseteq Nat
    /\ RootExecs \in BOOLEAN /\ CloexecUsed \in BOOLEAN

VARIABLES
    nprocs,      \* procs_.size()
    ppid,        \* Process::ppid
    zombie,      \* Process::zombie
    reaped,      \* Process::reaped
    exec_done,   \* Process::exec_done
    exit_code,   \* Process::exit_code
    request,     \* the emulator's exec_request_ is set
    wait,        \* what the process's thread is blocked on
    again,       \* the syscall it is to make again now that it is woken
    files,       \* the file tables
    old_files,   \* the table of the image the root was loaded with
    owned,       \* Process::owned is set: the System can destroy the emulator
    npipes,      \* pipes made so far
    buffer,      \* bytes in each pipe
    turn,        \* the index of System::run's loop over procs_
    in_slice,    \* run_slice of that process is executing
    progress,    \* System::run's progress
    phase        \* "run", "over", "deadlock" or "crashed"

VARIABLES
    by_vfork,    \* history: the processes made by vfork
    replaced,    \* history: the processes that run a new image
    told,        \* history: the statuses wait4 has reported for each process
    eof          \* history: the pipes some read has found at end of file

procVars == <<nprocs, ppid, zombie, reaped, exec_done, exit_code, request, owned>>
fileVars == <<files, old_files, npipes, buffer>>
loopVars == <<turn, in_slice, progress, phase>>
history == <<by_vfork, replaced, told, eof>>
vars == <<procVars, wait, again, fileVars, loopVars, history>>

-----------------------------------------------------------------------------
(* Types.                                                                  *)

Entry == [pipe : Pipes, writer : BOOLEAN, cloexec : BOOLEAN]
NoEntry == [pipe |-> 0, writer |-> FALSE, cloexec |-> FALSE]
EmptyTable == [fd \in Fds |-> NoEntry]
Table == [Fds -> Entry \cup {NoEntry}]

NoWait == [on |-> "none"]
OnChild(want) == [on |-> "child", want |-> want]    \* want -1: any child
OnPipe(fd) == [on |-> "pipe", fd |-> fd]
OnVfork(c) == [on |-> "vfork", child |-> c]
OnExec == [on |-> "exec"]
Waits == {NoWait, OnExec} \cup {OnChild(w) : w \in Procs \cup {-1}}
         \cup {OnPipe(fd) : fd \in Fds} \cup {OnVfork(c) : c \in Procs}

Made == 1 .. nprocs
Alive == {p \in Made : ~zombie[p]}

TypeOK ==
    /\ nprocs \in Procs
    /\ ppid \in [Procs -> Procs \cup {0}]
    /\ zombie \in [Procs -> BOOLEAN] /\ reaped \in [Procs -> BOOLEAN]
    /\ exec_done \in [Procs -> BOOLEAN] /\ request \in [Procs -> BOOLEAN]
    /\ owned \in [Procs -> BOOLEAN]
    /\ exit_code \in [Procs -> Codes]
    /\ wait \in [Procs -> Waits] /\ again \in [Procs -> Waits]
    /\ files \in [Procs -> Table] /\ old_files \in Table
    /\ npipes \in 0 .. NPipes
    /\ buffer \in [Pipes -> 0 .. MaxBytes]
    /\ turn \in 1 .. nprocs + 1
    /\ in_slice \in BOOLEAN /\ progress \in BOOLEAN
    /\ in_slice => turn \in Alive
    /\ phase \in {"run", "over", "deadlock", "crashed"}
    /\ by_vfork \subseteq Procs /\ replaced \subseteq Procs
    /\ told \in [Procs -> Seq(0 .. 255)]
    /\ eof \subseteq Pipes

Init ==
    /\ nprocs = 1
    /\ ppid = [p \in Procs |-> 0]
    /\ zombie = [p \in Procs |-> FALSE] /\ reaped = [p \in Procs |-> FALSE]
    /\ exec_done = [p \in Procs |-> FALSE] /\ request = [p \in Procs |-> FALSE]
    /\ owned = [p \in Procs |-> p # Root]
    /\ exit_code = [p \in Procs |-> 0]
    /\ wait = [p \in Procs |-> NoWait] /\ again = [p \in Procs |-> NoWait]
    /\ files = [p \in Procs |-> EmptyTable] /\ old_files = EmptyTable
    /\ npipes = 0
    /\ buffer = [i \in Pipes |-> 0]
    /\ turn = 1 /\ in_slice = FALSE /\ progress = FALSE /\ phase = "run"
    /\ by_vfork = {} /\ replaced = {} /\ told = [p \in Procs |-> <<>>] /\ eof = {}

-----------------------------------------------------------------------------
(* The table of processes.                                                 *)

(* Mutant: anybody's zombie will do. *)
ZombieChildren_Anyones(p, want) ==
    {c \in Made : zombie[c] /\ ~reaped[c] /\ (want = -1 \/ c = want)}

(* zombie_child: the first of these in procs_. *)
ZombieChildren(p, want) ==
    {c \in Made : ppid[c] = p /\ zombie[c] /\ ~reaped[c] /\ (want = -1 \/ c = want)}

HasChildren(p) == \E c \in Made : ppid[c] = p /\ ~reaped[c]

ExecDoneOrZombie(c) == reaped[c] \/ zombie[c] \/ exec_done[c]

(* A PipeEnd lives, and is counted, as long as some table refers to it.    *)
Refers(table, i, w) == \E fd \in Fds : table[fd].pipe = i /\ table[fd].writer = w
Open(i, w) == (\E p \in Made : Refers(files[p], i, w)) \/ Refers(old_files, i, w)

(* Mutant: a zombie's descriptors are closed when it is collected only. *)
Released_Late(p) == UNCHANGED files

(* make_zombie destroys the emulator, and with it the table, of a process  *)
(* the System owns.                                                        *)
Released(p) == files' = IF owned[p] THEN [files EXCEPT ![p] = EmptyTable] ELSE files

MakeZombie(p, code) ==
    /\ zombie' = [zombie EXCEPT ![p] = TRUE]
    /\ exit_code' = [exit_code EXCEPT ![p] = code]
    /\ Released(p)
    /\ wait' = [wait EXCEPT ![p] = NoWait]
    /\ again' = [again EXCEPT ![p] = NoWait]
    /\ request' = [request EXCEPT ![p] = FALSE]
    /\ UNCHANGED <<nprocs, ppid, reaped, exec_done, owned>>

-----------------------------------------------------------------------------
(* System::run.                                                            *)

Visits(p) == phase = "run" /\ ~in_slice /\ turn = p /\ p \in Made

NextTurn(progressed) ==
    /\ turn' = turn + 1
    /\ in_slice' = FALSE
    /\ progress' = (progress \/ progressed)
    /\ UNCHANGED phase

SkipZombie(p) ==
    /\ Visits(p) /\ zombie[p]
    /\ NextTurn(FALSE)
    /\ UNCHANGED <<procVars, wait, again, fileVars, history>>

(* Mutant: exec_done is set before the new image is known to load. *)
ExecFails_Done(p) ==
    /\ Visits(p) /\ ~zombie[p] /\ request[p]
    /\ request' = [request EXCEPT ![p] = FALSE]
    /\ exec_done' = [exec_done EXCEPT ![p] = TRUE]
    /\ wait' = [wait EXCEPT ![p] = NoWait]
    /\ NextTurn(TRUE)
    /\ UNCHANGED <<nprocs, ppid, zombie, reaped, exit_code, owned, again, fileVars,
                   history>>

(* do_exec, the image cannot be loaded: fail_exec wakes the thread. *)
ExecFails(p) ==
    /\ Visits(p) /\ ~zombie[p] /\ request[p]
    /\ request' = [request EXCEPT ![p] = FALSE]
    /\ wait' = [wait EXCEPT ![p] = NoWait]
    /\ NextTurn(TRUE)
    /\ UNCHANGED <<nprocs, ppid, zombie, reaped, exec_done, exit_code, owned, again,
                   fileVars, history>>

(* do_exec: a new emulator with a copy of the table, less what is marked   *)
(* close-on-exec.  The old emulator is destroyed if the System owns it;    *)
(* the one the root was loaded into belongs to main() and lives on.        *)
Exec(p) ==
    /\ Visits(p) /\ ~zombie[p] /\ request[p]
    /\ request' = [request EXCEPT ![p] = FALSE]
    /\ wait' = [wait EXCEPT ![p] = NoWait]
    /\ exec_done' = [exec_done EXCEPT ![p] = TRUE]
    /\ files' = [files EXCEPT ![p] = [fd \in Fds |-> IF files[p][fd].cloexec
                                                     THEN NoEntry ELSE files[p][fd]]]
    /\ old_files' = IF owned[p] THEN old_files ELSE files[p]
    /\ owned' = [owned EXCEPT ![p] = TRUE]
    /\ NextTurn(TRUE)
    /\ replaced' = replaced \cup {p}
    /\ UNCHANGED <<nprocs, ppid, zombie, reaped, exit_code, again, npipes, buffer,
                   by_vfork, told, eof>>

(* Mutant: a wait for any child looks for one whose pid is -1. *)
Predicate_ExactPid(p) ==
    LET w == wait[p] IN
    \/ w.on = "none"
    \/ w.on = "child" /\ (w.want \in ZombieChildren(p, -1) \/ ~HasChildren(p))
    \/ w.on = "pipe" /\ LET i == files[p][w.fd].pipe IN buffer[i] > 0 \/ ~Open(i, TRUE)
    \/ w.on = "vfork" /\ ExecDoneOrZombie(w.child)

Predicate(p) ==
    LET w == wait[p] IN
    \/ w.on = "none"
    \/ w.on = "child" /\ (ZombieChildren(p, w.want) # {} \/ ~HasChildren(p))
    \/ w.on = "pipe" /\ LET i == files[p][w.fd].pipe IN buffer[i] > 0 \/ ~Open(i, TRUE)
    \/ w.on = "vfork" /\ ExecDoneOrZombie(w.child)

(* run_slice: the thread is runnable or its predicate has become true.  A  *)
(* blocked read or wait4 makes its syscall again.                          *)
StartSlice(p) ==
    /\ Visits(p) /\ ~zombie[p] /\ ~request[p] /\ Predicate(p)
    /\ wait' = [wait EXCEPT ![p] = NoWait]
    /\ again' = [again EXCEPT ![p] = IF wait[p].on \in {"child", "pipe"}
                                     THEN wait[p] ELSE NoWait]
    /\ in_slice' = TRUE
    /\ UNCHANGED <<procVars, fileVars, turn, progress, phase, history>>

IdleSlice(p) ==
    /\ Visits(p) /\ ~zombie[p] /\ ~request[p] /\ ~Predicate(p)
    /\ NextTurn(FALSE)
    /\ UNCHANGED <<procVars, wait, again, fileVars, history>>

(* The round is over. *)
EndRound ==
    /\ phase = "run" /\ turn = nprocs + 1
    /\ IF zombie[Root] THEN /\ phase' = "over" /\ UNCHANGED <<turn, progress>>
       ELSE IF progress THEN /\ turn' = 1 /\ progress' = FALSE /\ UNCHANGED phase
       ELSE /\ phase' = "deadlock" /\ UNCHANGED <<turn, progress>>
    /\ UNCHANGED <<procVars, wait, again, fileVars, in_slice, history>>

-----------------------------------------------------------------------------
(* The slice of process p.                                                 *)

InSlice(p) == phase = "run" /\ in_slice /\ turn = p
AtHome(p) == InSlice(p) /\ again[p] = NoWait
Goes_on == UNCHANGED loopVars

(* The quantum is used up. *)
EndSlice(p) ==
    /\ AtHome(p)
    /\ NextTurn(TRUE)
    /\ UNCHANGED <<procVars, wait, again, fileVars, history>>

(* exit_group, or exit of the only thread. *)
Exit(p, code) ==
    /\ AtHome(p)
    /\ MakeZombie(p, code)
    /\ NextTurn(TRUE)
    /\ UNCHANGED <<old_files, npipes, buffer, history>>

(* Mutant: a crash does not count as progress. *)
Crash_NoProgress(p) ==
    /\ AtHome(p)
    /\ IF p = Root
       THEN /\ phase' = "crashed"
            /\ UNCHANGED <<procVars, wait, again, files, turn, in_slice, progress>>
       ELSE MakeZombie(p, Crashed) /\ NextTurn(FALSE)
    /\ UNCHANGED <<old_files, npipes, buffer, history>>

(* run_slice throws.  A child becomes a zombie; a root takes the whole     *)
(* emulator down.                                                          *)
Crash(p) ==
    /\ AtHome(p)
    /\ IF p = Root
       THEN /\ phase' = "crashed"
            /\ UNCHANGED <<procVars, wait, again, files, turn, in_slice, progress>>
       ELSE MakeZombie(p, Crashed) /\ NextTurn(TRUE)
    /\ UNCHANGED <<old_files, npipes, buffer, history>>

(* fork_clone and adopt: the child has a copy of the table and runs as     *)
(* soon as the loop reaches it.  vfork blocks the parent.                  *)
Fork(p, vfork) ==
    LET c == nprocs + 1 IN
    /\ AtHome(p)
    /\ nprocs < MaxProcs
    /\ nprocs' = c
    /\ ppid' = [ppid EXCEPT ![c] = p]
    /\ files' = [files EXCEPT ![c] = files[p]]
    /\ IF vfork
       THEN /\ wait' = [wait EXCEPT ![p] = OnVfork(c)]
            /\ by_vfork' = by_vfork \cup {c}
            /\ NextTurn(TRUE)
       ELSE Goes_on /\ UNCHANGED <<wait, by_vfork>>
    /\ UNCHANGED <<zombie, reaped, exec_done, exit_code, request, owned, again,
                   old_files, npipes, buffer, replaced, told, eof>>

(* execve parks the thread until System::run looks at the request. *)
Execve(p) ==
    /\ AtHome(p)
    /\ p = Root => RootExecs
    /\ request' = [request EXCEPT ![p] = TRUE]
    /\ wait' = [wait EXCEPT ![p] = OnExec]
    /\ NextTurn(TRUE)
    /\ UNCHANGED <<nprocs, ppid, zombie, reaped, exec_done, exit_code, owned, again,
                   fileVars, history>>

(* wait4 without WNOHANG: collect, fail with ECHILD, or block and retry. *)
Wait4(p, want) ==
    LET call == OnChild(want) IN
    /\ InSlice(p) /\ again[p] \in {NoWait, call}
    /\ \/ \E c \in ZombieChildren(p, want) :
             /\ \A d \in ZombieChildren(p, want) : c <= d
             /\ reaped' = [reaped EXCEPT ![c] = TRUE]
             /\ told' = [told EXCEPT ![c] = Append(told[c], exit_code[c] % 256)]
             /\ again' = [again EXCEPT ![p] = NoWait]
             /\ Goes_on
             /\ UNCHANGED wait
       \/ /\ ZombieChildren(p, want) = {} /\ ~HasChildren(p)
          /\ again' = [again EXCEPT ![p] = NoWait]
          /\ Goes_on
          /\ UNCHANGED <<wait, reaped, told>>
       \/ /\ ZombieChildren(p, want) = {} /\ HasChildren(p)
          /\ wait' = [wait EXCEPT ![p] = call]
          /\ again' = [again EXCEPT ![p] = NoWait]
          /\ NextTurn(TRUE)
          /\ UNCHANGED <<reaped, told>>
    /\ UNCHANGED <<nprocs, ppid, zombie, exec_done, exit_code, request, owned,
                   fileVars, by_vfork, replaced, eof>>

(* kill of another process: it is destroyed on the spot, wherever it is. *)
Kill(p, q) ==
    /\ AtHome(p) /\ q \in Made \ {p} /\ ~reaped[q] /\ ~zombie[q]
    /\ MakeZombie(q, Killed)
    /\ Goes_on
    /\ UNCHANGED <<old_files, npipes, buffer, history>>

-----------------------------------------------------------------------------
(* Descriptors and pipes.                                                  *)

Free(p) == {fd \in Fds : files[p][fd] = NoEntry}

(* The lowest free slots. *)
Lowest(free, fd) == fd \in free /\ \A other \in free : fd <= other

MakePipe(p, cloexec) ==
    /\ AtHome(p)
    /\ npipes < NPipes
    /\ \E rd, wr \in Fds :
          /\ Lowest(Free(p), rd) /\ Lowest(Free(p) \ {rd}, wr)
          /\ LET end(w) == [pipe |-> npipes + 1, writer |-> w, cloexec |-> cloexec] IN
             files' = [files EXCEPT ![p][rd] = end(FALSE), ![p][wr] = end(TRUE)]
    /\ npipes' = npipes + 1
    /\ Goes_on
    /\ UNCHANGED <<procVars, wait, again, old_files, buffer, history>>

Valid(p, fd) == files[p][fd] # NoEntry

Close(p, fd) ==
    /\ AtHome(p) /\ Valid(p, fd)
    /\ files' = [files EXCEPT ![p][fd] = NoEntry]
    /\ Goes_on
    /\ UNCHANGED <<procVars, wait, again, old_files, npipes, buffer, history>>

(* dup (to a free slot) and dup2 / dup3 (to any other). *)
Dup(p, fd, to, cloexec) ==
    /\ AtHome(p) /\ Valid(p, fd) /\ to # fd
    /\ files' = [files EXCEPT ![p][to] = [files[p][fd] EXCEPT !.cloexec = cloexec]]
    /\ Goes_on
    /\ UNCHANGED <<procVars, wait, again, old_files, npipes, buffer, history>>

(* fcntl(F_SETFD). *)
SetCloexec(p, fd, cloexec) ==
    /\ AtHome(p) /\ Valid(p, fd)
    /\ files' = [files EXCEPT ![p][fd].cloexec = cloexec]
    /\ Goes_on
    /\ UNCHANGED <<procVars, wait, again, old_files, npipes, buffer, history>>

(* Mutant: the reader's own process may still write, and is not waited for. *)
AtEof_OthersOnly(p, i) == ~\E q \in Made \ {p} : Refers(files[q], i, TRUE)

AtEof(p, i) == ~Open(i, TRUE)

(* read from a pipe: what there is, end of file, or block and retry. *)
Read(p, fd) ==
    LET i == files[p][fd].pipe IN
    /\ InSlice(p) /\ again[p] \in {NoWait, OnPipe(fd)}
    /\ Valid(p, fd) /\ ~files[p][fd].writer
    /\ again' = [again EXCEPT ![p] = NoWait]
    /\ \/ /\ buffer[i] > 0
          /\ \E n \in 1 .. buffer[i] : buffer' = [buffer EXCEPT ![i] = buffer[i] - n]
          /\ Goes_on
          /\ UNCHANGED <<wait, eof>>
       \/ /\ buffer[i] = 0 /\ AtEof(p, i)
          /\ eof' = eof \cup {i}
          /\ Goes_on
          /\ UNCHANGED <<wait, buffer>>
       \/ /\ buffer[i] = 0 /\ ~AtEof(p, i)
          /\ wait' = [wait EXCEPT ![p] = OnPipe(fd)]
          /\ NextTurn(TRUE)
          /\ UNCHANGED <<buffer, eof>>
    /\ UNCHANGED <<procVars, files, old_files, npipes, by_vfork, replaced, told>>

(* write to a pipe that has a reader. *)
Write(p, fd) ==
    LET i == files[p][fd].pipe IN
    /\ AtHome(p) /\ Valid(p, fd) /\ files[p][fd].writer
    /\ Open(i, FALSE) /\ buffer[i] < MaxBytes
    /\ buffer' = [buffer EXCEPT ![i] = buffer[i] + 1]
    /\ Goes_on
    /\ UNCHANGED <<procVars, wait, again, files, old_files, npipes, history>>

-----------------------------------------------------------------------------
(* System::run has returned or thrown. *)
Terminated == phase # "run" /\ UNCHANGED vars

Loop == \/ \E p \in Procs : \/ SkipZombie(p) \/ ExecFails(p) \/ Exec(p)
                            \/ StartSlice(p) \/ IdleSlice(p) \/ EndSlice(p)
        \/ EndRound

Manage(p) == \/ \E code \in ExitCodes : Exit(p, code)
             \/ Crash(p)
             \/ \E vfork \in BOOLEAN : Fork(p, vfork)
             \/ Execve(p)
             \/ \E want \in {-1} \cup Made : Wait4(p, want)
             \/ \E q \in Procs : Kill(p, q)

CloexecFlags == IF CloexecUsed THEN BOOLEAN ELSE {FALSE}

UseFiles(p) ==
    \/ \E cloexec \in CloexecFlags : MakePipe(p, cloexec)
    \/ \E fd \in Fds :
          \/ Close(p, fd) \/ Read(p, fd) \/ Write(p, fd)
          \/ \E to \in Fds, cloexec \in CloexecFlags : Dup(p, fd, to, cloexec)
          \/ \E cloexec \in CloexecFlags : SetCloexec(p, fd, cloexec)

Next == Loop \/ (\E p \in Procs : Manage(p) \/ UseFiles(p)) \/ Terminated

Spec == Init /\ [][Next]_vars

(* The host keeps running the loop, and a slice ends with its quantum. *)
FairSpec == Spec /\ WF_vars(Next) /\ WF_vars(\E p \in Procs : EndSlice(p))

-----------------------------------------------------------------------------
(* Safety.                                                                 *)

(* "all processes are blocked: deadlock" is only thrown when no process    *)
(* can ever go on: each waits for a child that has neither finished nor    *)
(* replaced its image, or reads an empty pipe that a living process could  *)
(* still write to.                                                         *)
LivingWriter(i) == \E q \in Alive : Refers(files[q], i, TRUE)

DeadlockIsReal ==
    phase = "deadlock" =>
        \A p \in Alive :
            \/ /\ wait[p].on = "child" /\ HasChildren(p)
               /\ ZombieChildren(p, wait[p].want) = {}
            \/ wait[p].on = "vfork" /\ ~ExecDoneOrZombie(wait[p].child)
            \/ /\ wait[p].on = "pipe"
               /\ buffer[files[p][wait[p].fd].pipe] = 0
               /\ LivingWriter(files[p][wait[p].fd].pipe)

(* The end of a child is reported once: its status has been told exactly   *)
(* when it has been collected, and is what it exited with.                 *)
ReportedOnce ==
    \A p \in Made :
        /\ told[p] = IF reaped[p] THEN <<exit_code[p] % 256>> ELSE <<>>
        /\ reaped[p] => zombie[p]

(* "vfork suspends the parent until the child execs or exits."             *)
VforkSuspends ==
    \A c \in by_vfork :
        InSlice(ppid[c]) => zombie[c] \/ c \in replaced

(* "a zombie holding the write end of a pipe would keep its parent from    *)
(* ever seeing end-of-file": a finished child refers to no pipe.           *)
ZombieHoldsNothing == \A p \in Made \ {Root} : zombie[p] => files[p] = EmptyTable

(* End of file is final: once a read has reported it, nobody can ever      *)
(* write to that pipe.                                                     *)
EofIsFinal == \A i \in eof : ~Open(i, TRUE)

(* No end of file too early, and nothing that would put it off for ever.   *)
PipesEnd == EofIsFinal /\ ZombieHoldsNothing

(* The System implements the abstract life of processes, and tells of each *)
(* end once.                                                               *)
Life == INSTANCE ProcessLife WITH
    ExitCode <- Codes,
    life <- [p \in Procs |-> IF p \notin Made THEN "none"
                             ELSE IF reaped[p] THEN "reaped"
                             ELSE IF zombie[p] THEN "zombie" ELSE "running"],
    parent <- [p \in Procs |-> IF p \in Made \ {Root} THEN ppid[p] ELSE Root],
    code <- exit_code
LivesAsPromised == Life!Spec /\ []ReportedOnce

-----------------------------------------------------------------------------
(* Liveness, under FairSpec.                                               *)

Ended == phase \in {"over", "crashed"}

(* A parent blocked in wait4 hears of a child that has finished.           *)
ParentHears ==
    \A p \in Procs :
        p \in Alive /\ wait[p].on = "child" /\ ZombieChildren(p, wait[p].want) # {}
            ~> Ended \/ zombie[p] \/ wait[p] = NoWait

(* A reader is released once the last writer has gone, however it went:    *)
(* closed, exited, crashed, killed or replaced.                            *)
ReaderSeesEof ==
    \A p \in Procs :
        p \in Alive /\ wait[p].on = "pipe" /\ ~LivingWriter(files[p][wait[p].fd].pipe)
            ~> Ended \/ zombie[p] \/ wait[p] = NoWait

(* Whatever is able to run gets its slice.                                 *)
EveryoneRuns ==
    \A p \in Procs :
        p \in Alive /\ wait[p] = NoWait ~> Ended \/ zombie[p] \/ InSlice(p)

(* Both: no process is left behind, whatever it waits for.                 *)
NobodyIsForgotten == ParentHears /\ EveryoneRuns
=============================================================================
