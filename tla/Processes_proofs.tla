-------------------------- MODULE Processes_proofs --------------------------
(***************************************************************************)
(* Proofs about Processes for any number of processes, pipes, descriptors  *)
(* and bytes.                                                              *)
(***************************************************************************)
EXTENDS Processes, TLAPS

-----------------------------------------------------------------------------
(* The inductive invariant.                                                *)

\* What the entries of procs_ say of each other.  Only the root's emulator can be
\* one the System does not own.
EntriesInv ==
    /\ \A p \in Procs : /\ zombie[p] => p \in Made
                        /\ reaped[p] => zombie[p]
                        /\ exec_done[p] => p \in replaced
                        /\ p # Root => owned[p]
    /\ ppid[Root] = 0
    /\ \A p \in Made : p # Root => ppid[p] \in Made
    /\ \A p \in Procs : told[p] = IF reaped[p] THEN <<exit_code[p] % 256>> ELSE <<>>

\* A thread waits for its image to be replaced exactly while it is asked for, the
\* process that runs waits for nothing, and who called vfork waits for its child
\* until that has a new image or has finished, or is a zombie itself.
WaitsInv ==
    /\ \A p \in Procs : request[p] <=> wait[p] = OnExec
    /\ in_slice => wait[turn] = NoWait
    /\ \A c \in by_vfork : /\ c \in Made \ {Root}
                           /\ \/ zombie[c] \/ c \in replaced \/ zombie[ppid[c]]
                              \/ wait[ppid[c]] = OnVfork(c)

\* Tables refer to pipes that have been made; what has been found at its end has no
\* writer; and a zombie of the System's has no table.
FilesInv ==
    /\ \A p \in Made, fd \in Fds : files[p][fd].pipe <= npipes
    /\ \A fd \in Fds : old_files[fd].pipe <= npipes
    /\ eof \subseteq 1 .. npipes
    /\ EofIsFinal /\ ZombieHoldsNothing

\* As long as a round has let nobody run, those it has been past can still not.
Stuck(p) == ~request[p] /\ ~Predicate(p)
RoundInv ==
    /\ phase = "run" /\ ~in_slice /\ ~progress => \A p \in Alive : p < turn => Stuck(p)
    /\ phase = "deadlock" => ~zombie[Root] /\ ~in_slice /\ \A p \in Alive : Stuck(p)


\* A root that keeps its image has no other table.
RootStays == ~owned[Root] /\ ~request[Root] /\ old_files = EmptyTable

ProcInv == /\ TypeOK /\ EntriesInv /\ WaitsInv /\ FilesInv /\ RoundInv
           /\ ~RootExecs => RootStays

-----------------------------------------------------------------------------
(* What a step does, by what it changes.                                   *)

LEMMA WaitTypes ==
  /\ NoWait \in Waits /\ OnExec \in Waits /\ OnExec # NoWait
  /\ \A w \in Procs \cup {-1} : OnChild(w) \in Waits /\ OnChild(w) # OnExec /\ OnChild(w) # NoWait
  /\ \A fd \in Fds : OnPipe(fd) \in Waits /\ OnPipe(fd) # OnExec /\ OnPipe(fd) # NoWait
  /\ \A c \in Procs : OnVfork(c) \in Waits /\ OnVfork(c) # OnExec /\ OnVfork(c) # NoWait
<1>1. /\ NoWait.on = "none" /\ OnExec.on = "exec"
      /\ \A w : OnChild(w).on = "child" /\ OnPipe(w).on = "pipe" /\ OnVfork(w).on = "vfork"
  BY DEF NoWait, OnExec, OnChild, OnPipe, OnVfork
<1>2. OnExec # NoWait
  BY <1>1
<1>3. \A w : OnChild(w) # OnExec /\ OnChild(w) # NoWait
  BY <1>1
<1>4. \A w : OnPipe(w) # OnExec /\ OnPipe(w) # NoWait
  BY <1>1
<1>5. \A w : OnVfork(w) # OnExec /\ OnVfork(w) # NoWait
  BY <1>1
<1> QED
  BY <1>2, <1>3, <1>4, <1>5 DEF Waits

\* Only the loop goes on, or stops.
Turns == /\ UNCHANGED <<procVars, wait, again, fileVars, history>>
         /\ turn' \in 1 .. nprocs + 1
         /\ in_slice' => in_slice /\ turn' = turn

\* Process p finishes: the one whose slice it is, or another that it kills.
Ends(p) ==
    /\ \E code \in Codes : MakeZombie(p, code)
    /\ p \in Alive
    /\ UNCHANGED <<old_files, npipes, buffer, history>>
    /\ \/ turn = p /\ turn' = turn + 1 /\ ~in_slice'
       \/ p # turn /\ UNCHANGED <<turn, in_slice>>

\* Process p changes its table, and makes a pipe perhaps: what it can refer to then
\* it could refer to before, but for the new pipe.
Edits(p) ==
    /\ UNCHANGED <<procVars, wait, again, old_files, buffer, history, loopVars>>
    /\ npipes' \in {npipes, npipes + 1} /\ npipes' <= NPipes
    /\ \E table \in Table :
          /\ files' = [files EXCEPT ![p] = table]
          /\ \A fd \in Fds :
                \/ table[fd].pipe = npipes + 1 /\ npipes' = npipes + 1
                \/ table[fd].pipe = 0
                \/ \E old \in Fds : /\ files[p][old].pipe = table[fd].pipe
                                    /\ files[p][old].writer = table[fd].writer

\* Somebody runs: the round has had an effect, or the machine goes down.
Busy ==
    /\ phase = "run"
    /\ \/ phase' = "run" /\ (in_slice' \/ progress')
       \/ phase' = "crashed"

\* The loop passes over somebody, begins again or ends; or all is over.
Passes ==
    \/ \E p \in Procs : SkipZombie(p) \/ IdleSlice(p)
    \/ EndRound
    \/ UNCHANGED vars

LEMMA EditCases ==
  ASSUME ProcessesAssumption, TypeOK, NEW p \in Procs, UseFiles(p)
  PROVE  /\ InSlice(p) /\ p \in Alive
         /\ Edits(p) \/ \E fd \in Fds : Read(p, fd) \/ Write(p, fd)
<1>1. \A t : InSlice(t) => t \in Alive
  BY DEF InSlice, TypeOK
<1>2. /\ NoEntry \in Entry \cup {NoEntry} /\ NoEntry.pipe = 0
      /\ files[p] \in Table /\ npipes \in 0 .. NPipes /\ NPipes \in Nat
      /\ CloexecFlags \subseteq BOOLEAN
      /\ \A fd \in Fds : files[p][fd] \in Entry \cup {NoEntry}
  BY DEF NoEntry, TypeOK, Table, ProcessesAssumption, CloexecFlags
<1>3. ASSUME NEW cloexec \in CloexecFlags, MakePipe(p, cloexec)
      PROVE  InSlice(p) /\ Edits(p)
  <2> DEFINE end(w) == [pipe |-> npipes + 1, writer |-> w, cloexec |-> cloexec]
  <2>1. PICK rd \in Fds, wr \in Fds :
           files' = [files EXCEPT ![p][rd] = end(FALSE), ![p][wr] = end(TRUE)]
    BY <1>3 DEF MakePipe
  <2> DEFINE table == [files[p] EXCEPT ![rd] = end(FALSE), ![wr] = end(TRUE)]
  <2>2. files' = [files EXCEPT ![p] = table]
    BY <2>1 DEF TypeOK
  <2>3. end(FALSE) \in Entry /\ end(TRUE) \in Entry
    BY <1>2, <1>3 DEF MakePipe, Entry, Pipes
  <2>4. table \in Table
    BY <1>2, <2>3 DEF Table
  <2>5. \A fd \in Fds : \/ table[fd].pipe = npipes + 1
                        \/ table[fd] = files[p][fd]
    BY <1>2 DEF Table
  <2> HIDE DEF table
  <2>7. \A g \in Fds :
           \/ table[g].pipe = npipes + 1 /\ npipes' = npipes + 1
           \/ table[g].pipe = 0
           \/ \E old \in Fds : /\ files[p][old].pipe = table[g].pipe
                               /\ files[p][old].writer = table[g].writer
    BY <1>3, <2>5 DEF MakePipe
  <2>8. /\ InSlice(p) /\ npipes' \in {npipes, npipes + 1} /\ npipes' <= NPipes
        /\ UNCHANGED <<procVars, wait, again, old_files, buffer, history, loopVars>>
    BY <1>2, <1>3 DEF MakePipe, AtHome, Goes_on
  <2> QED
    BY <2>2, <2>4, <2>7, <2>8 DEF Edits
<1>4. ASSUME NEW fd \in Fds, Close(p, fd)
      PROVE  InSlice(p) /\ Edits(p)
  <2> DEFINE table == [files[p] EXCEPT ![fd] = NoEntry]
  <2>1. files' = [files EXCEPT ![p] = table]
    BY <1>4 DEF Close, TypeOK
  <2>2. table \in Table /\ \A g \in Fds : table[g].pipe = 0 \/ table[g] = files[p][g]
    BY <1>2 DEF Table
  <2> HIDE DEF table
  <2>7. \A g \in Fds :
           \/ table[g].pipe = npipes + 1 /\ npipes' = npipes + 1
           \/ table[g].pipe = 0
           \/ \E old \in Fds : /\ files[p][old].pipe = table[g].pipe
                               /\ files[p][old].writer = table[g].writer
    BY <1>4, <2>2 DEF Close
  <2>8. /\ InSlice(p) /\ npipes' \in {npipes, npipes + 1} /\ npipes' <= NPipes
        /\ UNCHANGED <<procVars, wait, again, old_files, buffer, history, loopVars>>
    BY <1>2, <1>4 DEF Close, AtHome, Goes_on
  <2> QED
    BY <2>1, <2>2, <2>7, <2>8 DEF Edits
<1>5. ASSUME NEW fd \in Fds, NEW to \in Fds, NEW cloexec \in BOOLEAN, Dup(p, fd, to, cloexec)
      PROVE  InSlice(p) /\ Edits(p)
  <2> DEFINE entry == [files[p][fd] EXCEPT !.cloexec = cloexec]
             table == [files[p] EXCEPT ![to] = entry]
  <2>1. files' = [files EXCEPT ![p] = table]
    BY <1>5 DEF Dup, TypeOK
  <2>2. files[p][fd] \in Entry
    BY <1>2, <1>5 DEF Dup, Valid
  <2>3. /\ entry \in Entry /\ entry.pipe = files[p][fd].pipe
        /\ entry.writer = files[p][fd].writer
    BY <2>2 DEF Entry
  <2> HIDE DEF entry
  <2>4. table \in Table /\ \A g \in Fds : table[g] = entry \/ table[g] = files[p][g]
    BY <1>2, <2>3 DEF Table
  <2> HIDE DEF table
  <2>7. \A g \in Fds :
           \/ table[g].pipe = npipes + 1 /\ npipes' = npipes + 1
           \/ table[g].pipe = 0
           \/ \E old \in Fds : /\ files[p][old].pipe = table[g].pipe
                               /\ files[p][old].writer = table[g].writer
    BY <1>5, <2>3, <2>4 DEF Dup
  <2>8. /\ InSlice(p) /\ npipes' \in {npipes, npipes + 1} /\ npipes' <= NPipes
        /\ UNCHANGED <<procVars, wait, again, old_files, buffer, history, loopVars>>
    BY <1>2, <1>5 DEF Dup, AtHome, Goes_on
  <2> QED
    BY <2>1, <2>4, <2>7, <2>8 DEF Edits
<1>6. ASSUME NEW fd \in Fds, NEW cloexec \in BOOLEAN, SetCloexec(p, fd, cloexec)
      PROVE  InSlice(p) /\ Edits(p)
  <2> DEFINE entry == [files[p][fd] EXCEPT !.cloexec = cloexec]
             table == [files[p] EXCEPT ![fd] = entry]
  <2>1. files' = [files EXCEPT ![p] = table]
    BY <1>6 DEF SetCloexec, TypeOK
  <2>2. files[p][fd] \in Entry
    BY <1>2, <1>6 DEF SetCloexec, Valid
  <2>3. /\ entry \in Entry /\ entry.pipe = files[p][fd].pipe
        /\ entry.writer = files[p][fd].writer
    BY <2>2 DEF Entry
  <2> HIDE DEF entry
  <2>4. table \in Table /\ \A g \in Fds : table[g] = entry \/ table[g] = files[p][g]
    BY <1>2, <2>3 DEF Table
  <2> HIDE DEF table
  <2>7. \A g \in Fds :
           \/ table[g].pipe = npipes + 1 /\ npipes' = npipes + 1
           \/ table[g].pipe = 0
           \/ \E old \in Fds : /\ files[p][old].pipe = table[g].pipe
                               /\ files[p][old].writer = table[g].writer
    BY <1>6, <2>3, <2>4 DEF SetCloexec
  <2>8. /\ InSlice(p) /\ npipes' \in {npipes, npipes + 1} /\ npipes' <= NPipes
        /\ UNCHANGED <<procVars, wait, again, old_files, buffer, history, loopVars>>
    BY <1>2, <1>6 DEF SetCloexec, AtHome, Goes_on
  <2> QED
    BY <2>1, <2>4, <2>7, <2>8 DEF Edits
<1>7. \A fd \in Fds : Read(p, fd) \/ Write(p, fd) => InSlice(p)
  BY DEF Read, Write, AtHome
<1> QED
  BY <1>1, <1>2, <1>3, <1>4, <1>5, <1>6, <1>7 DEF UseFiles

(* What runs and changes neither only a table nor only the loop.           *)
Acts(p) ==
    \/ ExecFails(p) \/ Exec(p) \/ StartSlice(p) \/ Execve(p)
    \/ \E vfork \in BOOLEAN : Fork(p, vfork)
    \/ \E want \in {-1} \cup Made : Wait4(p, want)
    \/ \E fd \in Fds : Read(p, fd) \/ Write(p, fd)

LEMMA LoopTypes ==
  ASSUME ProcessesAssumption, TypeOK, [Next]_vars
  PROVE  /\ in_slice' \in BOOLEAN /\ progress' \in BOOLEAN
         /\ phase' \in {"run", "over", "deadlock", "crashed"}
<1>1. /\ in_slice \in BOOLEAN /\ progress \in BOOLEAN
      /\ phase \in {"run", "over", "deadlock", "crashed"}
  BY DEF TypeOK
<1>2. \A b \in BOOLEAN : NextTurn(b) => /\ in_slice' \in BOOLEAN /\ progress' \in BOOLEAN
                                        /\ phase' \in {"run", "over", "deadlock", "crashed"}
  BY <1>1 DEF NextTurn
<1>3. Goes_on => /\ in_slice' \in BOOLEAN /\ progress' \in BOOLEAN
                 /\ phase' \in {"run", "over", "deadlock", "crashed"}
  BY <1>1 DEF Goes_on, loopVars
<1>4. CASE Loop
  BY <1>1, <1>2, <1>4
     DEF Loop, SkipZombie, ExecFails, Exec, StartSlice, IdleSlice, EndSlice, EndRound
<1>5. ASSUME NEW p \in Procs, Manage(p) \/ UseFiles(p)
      PROVE  /\ in_slice' \in BOOLEAN /\ progress' \in BOOLEAN
             /\ phase' \in {"run", "over", "deadlock", "crashed"}
  <2>1. CASE UseFiles(p)
    BY <1>2, <1>3, <2>1 DEF UseFiles, MakePipe, Close, Dup, SetCloexec, Read, Write
  <2>2. CASE Manage(p)
    BY <1>1, <1>2, <1>3, <2>2 DEF Manage, Exit, Crash, Fork, Execve, Wait4, Kill
  <2> QED
    BY <1>5, <2>1, <2>2
<1>6. CASE UNCHANGED vars
  BY <1>1, <1>6 DEF vars, loopVars
<1> QED
  BY <1>4, <1>5, <1>6 DEF Next, Terminated

LEMMA NextCases ==
  ASSUME ProcessesAssumption, TypeOK, [Next]_vars
  PROVE  \/ Turns /\ (Passes \/ Busy)
         \/ \E p \in Alive : Busy /\ (Ends(p) \/ Edits(p) \/ Acts(p))
<1>1. /\ Made \subseteq Procs /\ nprocs \in Nat /\ turn \in 1 .. nprocs + 1
      /\ in_slice \in BOOLEAN
      /\ \A p \in Procs : InSlice(p) => p \in Alive /\ phase = "run" /\ in_slice /\ turn = p
      /\ \A p \in Procs : Visits(p) => p \in Made /\ phase = "run" /\ turn = p /\ ~in_slice
      /\ Alive \subseteq Made
  BY DEF TypeOK, Made, Alive, Procs, InSlice, Visits, ProcessesAssumption
<1>2. phase = "run" /\ NextTurn(TRUE) => Busy /\ turn' = turn + 1 /\ ~in_slice'
  BY DEF Busy, NextTurn
<1>3. \A p \in Procs : InSlice(p) /\ Goes_on => Busy /\ UNCHANGED <<turn, in_slice>>
  BY <1>1 DEF Busy, Goes_on, loopVars
<1>4. \A p \in Made : turn = p => p + 1 \in 1 .. nprocs + 1
  BY <1>1 DEF Made
<1>5. CASE UNCHANGED vars
  BY <1>1, <1>5 DEF Turns, Passes, vars, loopVars
<1>6. CASE EndRound
  <2>1. /\ UNCHANGED <<procVars, wait, again, fileVars, in_slice, history>>
        /\ turn' \in {turn, 1} /\ turn = nprocs + 1
    BY <1>6 DEF EndRound
  <2>2. nprocs + 1 \notin Alive
    BY <1>1 DEF Made
  <2>3. ~in_slice
    BY <2>1, <2>2 DEF TypeOK
  <2>4. 1 \in 1 .. nprocs + 1
    BY <1>1
  <2> QED
    BY <1>1, <1>6, <2>1, <2>3, <2>4 DEF Turns, Passes
<1>7. ASSUME NEW p \in Procs, SkipZombie(p) \/ IdleSlice(p)
      PROVE  Turns /\ Passes
  BY <1>1, <1>4, <1>7 DEF SkipZombie, IdleSlice, Turns, Passes, NextTurn
<1>8. ASSUME NEW p \in Procs, EndSlice(p)
      PROVE  Turns /\ Busy
  BY <1>1, <1>2, <1>4, <1>8 DEF EndSlice, AtHome, Turns
<1>9. ASSUME NEW p \in Procs, ExecFails(p) \/ Exec(p) \/ StartSlice(p)
      PROVE  p \in Alive /\ Busy /\ Acts(p)
  <2>1. p \in Alive /\ phase = "run"
    BY <1>1, <1>9 DEF ExecFails, Exec, StartSlice, Alive
  <2>2. Busy
    BY <1>2, <1>9, <2>1 DEF ExecFails, Exec, StartSlice, Busy
  <2> QED
    BY <1>9, <2>1, <2>2 DEF Acts
<1>10. ASSUME NEW p \in Procs, UseFiles(p)
       PROVE  p \in Alive /\ Busy /\ (Edits(p) \/ Acts(p))
  <2>1. /\ InSlice(p) /\ p \in Alive
        /\ Edits(p) \/ \E fd \in Fds : Read(p, fd) \/ Write(p, fd)
    BY <1>10, EditCases
  <2>2. Goes_on \/ NextTurn(TRUE)
    BY <1>10 DEF UseFiles, MakePipe, Close, Dup, SetCloexec, Read, Write
  <2> QED
    BY <1>1, <1>2, <1>3, <2>1, <2>2 DEF Acts
<1>11. ASSUME NEW p \in Procs, (\E vfork \in BOOLEAN : Fork(p, vfork)) \/ Execve(p)
                               \/ \E want \in {-1} \cup Made : Wait4(p, want)
       PROVE  p \in Alive /\ Busy /\ Acts(p)
  <2>1. InSlice(p) /\ (Goes_on \/ NextTurn(TRUE))
    BY <1>11 DEF Fork, Execve, Wait4, AtHome
  <2> QED
    BY <1>1, <1>2, <1>3, <1>11, <2>1 DEF Acts
<1>12. ASSUME NEW p \in Procs, NEW code \in ExitCodes, Exit(p, code)
       PROVE  p \in Alive /\ Busy /\ Ends(p)
  BY <1>1, <1>2, <1>12 DEF Exit, AtHome, Ends, Codes
<1>13. ASSUME NEW p \in Procs, Crash(p)
       PROVE  Busy /\ (Turns \/ (p \in Alive /\ Ends(p)))
  <2>1. CASE p = Root
    BY <1>1, <1>13, <2>1 DEF Crash, AtHome, Turns, Busy, fileVars
  <2>2. CASE p # Root
    BY <1>1, <1>2, <1>13, <2>2 DEF Crash, AtHome, Ends, Codes
  <2> QED
    BY <2>1, <2>2
<1>14. ASSUME NEW p \in Procs, NEW q \in Procs, Kill(p, q)
       PROVE  q \in Alive /\ Busy /\ Ends(q)
  BY <1>1, <1>3, <1>14 DEF Kill, AtHome, Ends, Codes, Alive
<1> QED
  BY <1>5, <1>6, <1>7, <1>8, <1>9, <1>10, <1>11, <1>12, <1>13, <1>14
     DEF Next, Loop, Manage, Terminated

-----------------------------------------------------------------------------
(* Types.                                                                  *)

LEMMA AliveFacts ==
  ASSUME ProcessesAssumption, TypeOK, NEW p \in Alive
  PROVE  /\ p \in Made /\ p \in Procs /\ ~zombie[p] /\ nprocs \in Nat /\ nprocs \in Procs
         /\ Made \subseteq Procs /\ Root \in Procs /\ MaxProcs \in Nat
         /\ \A q \in Made : q + 1 \in 1 .. nprocs + 1
BY DEF Alive, Made, TypeOK, Procs, Root, ProcessesAssumption

\* The types of what the loop does not own.
ProcTypes ==
    /\ nprocs \in Procs
    /\ ppid \in [Procs -> Procs \cup {0}]
    /\ zombie \in [Procs -> BOOLEAN] /\ reaped \in [Procs -> BOOLEAN]
    /\ exec_done \in [Procs -> BOOLEAN] /\ request \in [Procs -> BOOLEAN]
    /\ owned \in [Procs -> BOOLEAN]
    /\ exit_code \in [Procs -> Codes]
    /\ wait \in [Procs -> Waits] /\ again \in [Procs -> Waits]
    /\ files \in [Procs -> Table] /\ old_files \in Table
    /\ npipes \in 0 .. NPipes
    /\ buffer \in [Pipes -> 0 .. MaxBytes]
    /\ by_vfork \subseteq Procs /\ replaced \subseteq Procs
    /\ told \in [Procs -> Seq(0 .. 255)]
    /\ eof \subseteq Pipes
\* And of where it stands.
TurnTypes == turn \in 1 .. nprocs + 1 /\ (in_slice => turn \in Alive)

LEMMA EmptyTableType == EmptyTable \in Table
BY DEF EmptyTable, Table, NoEntry, Entry

LEMMA CodesAreBytes ==
  ASSUME ProcessesAssumption, NEW code \in Codes
  PROVE  code \in Nat /\ code % 256 \in 0 .. 255
<1>1. code \in Nat
  BY DEF Codes, Crashed, Killed, ProcessesAssumption
<1> QED
  BY <1>1

LEMMA EndsTypes ==
  ASSUME ProcessesAssumption, TypeOK, NEW p \in Alive, Ends(p)
  PROVE  ProcTypes' /\ TurnTypes'
<1>1. PICK code \in Codes : MakeZombie(p, code)
  BY DEF Ends
<1>2. ProcTypes'
  BY <1>1, AliveFacts, EmptyTableType, WaitTypes
     DEF Ends, MakeZombie, Released, ProcTypes, TypeOK, history
<1>3. /\ nprocs' = nprocs /\ \A q \in Alive : q # p => q \in Alive'
  BY <1>1, AliveFacts DEF MakeZombie, TypeOK, Alive, Made
<1> QED
  BY <1>2, <1>3, AliveFacts DEF Ends, TurnTypes, TypeOK

LEMMA ActsTypes ==
  ASSUME ProcessesAssumption, TypeOK, NEW p \in Alive, Acts(p)
  PROVE  ProcTypes' /\ TurnTypes'
<1> USE DEF TypeOK, ProcTypes, procVars, fileVars, history
<1>0. /\ p \in Procs /\ p \in Made /\ ~zombie[p] /\ nprocs \in Nat /\ Made \subseteq Procs
      /\ p + 1 \in 1 .. nprocs + 1 /\ MaxProcs \in Nat
      /\ NoWait \in Waits /\ OnExec \in Waits
  BY AliveFacts, WaitTypes
<1>1. UNCHANGED <<nprocs, zombie>> => Alive' = Alive
  BY DEF Alive, Made
<1>2. ASSUME UNCHANGED <<nprocs, zombie>>, turn = p,
             NextTurn(TRUE) \/ Goes_on \/ (in_slice' /\ UNCHANGED turn)
      PROVE  TurnTypes'
  BY <1>0, <1>1, <1>2 DEF TurnTypes, NextTurn, Goes_on, loopVars
<1>3. CASE ExecFails(p)
  <2>1. ProcTypes'
    BY <1>0, <1>3 DEF ExecFails
  <2> QED
    BY <1>2, <1>3, <2>1 DEF ExecFails, Visits
<1>4. CASE Exec(p)
  <2>1. files[p] \in Table /\ [fd \in Fds |-> IF files[p][fd].cloexec THEN NoEntry
                                                                    ELSE files[p][fd]] \in Table
    BY <1>0 DEF Table
  <2>2. files' \in [Procs -> Table] /\ old_files' \in Table
    BY <1>0, <1>4, <2>1 DEF Exec
  <2>3. ProcTypes'
    BY <1>0, <1>4, <2>2 DEF Exec
  <2> QED
    BY <1>2, <1>4, <2>3 DEF Exec, Visits
<1>5. CASE StartSlice(p)
  <2>1. ProcTypes'
    BY <1>0, <1>5 DEF StartSlice
  <2> QED
    BY <1>2, <1>5, <2>1 DEF StartSlice, Visits
<1>6. CASE Execve(p)
  <2>1. ProcTypes'
    BY <1>0, <1>6 DEF Execve
  <2> QED
    BY <1>2, <1>6, <2>1 DEF Execve, AtHome, InSlice
<1>7. ASSUME NEW vfork \in BOOLEAN, Fork(p, vfork)
      PROVE  ProcTypes' /\ TurnTypes'
  <2> DEFINE c == nprocs + 1
  <2>1. c \in Procs /\ nprocs' = c /\ c \notin Made
    BY <1>0, <1>7 DEF Fork, AtHome, Procs, Made
  <2> HIDE DEF c
  <2>2. /\ ppid' \in [Procs -> Procs \cup {0}] /\ files' \in [Procs -> Table]
        /\ by_vfork' \subseteq Procs
    <3>1. /\ ppid' = [ppid EXCEPT ![c] = p] /\ files' = [files EXCEPT ![c] = files[p]]
          /\ by_vfork' \subseteq by_vfork \cup {c}
      BY <1>7 DEF Fork, c
    <3>2. files[p] \in Table
      BY <1>0
    <3> QED
      BY <1>0, <2>1, <3>1, <3>2
  <2>3. wait' \in [Procs -> Waits]
    <3>1. OnVfork(c) \in Waits
      BY <2>1, WaitTypes
    <3> QED
      BY <1>0, <1>7, <3>1 DEF Fork, c
  <2>5. ProcTypes'
    BY <1>7, <2>1, <2>2, <2>3 DEF Fork
  <2>6. Alive \subseteq Alive' /\ nprocs' = nprocs + 1
    BY <1>0, <1>7 DEF Fork, Alive, Made
  <2>4. turn = p /\ (NextTurn(TRUE) \/ Goes_on)
    BY <1>7 DEF Fork, AtHome, InSlice
  <2> QED
    <3>1. TurnTypes'
      <4>1. CASE NextTurn(TRUE)
        BY <1>0, <2>4, <2>6, <4>1 DEF TurnTypes, NextTurn
      <4>2. CASE Goes_on
        <5>1. p \in Alive'
          BY <2>6
        <5> QED
          BY <1>0, <2>4, <2>6, <4>2, <5>1 DEF TurnTypes, Goes_on, loopVars
      <4> QED
        BY <2>4, <4>1, <4>2
    <3> QED
      BY <2>5, <3>1
<1>8. ASSUME NEW want \in {-1} \cup Made, Wait4(p, want)
      PROVE  ProcTypes' /\ TurnTypes'
  <2>1. OnChild(want) \in Waits
    BY <1>0, WaitTypes
  <2>2. \/ UNCHANGED <<reaped, told>>
        \/ \E c \in Procs : /\ reaped' = [reaped EXCEPT ![c] = TRUE]
                            /\ told' = [told EXCEPT ![c] = Append(told[c], exit_code[c] % 256)]
    BY <1>0, <1>8 DEF Wait4, ZombieChildren
  <2>3. reaped' \in [Procs -> BOOLEAN] /\ told' \in [Procs -> Seq(0 .. 255)]
    <3>1. \A c \in Procs : Append(told[c], exit_code[c] % 256) \in Seq(0 .. 255)
      <4>1. \A c \in Procs : exit_code[c] % 256 \in 0 .. 255 /\ told[c] \in Seq(0 .. 255)
        BY CodesAreBytes
      <4>2. \A s \in Seq(0 .. 255), x \in 0 .. 255 : Append(s, x) \in Seq(0 .. 255)
        OBVIOUS
      <4> QED
        BY <4>1, <4>2
    <3>2. CASE UNCHANGED <<reaped, told>>
      BY <3>2
    <3>3. ASSUME NEW c \in Procs, reaped' = [reaped EXCEPT ![c] = TRUE],
                 told' = [told EXCEPT ![c] = Append(told[c], exit_code[c] % 256)]
          PROVE  reaped' \in [Procs -> BOOLEAN] /\ told' \in [Procs -> Seq(0 .. 255)]
      <4> DEFINE x == Append(told[c], exit_code[c] % 256)
      <4>1. x \in Seq(0 .. 255) /\ told' = [told EXCEPT ![c] = x]
        BY <3>1, <3>3
      <4> HIDE DEF x
      <4> QED
        BY <3>3, <4>1
    <3> QED
      BY <2>2, <3>2, <3>3
  <2>4. wait' \in [Procs -> Waits] /\ again' \in [Procs -> Waits]
    <3>1. /\ UNCHANGED wait \/ wait' = [wait EXCEPT ![p] = OnChild(want)]
          /\ again' = [again EXCEPT ![p] = NoWait]
      BY <1>8 DEF Wait4
    <3> QED
      BY <1>0, <2>1, <3>1
  <2>5. ProcTypes'
    BY <1>8, <2>3, <2>4 DEF Wait4
  <2> QED
    BY <1>2, <1>8, <2>5 DEF Wait4, InSlice
<1>9. ASSUME NEW fd \in Fds, Read(p, fd) \/ Write(p, fd)
      PROVE  ProcTypes' /\ TurnTypes'
  <2> DEFINE i == files[p][fd].pipe
  <2>1. i \in Pipes
    <3>1. files[p] \in Table /\ files[p][fd] # NoEntry
      BY <1>0, <1>9 DEF Read, Write, Valid
    <3>2. files[p][fd] \in Entry \cup {NoEntry}
      BY <3>1 DEF Table
    <3> QED
      BY <3>1, <3>2 DEF Entry
  <2>2. buffer[i] \in 0 .. MaxBytes /\ MaxBytes \in Nat
    BY <2>1 DEF ProcessesAssumption
  <2> HIDE DEF i
  <2>3. buffer' \in [Pipes -> 0 .. MaxBytes]
    <3>1. CASE Read(p, fd)
      <4>1. \/ UNCHANGED buffer
            \/ \E n \in 1 .. buffer[i] : buffer' = [buffer EXCEPT ![i] = buffer[i] - n]
        BY <3>1 DEF Read, i
      <4>2. \A n \in 1 .. buffer[i] : buffer[i] - n \in 0 .. MaxBytes
        BY <2>2
      <4> QED
        BY <4>1, <4>2
    <3>2. CASE Write(p, fd)
      <4>1. buffer' = [buffer EXCEPT ![i] = buffer[i] + 1] /\ buffer[i] < MaxBytes
        BY <3>2 DEF Write, i
      <4>2. buffer[i] + 1 \in 0 .. MaxBytes
        BY <2>2, <4>1
      <4> QED
        BY <4>1, <4>2
    <3> QED
      BY <1>9, <3>1, <3>2
  <2>4. eof' \subseteq Pipes
    BY <1>9, <2>1 DEF Read, Write, i
  <2>5. wait' \in [Procs -> Waits] /\ again' \in [Procs -> Waits]
    <3>1. OnPipe(fd) \in Waits
      BY WaitTypes
    <3>2. /\ UNCHANGED wait \/ wait' = [wait EXCEPT ![p] = OnPipe(fd)]
          /\ UNCHANGED again \/ again' = [again EXCEPT ![p] = NoWait]
      BY <1>9 DEF Read, Write
    <3> QED
      BY <1>0, <3>1, <3>2
  <2>6. ProcTypes'
    BY <1>9, <2>3, <2>4, <2>5 DEF Read, Write
  <2> QED
    BY <1>2, <1>9, <2>6 DEF Read, Write, AtHome, InSlice
<1> QED
  BY <1>3, <1>4, <1>5, <1>6, <1>7, <1>8, <1>9 DEF Acts

LEMMA TypeStep ==
  ASSUME ProcessesAssumption, TypeOK, [Next]_vars
  PROVE  TypeOK'
<1>1. ProcTypes' /\ TurnTypes'
  <2>1. CASE Turns
    <3>1. Alive' = Alive /\ nprocs' = nprocs
      BY <2>1 DEF Turns, procVars, Alive, Made
    <3> QED
      BY <2>1, <3>1 DEF Turns, TypeOK, ProcTypes, TurnTypes, procVars, fileVars, history
  <2>2. ASSUME NEW p \in Alive, Ends(p)
        PROVE  ProcTypes' /\ TurnTypes'
    BY <2>2, EndsTypes
  <2>3. ASSUME NEW p \in Alive, Edits(p)
        PROVE  ProcTypes' /\ TurnTypes'
    <3>1. /\ UNCHANGED <<procVars, wait, again, old_files, buffer, history, loopVars>>
          /\ npipes' \in 0 .. NPipes /\ files' \in [Procs -> Table]
      BY <2>3, AliveFacts DEF Edits, TypeOK, ProcessesAssumption
    <3>2. Alive' = Alive
      BY <3>1 DEF procVars, Alive, Made
    <3> QED
      BY <3>1, <3>2 DEF TypeOK, ProcTypes, TurnTypes, procVars, history, loopVars
  <2>4. ASSUME NEW p \in Alive, Acts(p)
        PROVE  ProcTypes' /\ TurnTypes'
    BY <2>4, ActsTypes
  <2> QED
    BY <2>1, <2>2, <2>3, <2>4, NextCases
<1>2. /\ in_slice' \in BOOLEAN /\ progress' \in BOOLEAN
      /\ phase' \in {"run", "over", "deadlock", "crashed"}
  BY LoopTypes
<1> QED
  BY <1>1, <1>2 DEF ProcTypes, TurnTypes, TypeOK

-----------------------------------------------------------------------------
(* What the entries say of each other.                                     *)

LEMMA EntriesStep ==
  ASSUME ProcessesAssumption, TypeOK, EntriesInv, [Next]_vars
  PROVE  EntriesInv'
<1>1. nprocs \in Nat /\ Made \subseteq Procs /\ 1 \in Made /\ Root \in Procs
  BY DEF TypeOK, Procs, Made, Root, ProcessesAssumption
<1>2. CASE UNCHANGED <<nprocs, ppid, zombie, reaped, exec_done, exit_code, owned, replaced, told>>
  BY <1>2 DEF EntriesInv, Made
<1>3. ASSUME NEW p \in Alive, Ends(p)
      PROVE  EntriesInv'
  <2>1. p \in Made /\ p \in Procs /\ ~zombie[p]
    BY <1>3, AliveFacts
  <2>2. PICK code \in Codes : MakeZombie(p, code)
    BY <1>3 DEF Ends
  <2>3. /\ zombie' = [zombie EXCEPT ![p] = TRUE] /\ exit_code' = [exit_code EXCEPT ![p] = code]
        /\ UNCHANGED <<nprocs, ppid, reaped, exec_done, owned, replaced, told>>
    BY <1>3, <2>2 DEF MakeZombie, Ends, history
  <2>4. ~reaped[p]
    BY <2>1 DEF EntriesInv
  <2> QED
    BY <2>1, <2>3, <2>4 DEF EntriesInv, TypeOK, Made
<1>4. ASSUME NEW p \in Alive, Exec(p)
      PROVE  EntriesInv'
  <2>1. p \in Made /\ p \in Procs
    BY AliveFacts
  <2>2. /\ exec_done' = [exec_done EXCEPT ![p] = TRUE] /\ replaced' = replaced \cup {p}
        /\ owned' = [owned EXCEPT ![p] = TRUE]
        /\ UNCHANGED <<nprocs, ppid, zombie, reaped, exit_code, told>>
    BY <1>4 DEF Exec
  <2> QED
    BY <2>1, <2>2 DEF EntriesInv, TypeOK, Made
<1>5. ASSUME NEW p \in Alive, NEW vfork \in BOOLEAN, Fork(p, vfork)
      PROVE  EntriesInv'
  <2>1. p \in Made /\ p \in Procs
    BY AliveFacts
  <2>2. /\ nprocs' = nprocs + 1 /\ ppid' = [ppid EXCEPT ![nprocs + 1] = p]
        /\ UNCHANGED <<zombie, reaped, exec_done, exit_code, owned, replaced, told>>
    BY <1>5 DEF Fork
  <2>3. Made' = Made \cup {nprocs + 1} /\ nprocs + 1 \notin Made /\ nprocs + 1 # Root
    BY <1>1, <2>2 DEF Made, Root
  <2>4. nprocs + 1 \in Procs
    BY <1>1, <1>5 DEF Fork, Procs, ProcessesAssumption
  <2>5. ppid'[Root] = 0 /\ \A q \in Made' : q # Root => ppid'[q] \in Made'
    BY <1>1, <2>1, <2>2, <2>3, <2>4 DEF EntriesInv, TypeOK
  <2> QED
    BY <2>2, <2>3, <2>5 DEF EntriesInv
<1>6. ASSUME NEW p \in Alive, NEW want \in {-1} \cup Made, Wait4(p, want)
      PROVE  EntriesInv'
  <2>1. UNCHANGED <<nprocs, ppid, zombie, exec_done, exit_code, owned, replaced>>
    BY <1>6 DEF Wait4
  <2>2. CASE UNCHANGED <<reaped, told>>
    BY <1>2, <2>1, <2>2
  <2>3. ASSUME NEW c \in ZombieChildren(p, want), reaped' = [reaped EXCEPT ![c] = TRUE],
               told' = [told EXCEPT ![c] = Append(told[c], exit_code[c] % 256)]
        PROVE  EntriesInv'
    <3>1. c \in Made /\ c \in Procs /\ zombie[c] /\ ~reaped[c]
      BY <1>1 DEF ZombieChildren
    <3>2. told[c] = <<>>
      BY <3>1 DEF EntriesInv
    <3>3. told'[c] = <<exit_code[c] % 256>>
      BY <2>3, <3>1, <3>2 DEF TypeOK
    <3>4. \A q \in Procs : told'[q] = IF reaped'[q] THEN <<exit_code'[q] % 256>> ELSE <<>>
      <4>1. exit_code' = exit_code /\ reaped'[c]
        BY <2>1, <2>3, <3>1 DEF TypeOK
      <4>2. \A q \in Procs \ {c} : told'[q] = told[q] /\ (reaped'[q] <=> reaped[q])
        BY <2>3 DEF TypeOK
      <4>3. \A q \in Procs \ {c} :
               told'[q] = IF reaped'[q] THEN <<exit_code'[q] % 256>> ELSE <<>>
        BY <4>1, <4>2 DEF EntriesInv
      <4> QED
        BY <3>3, <4>1, <4>3
    <3>5. \A q \in Procs : reaped'[q] => zombie'[q]
      BY <2>1, <2>3, <3>1 DEF EntriesInv, TypeOK
    <3> QED
      BY <2>1, <3>4, <3>5 DEF EntriesInv, Made
  <2> QED
    BY <1>6, <2>2, <2>3 DEF Wait4
<1>7. CASE Turns
  BY <1>2, <1>7 DEF Turns, procVars, history
<1>8. ASSUME NEW p \in Alive, Edits(p)
      PROVE  EntriesInv'
  BY <1>2, <1>8 DEF Edits, procVars, history
<1>9. ASSUME NEW p \in Alive, Acts(p)
      PROVE  EntriesInv'
  <2>1. CASE ExecFails(p) \/ StartSlice(p) \/ Execve(p) \/ \E fd \in Fds : Read(p, fd) \/ Write(p, fd)
    BY <1>2, <2>1 DEF ExecFails, StartSlice, Execve, Read, Write, procVars, history
  <2> QED
    BY <1>4, <1>5, <1>6, <1>9, <2>1 DEF Acts
<1> QED
  BY <1>3, <1>7, <1>8, <1>9, NextCases

-----------------------------------------------------------------------------
(* Who waits for what.                                                     *)

\* What a process that called vfork waits for.
VforkClause(c) == \/ zombie[c] \/ c \in replaced \/ zombie[ppid[c]]
                  \/ wait[ppid[c]] = OnVfork(c)

LEMMA WaitsStep ==
  ASSUME ProcessesAssumption, TypeOK, EntriesInv, WaitsInv, [Next]_vars
  PROVE  WaitsInv'
<1>1. /\ nprocs \in Nat /\ Made \subseteq Procs /\ Root \in Procs /\ Root \in Made
      /\ request \in [Procs -> BOOLEAN] /\ wait \in [Procs -> Waits]
      /\ zombie \in [Procs -> BOOLEAN] /\ ppid \in [Procs -> Procs \cup {0}]
  BY DEF TypeOK, Procs, Made, Root, ProcessesAssumption
<1>2. \A c \in by_vfork : /\ c \in Made \ {Root} /\ c \in Procs
                          /\ ppid[c] \in Made /\ ppid[c] \in Procs /\ VforkClause(c)
  BY <1>1 DEF WaitsInv, EntriesInv, VforkClause
<1>3. OnExec # NoWait
  BY WaitTypes
\* Only what another process than p waits for has to be as before.
<1>4. ASSUME NEW p \in Procs, UNCHANGED <<nprocs, ppid, by_vfork>>, replaced \subseteq replaced',
             zombie' = zombie \/ zombie' = [zombie EXCEPT ![p] = TRUE],
             \A q \in Procs \ {p} : wait'[q] = wait[q],
             \A c \in by_vfork : ppid[c] = p => VforkClause(c)'
      PROVE  \A c \in by_vfork' : c \in (Made \ {Root})' /\ VforkClause(c)'
  <2>1. Made' = Made
    BY <1>4 DEF Made
  <2> QED
    BY <1>1, <1>2, <1>4, <2>1 DEF VforkClause
<1>5. CASE UNCHANGED <<nprocs, ppid, by_vfork, zombie, request, wait, replaced>>
           /\ (in_slice' => wait[turn'] = NoWait)
  BY <1>5 DEF WaitsInv, Made
<1>6. ASSUME NEW p \in Alive, Ends(p)
      PROVE  WaitsInv'
  <2>1. p \in Made /\ p \in Procs /\ ~zombie[p]
    BY <1>6, AliveFacts
  <2>2. /\ zombie' = [zombie EXCEPT ![p] = TRUE] /\ wait' = [wait EXCEPT ![p] = NoWait]
        /\ request' = [request EXCEPT ![p] = FALSE]
        /\ UNCHANGED <<nprocs, ppid, replaced, by_vfork>>
    BY <1>6 DEF MakeZombie, Ends, history
  <2>3. \A q \in Procs : request'[q] <=> wait'[q] = OnExec
    BY <1>1, <1>3, <2>1, <2>2 DEF WaitsInv
  <2>4. in_slice' => wait'[turn'] = NoWait
    <3>1. in_slice => turn \in Procs /\ wait[turn] = NoWait
      BY <1>1 DEF WaitsInv, TypeOK, Alive
    <3>2. in_slice' => p # turn /\ UNCHANGED <<turn, in_slice>>
      BY <1>6 DEF Ends
    <3> QED
      BY <1>1, <2>1, <2>2, <3>1, <3>2
  <2>5. \A c \in by_vfork : ppid[c] = p => VforkClause(c)'
    BY <1>1, <2>1, <2>2 DEF VforkClause
  <2>6. \A c \in by_vfork' : c \in (Made \ {Root})' /\ VforkClause(c)'
    BY <1>1, <1>4, <2>1, <2>2, <2>5
  <2> QED
    BY <2>3, <2>4, <2>6 DEF WaitsInv, VforkClause
<1>7. ASSUME NEW p \in Alive, ExecFails(p) \/ Exec(p)
      PROVE  WaitsInv'
  <2>1. p \in Made /\ p \in Procs /\ ~zombie[p]
    BY AliveFacts
  <2>2. /\ request[p] /\ wait' = [wait EXCEPT ![p] = NoWait]
        /\ request' = [request EXCEPT ![p] = FALSE] /\ ~in_slice' /\ replaced \subseteq replaced'
        /\ UNCHANGED <<nprocs, ppid, by_vfork, zombie>>
    BY <1>7 DEF ExecFails, Exec, NextTurn, history
  <2>3. \A q \in Procs : request'[q] <=> wait'[q] = OnExec
    BY <1>1, <1>3, <2>1, <2>2 DEF WaitsInv
  <2>4. \A c \in by_vfork : ppid[c] = p => VforkClause(c)'
    <3>1. wait[p] = OnExec
      BY <2>1, <2>2 DEF WaitsInv
    <3>2. \A c \in by_vfork : OnVfork(c) # OnExec
      BY <1>2, WaitTypes
    <3> QED
      BY <1>2, <2>2, <3>1, <3>2 DEF VforkClause
  <2>5. \A c \in by_vfork' : c \in (Made \ {Root})' /\ VforkClause(c)'
    BY <1>1, <1>4, <2>1, <2>2, <2>4
  <2> QED
    BY <2>2, <2>3, <2>5 DEF WaitsInv, VforkClause
<1>8. ASSUME NEW p \in Alive, StartSlice(p)
      PROVE  WaitsInv'
  <2>1. p \in Made /\ p \in Procs /\ ~zombie[p]
    BY AliveFacts
  <2>2. /\ turn' = p /\ wait' = [wait EXCEPT ![p] = NoWait] /\ Predicate(p)
        /\ UNCHANGED <<nprocs, ppid, by_vfork, zombie, request, replaced>> /\ ~request[p]
    BY <1>8 DEF StartSlice, Visits, procVars, history
  <2>3. \A q \in Procs : request'[q] <=> wait'[q] = OnExec
    BY <1>1, <1>3, <2>1, <2>2 DEF WaitsInv
  <2>4. ASSUME NEW c \in by_vfork, ppid[c] = p
        PROVE  VforkClause(c)'
    <3>1. CASE wait[p] = OnVfork(c)
      <4>1. wait[p].on = "vfork" /\ wait[p].child = c
        BY <3>1 DEF OnVfork
      <4>2. ExecDoneOrZombie(c)
        BY <2>2, <4>1 DEF Predicate
      <4>3. zombie[c] \/ c \in replaced
        BY <1>2, <4>2 DEF ExecDoneOrZombie, EntriesInv
      <4> QED
        BY <2>2, <4>3 DEF VforkClause
    <3>2. CASE wait[p] # OnVfork(c)
      BY <1>2, <2>2, <2>4, <3>2 DEF VforkClause
    <3> QED
      BY <3>1, <3>2
  <2>5. \A c \in by_vfork' : c \in (Made \ {Root})' /\ VforkClause(c)'
    BY <1>1, <1>4, <2>1, <2>2, <2>4
  <2>6. wait'[turn'] = NoWait
    BY <1>1, <2>1, <2>2
  <2> QED
    BY <2>3, <2>5, <2>6 DEF WaitsInv, VforkClause
\* A process that runs and then blocks, on anything but a child made by vfork.
<1>9. ASSUME NEW p \in Alive, in_slice, turn = p, NEW w \in Waits,
             wait' = [wait EXCEPT ![p] = w], ~in_slice',
             request' = [request EXCEPT ![p] = (w = OnExec)],
             UNCHANGED <<nprocs, ppid, by_vfork, zombie, replaced>>
      PROVE  WaitsInv'
  <2>1. p \in Made /\ p \in Procs /\ ~zombie[p] /\ wait[p] = NoWait
    BY <1>9, AliveFacts DEF WaitsInv
  <2>2. \A q \in Procs : request'[q] <=> wait'[q] = OnExec
    BY <1>1, <1>9, <2>1 DEF WaitsInv
  <2>3. \A c \in by_vfork : ppid[c] = p => VforkClause(c)'
    <3>1. \A c \in by_vfork : OnVfork(c) # NoWait
      BY <1>2, WaitTypes
    <3> QED
      BY <1>2, <1>9, <2>1, <3>1 DEF VforkClause
  <2>4. \A c \in by_vfork' : c \in (Made \ {Root})' /\ VforkClause(c)'
    BY <1>1, <1>4, <1>9, <2>1, <2>3
  <2> QED
    BY <1>9, <2>2, <2>4 DEF WaitsInv, VforkClause
<1>10. ASSUME NEW p \in Alive, NEW vfork \in BOOLEAN, Fork(p, vfork)
       PROVE  WaitsInv'
  <2> DEFINE c == nprocs + 1
  <2>1. /\ p \in Made /\ p \in Procs /\ ~zombie[p] /\ turn = p /\ wait[p] = NoWait
    BY <1>10, AliveFacts DEF Fork, AtHome, InSlice, WaitsInv
  <2>2. c \in Procs /\ c \notin Made /\ c # Root /\ nprocs' = c /\ Made' = Made \cup {c}
    BY <1>1, <1>10 DEF Fork, Procs, Made, Root, ProcessesAssumption
  <2> HIDE DEF c
  <2>3. /\ ppid' = [ppid EXCEPT ![c] = p]
        /\ UNCHANGED <<zombie, replaced, request>>
    BY <1>10 DEF Fork, c
  <2>4. \/ /\ wait' = [wait EXCEPT ![p] = OnVfork(c)]
           /\ by_vfork' = by_vfork \cup {c} /\ ~in_slice'
        \/ UNCHANGED <<wait, by_vfork, turn>>
    BY <1>10 DEF Fork, NextTurn, Goes_on, loopVars, c
  <2>5. OnVfork(c) # OnExec /\ OnVfork(c) \in Waits
    BY <2>2, WaitTypes
  <2>6. \A q \in Procs : request'[q] <=> wait'[q] = OnExec
    BY <1>1, <1>3, <2>1, <2>3, <2>4, <2>5 DEF WaitsInv
  <2>7. in_slice' => wait'[turn'] = NoWait
    BY <2>1, <2>4
  <2>8. ASSUME NEW d \in by_vfork
        PROVE  d \in (Made \ {Root})' /\ VforkClause(d)'
    <3>1. ppid'[d] = ppid[d] /\ d \in Made' \ {Root} /\ OnVfork(d) # NoWait
      BY <1>1, <1>2, <2>2, <2>3, WaitTypes
    <3>2. wait[ppid[d]] = OnVfork(d) => wait'[ppid[d]] = OnVfork(d)
      BY <1>1, <1>2, <2>1, <2>4, <3>1
    <3> QED
      BY <1>2, <2>3, <3>1, <3>2 DEF VforkClause
  <2>9. ASSUME NEW d \in by_vfork', d \notin by_vfork
        PROVE  d \in (Made \ {Root})' /\ VforkClause(d)'
    <3>1. d = c /\ wait' = [wait EXCEPT ![p] = OnVfork(c)]
      BY <2>4, <2>9
    <3>2. ppid'[d] = p /\ wait'[p] = OnVfork(d)
      BY <1>1, <2>1, <2>2, <2>3, <3>1
    <3> QED
      BY <2>2, <3>1, <3>2 DEF VforkClause
  <2> QED
    BY <2>6, <2>7, <2>8, <2>9 DEF WaitsInv, VforkClause
<1>11. ASSUME NEW p \in Alive, Execve(p)
       PROVE  WaitsInv'
  BY <1>9, <1>11, WaitTypes DEF Execve, AtHome, InSlice, NextTurn, history
<1>12. ASSUME NEW p \in Alive, NEW want \in {-1} \cup Made, Wait4(p, want)
       PROVE  WaitsInv'
  <2>1. /\ in_slice /\ turn = p /\ OnChild(want) \in Waits /\ OnChild(want) # OnExec
        /\ UNCHANGED <<nprocs, ppid, by_vfork, zombie, request, replaced>>
    BY <1>1, <1>12, WaitTypes DEF Wait4, InSlice
  <2>2. \/ UNCHANGED <<wait, turn>>
        \/ wait' = [wait EXCEPT ![p] = OnChild(want)] /\ ~in_slice'
    BY <1>12 DEF Wait4, NextTurn, Goes_on, loopVars
  <2>3. request[p] <=> FALSE
    BY <1>3, <2>1, AliveFacts DEF WaitsInv
  <2>4. request' = [request EXCEPT ![p] = FALSE]
    BY <1>1, <2>1, <2>3
  <2> QED
    BY <1>5, <1>9, <2>1, <2>2, <2>4 DEF WaitsInv
<1>13. ASSUME NEW p \in Alive, NEW fd \in Fds, Read(p, fd) \/ Write(p, fd)
       PROVE  WaitsInv'
  <2>1. /\ in_slice /\ turn = p /\ OnPipe(fd) \in Waits /\ OnPipe(fd) # OnExec
        /\ UNCHANGED <<nprocs, ppid, by_vfork, zombie, request, replaced>>
    BY <1>13, WaitTypes DEF Read, Write, AtHome, InSlice, procVars, history
  <2>2. \/ UNCHANGED <<wait, turn>>
        \/ wait' = [wait EXCEPT ![p] = OnPipe(fd)] /\ ~in_slice'
    BY <1>13 DEF Read, Write, NextTurn, Goes_on, loopVars
  <2>3. request[p] <=> FALSE
    BY <1>3, <2>1, AliveFacts DEF WaitsInv
  <2>4. request' = [request EXCEPT ![p] = FALSE]
    BY <1>1, <2>1, <2>3
  <2> QED
    BY <1>5, <1>9, <2>1, <2>2, <2>4 DEF WaitsInv
<1>14. CASE Turns
  BY <1>5, <1>14 DEF Turns, procVars, history, WaitsInv
<1>15. ASSUME NEW p \in Alive, Edits(p)
       PROVE  WaitsInv'
  BY <1>5, <1>15 DEF Edits, procVars, history, loopVars, WaitsInv
<1> QED
  BY <1>6, <1>7, <1>8, <1>10, <1>11, <1>12, <1>13, <1>14, <1>15, NextCases DEF Acts

-----------------------------------------------------------------------------
(* Tables and pipes.                                                       *)

\* What can be referred to after a step could be before, but for a pipe just made.
From(entry) ==
    \/ entry.pipe = 0
    \/ entry.pipe = npipes + 1 /\ npipes' = npipes + 1
    \/ \E p \in Made, fd \in Fds : /\ files[p][fd].pipe = entry.pipe
                                   /\ files[p][fd].writer = entry.writer
    \/ \E fd \in Fds : old_files[fd].pipe = entry.pipe /\ old_files[fd].writer = entry.writer

LEMMA ReferencesKept ==
  ASSUME ProcessesAssumption, TypeOK, FilesInv, npipes' \in {npipes, npipes + 1},
         \A p \in Made', fd \in Fds : From(files'[p][fd]),
         \A fd \in Fds : From(old_files'[fd]),
         eof' \subseteq 1 .. npipes, \A i \in eof' : ~Open(i, TRUE),
         ZombieHoldsNothing'
  PROVE  FilesInv'
<1>1. npipes \in Nat /\ npipes' \in Nat /\ npipes <= npipes'
  BY DEF TypeOK, ProcessesAssumption
<1>2. \A entry : From(entry) => entry.pipe <= npipes'
  <2>1. \A entry \in Entry \cup {NoEntry} : entry.pipe \in Nat
    BY DEF Entry, NoEntry, Pipes
  <2>2. /\ \A p \in Made, fd \in Fds : files[p][fd].pipe \in Nat
        /\ \A fd \in Fds : old_files[fd].pipe \in Nat
    BY <2>1 DEF TypeOK, Table, Made, Procs, ProcessesAssumption
  <2> QED
    BY <1>1, <2>2 DEF From, FilesInv
<1>3. \A i \in 1 .. npipes : Open(i, TRUE)' => Open(i, TRUE)
  <2>1. ASSUME NEW i \in 1 .. npipes, NEW entry, From(entry), entry.pipe = i, entry.writer = TRUE
        PROVE  Open(i, TRUE)
    BY <1>1, <2>1 DEF From, Open, Refers
  <2>2. ASSUME NEW i \in 1 .. npipes, Open(i, TRUE)'
        PROVE  Open(i, TRUE)
    <3>1. \/ \E p \in Made', fd \in Fds : files'[p][fd].pipe = i /\ files'[p][fd].writer = TRUE
          \/ \E fd \in Fds : old_files'[fd].pipe = i /\ old_files'[fd].writer = TRUE
      BY <2>2 DEF Open, Refers
    <3> QED
      BY <2>1, <3>1
  <2> QED
    BY <2>2
<1>4. EofIsFinal' /\ eof' \subseteq 1 .. npipes'
  <2>1. 1 .. npipes \subseteq 1 .. npipes'
    BY <1>1
  <2>2. \A i \in eof' : ~Open(i, TRUE)'
    BY <1>3
  <2> QED
    BY <2>1, <2>2 DEF EofIsFinal
<1> QED
  BY <1>2, <1>4 DEF FilesInv

LEMMA FilesStep ==
  ASSUME ProcessesAssumption, TypeOK, EntriesInv, FilesInv, [Next]_vars
  PROVE  FilesInv'
<1>1. /\ nprocs \in Nat /\ Made \subseteq Procs /\ npipes \in Nat
      /\ files \in [Procs -> Table] /\ zombie \in [Procs -> BOOLEAN]
  BY DEF TypeOK, Procs, Made, ProcessesAssumption
<1>2. /\ \A p \in Made, fd \in Fds : From(files[p][fd])
      /\ \A fd \in Fds : From(old_files[fd])
  BY DEF From
<1>3. ASSUME UNCHANGED <<nprocs, zombie, files, old_files, npipes>>,
             eof' \subseteq 1 .. npipes, \A i \in eof' : ~Open(i, TRUE)
      PROVE  FilesInv'
  <2>1. ZombieHoldsNothing' /\ Made' = Made
    BY <1>3 DEF FilesInv, ZombieHoldsNothing, Made
  <2> QED
    BY <1>2, <1>3, <2>1, ReferencesKept
<1>4. ASSUME UNCHANGED <<nprocs, zombie, files, old_files, npipes, eof>>
      PROVE  FilesInv'
  <2>1. eof' \subseteq 1 .. npipes /\ \A i \in eof' : ~Open(i, TRUE)
    BY <1>4 DEF FilesInv, EofIsFinal
  <2> QED
    BY <1>3, <1>4, <2>1
<1>5. ASSUME NEW p \in Alive, Ends(p)
      PROVE  FilesInv'
  <2>1. p \in Made /\ p \in Procs /\ ~zombie[p]
    BY AliveFacts
  <2>2. /\ zombie' = [zombie EXCEPT ![p] = TRUE] /\ Released(p)
        /\ UNCHANGED <<nprocs, old_files, npipes, eof>>
    BY <1>5 DEF MakeZombie, Ends, history
  <2>3. files' = files \/ files' = [files EXCEPT ![p] = EmptyTable]
    BY <2>2 DEF Released
  <2>4. p # Root => files'[p] = EmptyTable
    BY <1>1, <2>1, <2>2 DEF Released, EntriesInv
  <2>5. \A q \in Made \ {p} : files'[q] = files[q] /\ zombie'[q] = zombie[q]
    BY <1>1, <2>2, <2>3
  <2>6. Made' = Made
    BY <2>2 DEF Made
  <2>7. ZombieHoldsNothing'
    BY <2>4, <2>5, <2>6 DEF ZombieHoldsNothing, FilesInv
  <2>8. ASSUME NEW q \in Made', NEW fd \in Fds
        PROVE  From(files'[q][fd])
    <3>1. files'[q] = files[q] \/ files'[q] = EmptyTable
      BY <1>1, <2>1, <2>3, <2>6
    <3>2. files'[q] = EmptyTable => files'[q][fd].pipe = 0
      BY DEF EmptyTable, NoEntry
    <3> QED
      BY <1>2, <2>6, <3>1, <3>2 DEF From
  <2>9. eof' \subseteq 1 .. npipes /\ \A i \in eof' : ~Open(i, TRUE)
    BY <2>2 DEF FilesInv, EofIsFinal
  <2> QED
    BY <1>2, <2>2, <2>7, <2>8, <2>9, ReferencesKept
<1>6. ASSUME NEW p \in Alive, Edits(p)
      PROVE  FilesInv'
  <2>1. p \in Made /\ p \in Procs /\ ~zombie[p]
    BY AliveFacts
  <2>2. /\ UNCHANGED <<nprocs, zombie, old_files, eof>> /\ npipes' \in {npipes, npipes + 1}
        /\ Made' = Made
    BY <1>6 DEF Edits, procVars, history, Made
  <2>3. PICK table \in Table :
          /\ files' = [files EXCEPT ![p] = table]
          /\ \A fd \in Fds :
                \/ table[fd].pipe = npipes + 1 /\ npipes' = npipes + 1
                \/ table[fd].pipe = 0
                \/ \E old \in Fds : /\ files[p][old].pipe = table[fd].pipe
                                    /\ files[p][old].writer = table[fd].writer
    BY <1>6 DEF Edits
  <2>4. \A fd \in Fds : From(table[fd])
    BY <2>1, <2>3 DEF From
  <2>5. \A q \in Made \ {p} : files'[q] = files[q]
    BY <1>1, <2>3
  <2>6. files'[p] = table
    BY <1>1, <2>1, <2>3
  <2>7. ZombieHoldsNothing'
    BY <2>1, <2>2, <2>5 DEF ZombieHoldsNothing, FilesInv
  <2>8. \A q \in Made', fd \in Fds : From(files'[q][fd])
    BY <1>2, <2>2, <2>4, <2>5, <2>6
  <2>9. eof' \subseteq 1 .. npipes /\ \A i \in eof' : ~Open(i, TRUE)
    BY <2>2 DEF FilesInv, EofIsFinal
  <2> QED
    BY <1>2, <2>2, <2>7, <2>8, <2>9, ReferencesKept
<1>7. ASSUME NEW p \in Alive, Exec(p)
      PROVE  FilesInv'
  <2> DEFINE table == [fd \in Fds |-> IF files[p][fd].cloexec THEN NoEntry ELSE files[p][fd]]
  <2>1. p \in Made /\ p \in Procs /\ ~zombie[p]
    BY AliveFacts
  <2>2. /\ UNCHANGED <<nprocs, zombie, npipes, eof>> /\ Made' = Made
        /\ files' = [files EXCEPT ![p] = table]
        /\ old_files' = old_files \/ old_files' = files[p]
    BY <1>7 DEF Exec, Made
  <2>3. \A fd \in Fds : From(table[fd])
    <3>1. \A fd \in Fds : table[fd].pipe = 0 \/ table[fd] = files[p][fd]
      BY DEF NoEntry
    <3> QED
      BY <1>2, <2>1, <3>1 DEF From
  <2> HIDE DEF table
  <2>4. \A q \in Made \ {p} : files'[q] = files[q]
    BY <1>1, <2>2
  <2>5. files'[p] = table
    BY <1>1, <2>1, <2>2
  <2>6. ZombieHoldsNothing'
    BY <2>1, <2>2, <2>4 DEF ZombieHoldsNothing, FilesInv
  <2>7. \A q \in Made', fd \in Fds : From(files'[q][fd])
    BY <1>2, <2>2, <2>3, <2>4, <2>5
  <2>8. \A fd \in Fds : From(old_files'[fd])
    BY <1>2, <2>1, <2>2
  <2>9. eof' \subseteq 1 .. npipes /\ \A i \in eof' : ~Open(i, TRUE)
    BY <2>2 DEF FilesInv, EofIsFinal
  <2> QED
    BY <2>2, <2>6, <2>7, <2>8, <2>9, ReferencesKept
<1>8. ASSUME NEW p \in Alive, NEW vfork \in BOOLEAN, Fork(p, vfork)
      PROVE  FilesInv'
  <2> DEFINE c == nprocs + 1
  <2>1. p \in Made /\ p \in Procs
    BY AliveFacts
  <2>2. /\ c \notin Made /\ Made' = Made \cup {c} /\ c \in Procs
        /\ files' = [files EXCEPT ![c] = files[p]]
        /\ UNCHANGED <<zombie, old_files, npipes, eof>>
    BY <1>1, <1>8 DEF Fork, Made, Procs, ProcessesAssumption
  <2> HIDE DEF c
  <2>3. files'[c] = files[p] /\ \A q \in Made : files'[q] = files[q]
    BY <1>1, <2>2
  <2>4. ~zombie[c]
    BY <2>2 DEF EntriesInv
  <2>5. ZombieHoldsNothing'
    BY <2>2, <2>3, <2>4 DEF ZombieHoldsNothing, FilesInv
  <2>6. \A q \in Made', fd \in Fds : From(files'[q][fd])
    BY <1>2, <2>1, <2>2, <2>3
  <2>7. eof' \subseteq 1 .. npipes /\ \A i \in eof' : ~Open(i, TRUE)
    BY <2>2 DEF FilesInv, EofIsFinal
  <2> QED
    BY <1>2, <2>2, <2>5, <2>6, <2>7, ReferencesKept
<1>9. ASSUME NEW p \in Alive, NEW fd \in Fds, Read(p, fd)
      PROVE  FilesInv'
  <2> DEFINE i == files[p][fd].pipe
  <2>1. p \in Made /\ p \in Procs
    BY AliveFacts
  <2>2. UNCHANGED <<nprocs, zombie, files, old_files, npipes>> /\ files[p][fd] # NoEntry
    BY <1>9 DEF Read, procVars, Valid
  <2>3. eof' = eof \/ (eof' = eof \cup {i} /\ ~Open(i, TRUE))
    BY <1>9 DEF Read, AtEof
  <2>4. i \in 1 .. npipes
    <3>1. files[p][fd] \in Entry
      BY <1>1, <2>1, <2>2 DEF Table
    <3>2. i \in Pipes /\ i <= npipes
      BY <2>1, <3>1 DEF Entry, FilesInv
    <3> QED
      BY <1>1, <3>2 DEF Pipes
  <2>5. CASE eof' = eof
    BY <1>4, <2>2, <2>5
  <2>6. CASE eof' = eof \cup {i} /\ ~Open(i, TRUE)
    <3>1. eof' \subseteq 1 .. npipes /\ \A j \in eof' : ~Open(j, TRUE)
      BY <2>4, <2>6 DEF FilesInv, EofIsFinal
    <3> QED
      BY <1>3, <2>2, <2>6, <3>1
  <2> QED
    BY <2>3, <2>5, <2>6
<1>10. ASSUME NEW p \in Alive, Acts(p)
       PROVE  FilesInv'
  <2>1. CASE \/ ExecFails(p) \/ StartSlice(p) \/ Execve(p)
             \/ \E want \in {-1} \cup Made : Wait4(p, want)
             \/ \E fd \in Fds : Write(p, fd)
    BY <1>4, <2>1 DEF ExecFails, StartSlice, Execve, Wait4, Write, procVars, fileVars, history
  <2> QED
    BY <1>7, <1>8, <1>9, <1>10, <2>1 DEF Acts
<1>11. CASE Turns
  BY <1>4, <1>11 DEF Turns, procVars, fileVars, history
<1> QED
  BY <1>5, <1>6, <1>10, <1>11, NextCases

-----------------------------------------------------------------------------
(* The rounds of the loop.                                                 *)

LEMMA StuckSame ==
  ASSUME UNCHANGED <<procVars, wait, again, fileVars, history>>
  PROVE  Alive' = Alive /\ Made' = Made /\ (zombie' = zombie) /\ \A p : Stuck(p)' <=> Stuck(p)
<1>1. /\ UNCHANGED <<nprocs, ppid, zombie, reaped, exec_done, request, wait>>
      /\ UNCHANGED <<files, old_files, buffer>>
  BY DEF procVars, fileVars
<1>2. Alive' = Alive /\ Made' = Made
  BY <1>1 DEF Alive, Made
<1>3. \A p, want : ZombieChildren(p, want)' = ZombieChildren(p, want)
  BY <1>1, <1>2 DEF ZombieChildren
<1>4. \A p : HasChildren(p)' <=> HasChildren(p)
  BY <1>1, <1>2 DEF HasChildren
<1>5. \A i, w : Open(i, w)' <=> Open(i, w)
  BY <1>1, <1>2 DEF Open, Refers
<1>6. \A c : ExecDoneOrZombie(c)' <=> ExecDoneOrZombie(c)
  BY <1>1 DEF ExecDoneOrZombie
<1>7. ASSUME NEW p
      PROVE  Predicate(p)' <=> Predicate(p)
  BY <1>1, <1>3, <1>4, <1>5, <1>6 DEF Predicate
<1> QED
  BY <1>1, <1>2, <1>7 DEF Stuck

LEMMA RoundStep ==
  ASSUME ProcessesAssumption, TypeOK, RoundInv, [Next]_vars
  PROVE  RoundInv'
<1>1. CASE Busy
  BY <1>1 DEF Busy, RoundInv
<1>2. CASE Turns /\ Passes
  <2>1. /\ Alive' = Alive /\ zombie' = zombie
        /\ \A p : Stuck(p)' <=> Stuck(p)
    BY <1>2, StuckSame DEF Turns
  <2>2. nprocs \in Nat /\ \A p \in Alive : p \in 1 .. nprocs
    BY DEF TypeOK, Procs, Alive, Made
  <2>3. CASE UNCHANGED vars
    BY <2>1, <2>3 DEF vars, loopVars, RoundInv
  <2>4. ASSUME NEW p \in Procs, SkipZombie(p) \/ IdleSlice(p)
        PROVE  RoundInv'
    <3>1. /\ phase = "run" /\ phase' = "run" /\ ~in_slice /\ turn = p /\ turn' = p + 1
          /\ progress' = progress /\ p \in 1 .. nprocs
      BY <2>4 DEF SkipZombie, IdleSlice, Visits, NextTurn, Made, TypeOK
    <3>2. p \in Alive => Stuck(p)
      BY <2>4 DEF SkipZombie, IdleSlice, Stuck, Alive
    <3>3. ~progress => \A q \in Alive : q < p + 1 => Stuck(q)
      BY <2>2, <3>1, <3>2 DEF RoundInv
    <3> QED
      BY <2>1, <3>1, <3>3 DEF RoundInv
  <2>5. CASE EndRound
    <3>1. turn = nprocs + 1 /\ phase = "run" /\ ~in_slice
      BY <2>2, <2>5 DEF EndRound, TypeOK
    <3>2. CASE zombie[Root]
      BY <2>5, <3>2 DEF EndRound, RoundInv
    <3>3. CASE ~zombie[Root] /\ progress
      <4>1. turn' = 1 /\ phase' = "run"
        BY <2>5, <3>1, <3>3 DEF EndRound
      <4> QED
        BY <2>1, <2>2, <4>1 DEF RoundInv
    <3>4. CASE ~zombie[Root] /\ ~progress
      <4>1. phase' = "deadlock" /\ in_slice' = in_slice
        BY <2>5, <3>4 DEF EndRound
      <4>2. \A p \in Alive : Stuck(p)
        BY <2>2, <3>1, <3>4 DEF RoundInv
      <4> QED
        BY <2>1, <3>1, <3>4, <4>1, <4>2 DEF RoundInv
    <3> QED
      BY <3>2, <3>3, <3>4
  <2> QED
    BY <1>2, <2>3, <2>4, <2>5 DEF Passes
<1> QED
  BY <1>1, <1>2, NextCases

-----------------------------------------------------------------------------
(* A root that never calls execve. *)
LEMMA RootStep ==
  ASSUME ProcessesAssumption, TypeOK, EntriesInv, ~RootExecs, RootStays, [Next]_vars
  PROVE  RootStays'
<1>1. /\ Root \in Procs
      /\ owned \in [Procs -> BOOLEAN] /\ request \in [Procs -> BOOLEAN]
  BY DEF TypeOK, Procs, Root, ProcessesAssumption
<1>2. CASE UNCHANGED <<owned, request, old_files>>
  BY <1>2 DEF RootStays
<1>3. ASSUME NEW p \in Alive, Ends(p)
      PROVE  RootStays'
  <2>1. p \in Procs /\ request' = [request EXCEPT ![p] = FALSE] /\ UNCHANGED <<owned, old_files>>
    BY <1>3, AliveFacts DEF Ends, MakeZombie
  <2> QED
    BY <1>1, <2>1 DEF RootStays
<1>4. ASSUME NEW p \in Alive, ExecFails(p) \/ Exec(p) \/ Execve(p)
      PROVE  RootStays'
  <2>1. p \in Procs /\ p # Root
    BY <1>4, AliveFacts DEF ExecFails, Exec, Execve, RootStays
  <2>2. owned[p] /\ owned'[Root] = owned[Root] /\ request'[Root] = request[Root]
    BY <1>1, <1>4, <2>1 DEF ExecFails, Exec, Execve, EntriesInv
  <2>3. UNCHANGED old_files
    BY <1>4, <2>2 DEF ExecFails, Exec, Execve, fileVars
  <2> QED
    BY <1>1, <2>2, <2>3 DEF RootStays
<1>5. ASSUME NEW p \in Alive, Acts(p)
      PROVE  RootStays'
  BY <1>2, <1>4, <1>5 DEF Acts, StartSlice, Fork, Wait4, Read, Write, procVars, fileVars
<1>6. ASSUME NEW p \in Alive, Edits(p)
      PROVE  RootStays'
  BY <1>2, <1>6 DEF Edits, procVars
<1>7. CASE Turns
  BY <1>2, <1>7 DEF Turns, procVars, fileVars
<1> QED
  BY <1>3, <1>5, <1>6, <1>7, NextCases

-----------------------------------------------------------------------------
(* The invariant.                                                          *)

LEMMA InitInv ==
  ASSUME ProcessesAssumption, Init
  PROVE  ProcInv
<1>1. /\ Root \in Procs /\ 1 \in Procs /\ 0 \in Nat /\ 0 \in 0 .. NPipes /\ 0 \in 0 .. MaxBytes
      /\ Made = {1} /\ MaxProcs \in Nat
  BY DEF Init, Made, Root, Procs, ProcessesAssumption
<1>2. TypeOK
  <2>1. NoWait \in Waits /\ 0 \in Codes /\ EmptyTable \in Table /\ <<>> \in Seq(0 .. 255)
    BY WaitTypes, EmptyTableType DEF Codes
  <2>3. /\ nprocs \in Procs /\ turn \in 1 .. nprocs + 1 /\ npipes \in 0 .. NPipes
        /\ phase = "run"
    BY <1>1 DEF Init
  <2>7. ~in_slice /\ in_slice \in BOOLEAN /\ progress \in BOOLEAN
    BY DEF Init
  <2>4. /\ ppid \in [Procs -> Procs \cup {0}]
        /\ zombie \in [Procs -> BOOLEAN] /\ reaped \in [Procs -> BOOLEAN]
        /\ exec_done \in [Procs -> BOOLEAN] /\ request \in [Procs -> BOOLEAN]
        /\ owned \in [Procs -> BOOLEAN]
    BY DEF Init
  <2>5. /\ exit_code \in [Procs -> Codes] /\ told \in [Procs -> Seq(0 .. 255)]
        /\ wait \in [Procs -> Waits] /\ again \in [Procs -> Waits]
    BY <2>1 DEF Init
  <2>6. /\ files \in [Procs -> Table] /\ old_files \in Table
        /\ buffer \in [Pipes -> 0 .. MaxBytes]
        /\ by_vfork \subseteq Procs /\ replaced \subseteq Procs /\ eof \subseteq Pipes
    BY <1>1, <2>1 DEF Init
  <2> QED
    BY <2>3, <2>4, <2>5, <2>6, <2>7 DEF TypeOK
<1>3. EntriesInv
  BY <1>1 DEF Init, EntriesInv, Root
<1>4. WaitsInv
  BY WaitTypes DEF Init, WaitsInv
<1>5. FilesInv
  <2>1. \A fd \in Fds : EmptyTable[fd].pipe = 0
    BY DEF EmptyTable, NoEntry
  <2> QED
    BY <1>1, <2>1 DEF Init, FilesInv, EofIsFinal, ZombieHoldsNothing
<1>6. RoundInv
  BY <1>1 DEF Init, RoundInv, Alive
<1>7. RootStays
  BY <1>1 DEF Init, RootStays
<1> QED
  BY <1>2, <1>3, <1>4, <1>5, <1>6, <1>7 DEF ProcInv

LEMMA StepInv ==
  ASSUME ProcessesAssumption, ProcInv, [Next]_vars
  PROVE  ProcInv'
BY TypeStep, EntriesStep, WaitsStep, FilesStep, RoundStep, RootStep DEF ProcInv

LEMMA InvariantHolds ==
  Spec => []ProcInv
<1>1. Init => ProcInv
  BY InitInv, ProcessesAssumption
<1>2. ProcInv /\ [Next]_vars => ProcInv'
  BY StepInv, ProcessesAssumption
<1> QED
  BY <1>1, <1>2, PTL DEF Spec

-----------------------------------------------------------------------------
(* The theorems.                                                           *)

(* Every reachable state is well-typed: in particular the slice that runs  *)
(* is always one of a process that is alive.                               *)
THEOREM TypeCorrect == Spec => []TypeOK
BY InvariantHolds, PTL DEF ProcInv

(* vfork: the parent does not run before its child has a new image or has  *)
(* finished, whoever is killed, fails to load its image or is collected    *)
(* meanwhile (vfork in syscalls.cpp, on_vfork and do_exec in processes.cpp). *)
THEOREM ParentIsSuspended == Spec => []VforkSuspends
<1>1. ASSUME ProcInv, NEW c \in by_vfork, InSlice(ppid[c])
      PROVE  zombie[c] \/ c \in replaced
  <2>1. /\ wait[ppid[c]] = NoWait /\ ~zombie[ppid[c]] /\ c \in Procs
    BY <1>1 DEF ProcInv, InSlice, WaitsInv, TypeOK, Alive
  <2>2. OnVfork(c) # NoWait
    BY <2>1, WaitTypes
  <2> QED
    BY <1>1, <2>1, <2>2 DEF ProcInv, WaitsInv
<1>2. ProcInv => VforkSuspends
  BY <1>1 DEF VforkSuspends
<1> QED
  BY <1>2, InvariantHolds, PTL

(* Pipes: no read reports the end of file while anybody could still write, *)
(* through a copy of the descriptor made by fork or dup, and no process    *)
(* that has finished keeps an end open (PipeEnd in files.cpp, make_zombie). *)
THEOREM PipesEndInTime == Spec => []PipesEnd
<1>1. ProcInv => PipesEnd
  BY DEF ProcInv, FilesInv, PipesEnd
<1> QED
  BY <1>1, InvariantHolds, PTL

(* The System gives up only when nobody can go on.  The table of the image *)
(* a root replaces lives on, so that a pipe may have a writer nobody can   *)
(* use: this is for machines whose root keeps its image or has no pipes.   *)
THEOREM NoFalseDeadlock ==
  ASSUME RootExecs => NPipes = 0
  PROVE  Spec => []DeadlockIsReal
<1>1. ASSUME ProcInv, phase = "deadlock", NEW p \in Alive
      PROVE  \/ /\ wait[p].on = "child" /\ HasChildren(p)
                /\ ZombieChildren(p, wait[p].want) = {}
             \/ wait[p].on = "vfork" /\ ~ExecDoneOrZombie(wait[p].child)
             \/ /\ wait[p].on = "pipe"
                /\ buffer[files[p][wait[p].fd].pipe] = 0
                /\ LivingWriter(files[p][wait[p].fd].pipe)
  <2>1. /\ p \in Procs /\ p \in Made /\ wait[p] \in Waits /\ ~zombie[Root]
        /\ ~request[p] /\ ~Predicate(p)
    BY <1>1, ProcessesAssumption, AliveFacts DEF ProcInv, TypeOK, RoundInv, Stuck
  <2>2. wait[p] # NoWait /\ wait[p] # OnExec
    <3>1. wait[p].on # "none"
      BY <2>1 DEF Predicate
    <3>2. wait[p] # NoWait
      BY <3>1 DEF NoWait
    <3> QED
      BY <1>1, <2>1, <3>2 DEF ProcInv, WaitsInv
  <2>3. CASE \E w \in Procs \cup {-1} : wait[p] = OnChild(w)
    BY <2>1, <2>3 DEF Predicate, OnChild
  <2>4. CASE \E c \in Procs : wait[p] = OnVfork(c)
    BY <2>1, <2>4 DEF Predicate, OnVfork
  <2>5. ASSUME NEW fd \in Fds, wait[p] = OnPipe(fd)
        PROVE  /\ wait[p].on = "pipe"
               /\ buffer[files[p][wait[p].fd].pipe] = 0
               /\ LivingWriter(files[p][wait[p].fd].pipe)
    <3> DEFINE i == files[p][fd].pipe
    <3>1. wait[p].on = "pipe" /\ wait[p].fd = fd
      BY <2>5 DEF OnPipe
    <3>2. ~(buffer[i] > 0) /\ Open(i, TRUE)
      BY <2>1, <3>1 DEF Predicate
    <3>3. \A table \in Table : Refers(table, i, TRUE) => i \in Pipes
      <4>1. \A entry \in Entry \cup {NoEntry} : entry.writer = TRUE => entry.pipe \in Pipes
        BY DEF Entry, NoEntry
      <4> QED
        BY <4>1 DEF Refers, Table
    <3>4. i \in Pipes
      <4>1. old_files \in Table /\ \A q \in Made : files[q] \in Table
        BY <1>1, AliveFacts, ProcessesAssumption DEF ProcInv, TypeOK
      <4> QED
        BY <3>2, <3>3, <4>1 DEF Open
    <3>5. buffer[i] = 0
      BY <1>1, <3>2, <3>4, ProcessesAssumption DEF ProcInv, TypeOK, ProcessesAssumption
    <3>6. old_files = EmptyTable
      <4>1. NPipes # 0
        BY <3>4 DEF Pipes
      <4> QED
        BY <1>1, <4>1 DEF ProcInv, RootStays
    <3>7. ~Refers(EmptyTable, i, TRUE)
      BY DEF Refers, EmptyTable, NoEntry
    <3>8. PICK q \in Made : Refers(files[q], i, TRUE)
      BY <3>2, <3>6, <3>7 DEF Open
    <3>9. ~zombie[q]
      BY <1>1, <2>1, <3>7, <3>8 DEF ProcInv, FilesInv, ZombieHoldsNothing
    <3> QED
      BY <3>1, <3>5, <3>8, <3>9 DEF LivingWriter, Alive
  <2> QED
    BY <2>1, <2>2, <2>3, <2>4, <2>5 DEF Waits
<1>2. ProcInv => DeadlockIsReal
  BY <1>1 DEF DeadlockIsReal
<1> QED
  BY <1>2, InvariantHolds, PTL

-----------------------------------------------------------------------------
(* The System implements ProcessLife.                                      *)

LifeOf == [p \in Procs |-> IF p \notin Made THEN "none"
                           ELSE IF reaped[p] THEN "reaped"
                           ELSE IF zombie[p] THEN "zombie" ELSE "running"]
ParentOf == [p \in Procs |-> IF p \in Made \ {Root} THEN ppid[p] ELSE Root]

LEMMA LifeInit ==
  ASSUME ProcessesAssumption, Init
  PROVE  Life!Init
<1>1. Made = {Root} /\ Root \in Procs
  BY DEF Init, Made, Root, Procs, ProcessesAssumption
<1>2. exit_code \in [Procs -> Codes]
  BY DEF Init, Codes
<1> QED
  BY <1>1, <1>2 DEF Init, Life!Init

LEMMA LifeStep ==
  ASSUME ProcessesAssumption, ProcInv, [Next]_vars
  PROVE  [Life!Next]_<<LifeOf, ParentOf, exit_code>>
<1> USE DEF ProcInv
<1>1. /\ nprocs \in Nat /\ Made \subseteq Procs /\ Root \in Procs
      /\ ppid \in [Procs -> Procs \cup {0}] /\ ppid[Root] = 0
      /\ zombie \in [Procs -> BOOLEAN] /\ reaped \in [Procs -> BOOLEAN]
      /\ \A q \in Procs : reaped[q] => zombie[q]
  BY DEF TypeOK, Procs, Made, Root, ProcessesAssumption, EntriesInv
<1>2. CASE UNCHANGED <<nprocs, ppid, zombie, reaped, exit_code>>
  BY <1>2 DEF LifeOf, ParentOf, Made
<1>3. ASSUME NEW p \in Alive, Ends(p)
      PROVE  Life!Next
  <2>1. p \in Made /\ p \in Procs /\ ~zombie[p] /\ ~reaped[p]
    BY <1>1, AliveFacts
  <2>2. PICK code \in Codes : MakeZombie(p, code)
    BY <1>3 DEF Ends
  <2>3. /\ zombie' = [zombie EXCEPT ![p] = TRUE] /\ exit_code' = [exit_code EXCEPT ![p] = code]
        /\ UNCHANGED <<nprocs, ppid, reaped>> /\ Made' = Made
    BY <2>2 DEF MakeZombie, Made
  <2>4. LifeOf[p] = "running" /\ LifeOf' = [LifeOf EXCEPT ![p] = "zombie"]
    BY <1>1, <2>1, <2>3 DEF LifeOf
  <2>5. ParentOf' = ParentOf
    BY <2>3 DEF ParentOf
  <2>6. Life!Finish(p)
    BY <2>3, <2>4, <2>5 DEF Life!Finish, LifeOf, ParentOf
  <2> QED
    BY <2>1, <2>6 DEF Life!Next
<1>4. ASSUME NEW p \in Alive, NEW vfork \in BOOLEAN, Fork(p, vfork)
      PROVE  Life!Next
  <2> SUFFICES ASSUME NEW c, c = nprocs + 1
               PROVE  Life!Next
    OBVIOUS
  <2>1. p \in Made /\ p \in Procs /\ ~zombie[p] /\ ~reaped[p] /\ nprocs \in Procs
    BY <1>1, AliveFacts
  <2>2. /\ c \notin Made /\ Made' = Made \cup {c} /\ c \in Procs /\ c # Root
        /\ ppid' = [ppid EXCEPT ![c] = p]
        /\ UNCHANGED <<zombie, reaped, exit_code>>
    <3>1. /\ nprocs < MaxProcs /\ nprocs' = c /\ ppid' = [ppid EXCEPT ![c] = p]
          /\ UNCHANGED <<zombie, reaped, exit_code>>
      BY <1>4 DEF Fork
    <3> QED
      BY <1>1, <2>1, <3>1 DEF Made, Procs, Root, ProcessesAssumption
  <2>3. ~zombie[c] /\ ~reaped[c]
    BY <1>1, <2>2 DEF EntriesInv
  <2>4. /\ LifeOf[p] = "running" /\ LifeOf[c] = "none"
        /\ LifeOf' = [LifeOf EXCEPT ![c] = "running"]
    BY <1>1, <2>1, <2>2, <2>3 DEF LifeOf
  <2>5. ParentOf' = [ParentOf EXCEPT ![c] = p]
    BY <1>1, <2>2 DEF ParentOf
  <2>6. Life!Start(p, c)
    BY <2>2, <2>4, <2>5 DEF Life!Start, LifeOf, ParentOf
  <2> QED
    BY <2>1, <2>2, <2>6 DEF Life!Next
<1>5. ASSUME NEW p \in Alive, NEW want \in {-1} \cup Made, Wait4(p, want)
      PROVE  [Life!Next]_<<LifeOf, ParentOf, exit_code>>
  <2>1. p \in Made /\ p \in Procs /\ ~zombie[p] /\ ~reaped[p]
    BY <1>1, AliveFacts
  <2>2. UNCHANGED <<nprocs, ppid, zombie, exit_code>> /\ Made' = Made
    BY <1>5 DEF Wait4, Made
  <2>3. CASE UNCHANGED reaped
    BY <1>2, <2>2, <2>3
  <2>4. ASSUME NEW c \in ZombieChildren(p, want), reaped' = [reaped EXCEPT ![c] = TRUE]
        PROVE  Life!Next
    <3>1. c \in Made /\ c \in Procs /\ zombie[c] /\ ~reaped[c] /\ ppid[c] = p /\ c # Root
      BY <1>1, <2>1 DEF ZombieChildren, Procs
    <3>2. /\ LifeOf[p] = "running" /\ LifeOf[c] = "zombie" /\ ParentOf[c] = p
          /\ LifeOf' = [LifeOf EXCEPT ![c] = "reaped"]
      BY <1>1, <2>1, <2>2, <2>4, <3>1 DEF LifeOf, ParentOf
    <3>3. ParentOf' = ParentOf
      BY <2>2 DEF ParentOf
    <3>4. Life!Collect(p, c)
      BY <2>2, <3>2, <3>3 DEF Life!Collect, LifeOf, ParentOf
    <3> QED
      BY <2>1, <3>1, <3>4 DEF Life!Next
  <2> QED
    BY <1>5, <2>3, <2>4 DEF Wait4
<1>6. CASE Turns
  BY <1>2, <1>6 DEF Turns, procVars
<1>7. ASSUME NEW p \in Alive, Edits(p)
      PROVE  UNCHANGED <<LifeOf, ParentOf, exit_code>>
  BY <1>2, <1>7 DEF Edits, procVars, LifeOf, ParentOf, Made
<1>8. ASSUME NEW p \in Alive, Acts(p)
      PROVE  [Life!Next]_<<LifeOf, ParentOf, exit_code>>
  <2>1. CASE \/ ExecFails(p) \/ Exec(p) \/ StartSlice(p) \/ Execve(p)
             \/ \E fd \in Fds : Read(p, fd) \/ Write(p, fd)
    BY <1>2, <2>1 DEF ExecFails, Exec, StartSlice, Execve, Read, Write, procVars
  <2> QED
    BY <1>4, <1>5, <1>8, <2>1 DEF Acts
<1> QED
  BY <1>3, <1>6, <1>7, <1>8, NextCases

(* The System implements ProcessLife: nobody runs before it is started or  *)
(* after it has finished, finishes twice, or is collected but once, by its *)
(* parent, after it has finished; and wait4 has told of exactly those that *)
(* have been collected, with the status they ended with.                   *)
THEOREM SystemImplementsLife == Spec => LivesAsPromised
<1>1. ProcInv => ReportedOnce
  BY ProcessesAssumption DEF ProcInv, EntriesInv, ReportedOnce, Made, TypeOK, Procs
<1>2. Init => Life!Init
  BY LifeInit, ProcessesAssumption
<1>3. ProcInv /\ [Next]_vars => [Life!Next]_<<LifeOf, ParentOf, exit_code>>
  BY LifeStep, ProcessesAssumption
<1>4. ProcInv /\ [Next]_vars =>
        [Life!Next]_<<[p \in Procs |-> IF p \notin Made THEN "none"
                             ELSE IF reaped[p] THEN "reaped"
                             ELSE IF zombie[p] THEN "zombie" ELSE "running"],
                      [p \in Procs |-> IF p \in Made \ {Root} THEN ppid[p] ELSE Root],
                      exit_code>>
  BY <1>3 DEF LifeOf, ParentOf
<1> QED
  BY <1>1, <1>2, <1>4, InvariantHolds, PTL DEF Spec, LivesAsPromised, Life!Spec
=============================================================================
