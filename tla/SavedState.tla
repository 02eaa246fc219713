----------------------------- MODULE SavedState ----------------------------
(***************************************************************************)
(* Saving a running guest and putting it back (state.cpp).  The state goes *)
(* to a file as a stream of tagged sections; the process that wrote it     *)
(* ends, or dies while it is writing; another process, with the program    *)
(* freshly loaded, reads the sections over what it has.                    *)
(*                                                                         *)
(* A context is the number of steps a thread has made.  A page holds       *)
(* zeros, what its file held, or something of the guest's own; it is "-"   *)
(* when it is not mapped.  Descriptors are in FileTable (Resume).          *)
(***************************************************************************)
EXTENDS Integers, Sequences, FiniteSets

CONSTANTS
  Tids,         \* guest threads
  Main,         \* the one a fresh process starts with
  Pages,        \* pages of guest memory
  FilePages,    \* those that belong to a region mapped from a file
  MaxWork       \* bound on the steps of one thread

\* What is taken for granted of them.
SavedStateAssumption == Main \in Tids /\ FilePages \subseteq Pages

VARIABLES
  stage,        \* "running", "saved", "resumed" or "refused"
  cpu,          \* the context in the processor
  holder,       \* the thread it belongs to (current_thread_)
  thread,       \* [Tids -> the thread's record]
  mem,          \* [Pages -> contents]
  file,         \* [FilePages -> what the file on disk holds there]
  retry,        \* the thread in the processor has just blocked (reschedule_, retry_hook_)
  image,        \* the state file: what its sections hold and how far it goes
  asked         \* the guest at the moment it was saved

savedVars == <<stage, cpu, holder, thread, mem, file, retry, image, asked>>

Contents == {"zero", "text", "own"}
Kinds == {"runnable", "handle", "predicate", "none"}

Fresh == [t \in Tids |-> [ctx |-> 0, state |-> IF t = Main THEN "runnable" ELSE "none"]]
FreshMem == [p \in Pages |-> IF p \in FilePages THEN "text" ELSE "-"]

\* The file's tags in the order save_state writes them.
Order == <<"CPU ", "ALLO", "THRD", "SYNC", "FDS ", "REGN", "MAPD", "PAGE", "END ">>

----------------------------------------------------------------------------
(* The guest runs.                                                          *)

Run == stage = "running" /\ UNCHANGED <<stage, file, image, asked>>

Step ==
  /\ Run /\ thread[holder].state = "runnable" /\ cpu < MaxWork
  /\ cpu' = cpu + 1 /\ retry' = FALSE
  /\ \/ UNCHANGED mem
     \/ \E p \in Pages, v \in Contents \cup {"-"} :
          mem' = [mem EXCEPT ![p] = v] /\ ((v = "-") => p \notin FilePages)
  /\ UNCHANGED <<holder, thread>>

\* The running thread waits for an object, or for a host-side predicate with its
\* instruction pointer back on the call (block_hook_retry, block_syscall_retry).
BlockOn(how) ==
  /\ Run /\ thread[holder].state = "runnable"
  /\ thread' = [thread EXCEPT ![holder].state = how]
  /\ retry' = TRUE
  /\ UNCHANGED <<cpu, holder, mem>>

Wake(t) ==
  /\ Run /\ thread[t].state \in {"handle", "predicate"}
  /\ thread' = [thread EXCEPT ![t].state = "runnable"]
  /\ UNCHANGED <<cpu, holder, mem, retry>>

Create(t) ==
  /\ Run /\ thread[t].state = "none" /\ thread[holder].state = "runnable"
  /\ thread' = [thread EXCEPT ![t].state = "runnable"]
  /\ UNCHANGED <<cpu, holder, mem, retry>>

\* switch_to_thread at the start of a slice: a context is written back only now.
Switch(t) ==
  /\ Run /\ t # holder /\ thread[t].state = "runnable"
  /\ thread' = [thread EXCEPT ![holder].ctx = cpu]
  /\ holder' = t /\ cpu' = thread[t].ctx /\ retry' = FALSE
  /\ UNCHANGED mem

\* Somebody writes the mapped file, or deletes it ("-"), before or after a save.
EditFile(p, v) ==
  /\ stage \in {"running", "saved"}
  /\ file' = [file EXCEPT ![p] = v]
  /\ UNCHANGED <<stage, cpu, holder, thread, mem, retry, image, asked>>

----------------------------------------------------------------------------
(* Saving.                                                                  *)

\* Mutant: a thread is written down as waiting for what cannot be written down.
RecordOf_Waiting(t) ==
  [ctx |-> IF t = holder THEN cpu ELSE thread[t].ctx, state |-> thread[t].state]

\* What is written down of a thread: the running one's context is in the
\* processor, and a wait on a predicate is written as if it were over.
RecordOf(t) ==
  [ctx |-> IF t = holder THEN cpu ELSE thread[t].ctx,
   state |-> IF thread[t].state = "predicate" THEN "runnable" ELSE thread[t].state]

\* Pages of zeros are not carried, nor those that are as the file has them.
Blank == {p \in Pages : mem[p] = "zero"}
FromFile == {p \in FilePages : mem[p] # "zero" /\ file[p] = mem[p]}
Carried == {p \in Pages : mem[p] # "-"} \ (Blank \cup FromFile)

Sections ==
  [cpu |-> cpu, current |-> holder, thread |-> [t \in Tids |-> RecordOf(t)],
   mapped |-> {p \in Pages : mem[p] # "-"},
   carried |-> [p \in Carried |-> mem[p]], fromFile |-> FromFile]

\* save_state_due and save_state: the file may end anywhere, for the write of a
\* large one can be interrupted: after some whole sections, and then within the
\* next one's header or within its body.
Save(whole, cut) ==
  /\ stage = "running" /\ ~retry /\ thread[holder].state = "runnable"
  /\ cut = "none" \/ whole < Len(Order)
  /\ stage' = "saved"
  /\ image' = [has |-> Sections, whole |-> whole, cut |-> cut]
  /\ asked' = [thread |-> [t \in Tids |-> IF t = holder THEN [thread[t] EXCEPT !.ctx = cpu] ELSE thread[t]],
               current |-> holder, mem |-> mem]
  /\ UNCHANGED <<cpu, holder, thread, mem, file, retry>>

----------------------------------------------------------------------------
(* Loading.                                                                 *)

(* Each section is read over a guest g.                                     *)

ReadCpu(g, s) == [g EXCEPT !.cpu = s.cpu]
ReadThreads(g, s) == [g EXCEPT !.thread = s.thread, !.current = s.current]

\* The map load() laid down goes; every region comes back empty.
ReadRegions(g) == [g EXCEPT !.mem = [p \in Pages |-> IF p \in FilePages THEN "zero" ELSE "-"]]

\* Pages that exist outside every region.
ReadMapped(g, s) ==
  [g EXCEPT !.mem = [p \in Pages |-> IF p \in s.mapped /\ g.mem[p] = "-" THEN "zero" ELSE g.mem[p]]]

\* Carried pages are written; those left to a file are read from it as it is now.
ReadPages(g, s) ==
  [g EXCEPT !.mem = [p \in Pages |->
     CASE p \in DOMAIN s.carried -> s.carried[p]
       [] p \in s.fromFile /\ file[p] # "-" -> file[p]
       [] OTHER -> g.mem[p]]]

Apply(tag, g, s) ==
  CASE tag = "CPU " -> ReadCpu(g, s)
    [] tag = "THRD" -> ReadThreads(g, s)
    [] tag = "REGN" -> ReadRegions(g)
    [] tag = "MAPD" -> ReadMapped(g, s)
    [] tag = "PAGE" -> ReadPages(g, s)
    [] tag \in {"ALLO", "SYNC", "FDS ", "END "} -> g

Newborn == [cpu |-> 0, current |-> Main, thread |-> Fresh, mem |-> FreshMem]
After[n \in 0..Len(Order)] == IF n = 0 THEN Newborn ELSE Apply(Order[n], After[n - 1], image.has)

\* load_state.  The loop ends when fewer than a header's bytes are left, so only
\* a section that stops within its body is noticed.
Noticed(i) == i.cut = "body"
Load ==
  /\ stage = "saved"
  /\ LET g == After[image.whole]
     IN  /\ cpu' = g.cpu /\ holder' = g.current /\ thread' = g.thread /\ mem' = g.mem
         /\ stage' = IF Noticed(image) THEN "refused" ELSE "resumed"
  /\ UNCHANGED <<file, retry, image, asked>>

----------------------------------------------------------------------------
StateInit ==
  /\ stage = "running" /\ cpu = 0 /\ holder = Main /\ retry = FALSE
  /\ thread = Fresh /\ mem = FreshMem
  /\ file = [p \in FilePages |-> "text"]
  /\ image = <<>> /\ asked = <<>>

StateNext ==
  \/ Step
  \/ \E how \in {"handle", "predicate"} : BlockOn(how)
  \/ \E t \in Tids : Wake(t) \/ Create(t) \/ Switch(t)
  \/ \E p \in FilePages, v \in {"text", "own", "-"} : EditFile(p, v)
  \/ \E n \in 0..Len(Order), cut \in {"none", "header", "body"} : Save(n, cut)
  \/ Load

StateSpec == StateInit /\ [][StateNext]_savedVars

----------------------------------------------------------------------------
Whole(i) == i.whole = Len(Order)

\* A guest resumed from a whole file is the one that was saved: every thread at
\* the instruction it had reached, the running one included, those that waited
\* for an object waiting still and those that waited for a predicate about to
\* repeat their call; every page as it was, but for those left to a file that
\* has changed since, which are as the file is now (state.cpp).
ResumedIsSaved ==
  stage = "resumed" /\ Whole(image) =>
    /\ holder = asked.current /\ cpu = asked.thread[holder].ctx
    /\ \A t \in Tids : /\ t # holder => thread[t].ctx = asked.thread[t].ctx
                          /\ thread[t].state = IF asked.thread[t].state = "predicate" THEN "runnable"
                                               ELSE asked.thread[t].state
    /\ \A p \in Pages \ image.has.fromFile : mem[p] = asked.mem[p]
    /\ \A p \in image.has.fromFile : mem[p] = IF file[p] = "-" THEN "zero" ELSE file[p]

\* A state file that was cut short is not taken for a whole one: a snapshot's
\* writing can be interrupted and its reader is bounds-checked (state.cpp:71).
CutIsRefused == stage = "resumed" => Whole(image)

=============================================================================
