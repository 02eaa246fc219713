----------------------------- MODULE GuestOutput -----------------------------
(***************************************************************************)
(* The way out of what Windows programs write: printf() through the buffer  *)
(* of the emulator and its newline translation, stderr past the buffer,     *)
(* WriteFile() past both, fflush(), and the ends of a process, at which the  *)
(* buffer must be emptied.  Descriptor 1 is the console or, after dup2() or  *)
(* in a child that inherited it so, a file opened in text or binary mode.   *)
(*                                                                         *)
(* What is written is numbered, one line at a time; cr counts the carriage   *)
(* returns put before the newline of a line on its way.                     *)
(***************************************************************************)
EXTENDS Naturals, Sequences, SequencesExt

CONSTANTS
  Processes,   \* the processes, Root among them
  Root,        \* whose end is the end of the run
  Terminal,    \* stdout is a terminal
  BufferLines,       \* lines that fill the buffer
  Targets,     \* what descriptor 1 may become: "text" and "binary" files
  MaxLines     \* bound: lines a process writes

VARIABLES
  status,    \* of each process: "none", "alive", "over" or "abandoned"
  out,       \* its descriptor 1: "console", "text" or "binary"
  buffered,  \* buffer_stdout_: decided when it was loaded
  buffer,    \* stdout_buffer_
  arrived,   \* what left the emulator, from each process
  written    \* what the process wrote (ghost)

outVars == <<status, out, buffered, buffer, arrived, written>>

\* The ways out: printf, stderr, WriteFile.
Paths == {"text", "error", "raw"}

(* write_raw() to descriptor 1 and the end of flush_guest_output(): the     *)
(* table's write() translates the newlines of a text-mode file              *)
Reaches(target, lines) ==
  [i \in DOMAIN lines |->
     IF target = "text" THEN [lines[i] EXCEPT !.cr = @ + 1] ELSE lines[i]]

Translated(line) == [line EXCEPT !.cr = @ + 1]

NewLine(p, path) == [path |-> path, n |-> Len(written[p]) + 1, cr |-> 0]
Write(p, path) == written' = [written EXCEPT ![p] = Append(@, NewLine(p, path))]
Arrive(p, lines) == arrived' = [arrived EXCEPT ![p] = @ \o lines]

OutputInit ==
  /\ status = [p \in Processes |-> IF p = Root THEN "alive" ELSE "none"]
  /\ out = [p \in Processes |-> "console"]
  /\ buffered = [p \in Processes |-> p = Root /\ ~Terminal]
  /\ buffer = [p \in Processes |-> <<>>]
  /\ arrived = [p \in Processes |-> <<>>]
  /\ written = [p \in Processes |-> <<>>]

MayWrite(p) == status[p] = "alive" /\ Len(written[p]) < MaxLines

(* write_text(1): into the buffer, or out at once                           *)
WriteText(p) ==
  /\ MayWrite(p)
  /\ Write(p, "text")
  /\ LET line == Translated(NewLine(p, "text"))
         full == Append(buffer[p], line)
     IN IF ~buffered[p]
        THEN /\ Arrive(p, Reaches(out[p], <<line>>))
             /\ UNCHANGED buffer
        ELSE IF Len(full) < BufferLines
        THEN /\ buffer' = [buffer EXCEPT ![p] = full]
             /\ UNCHANGED arrived
        ELSE /\ buffer' = [buffer EXCEPT ![p] = <<>>]
             /\ Arrive(p, Reaches(out[p], full))
  /\ UNCHANGED <<status, out, buffered>>

(* write_text(2) is never buffered; write_raw(1) does not look at the       *)
(* buffer                                                                   *)
WriteError(p) ==
  /\ MayWrite(p)
  /\ Write(p, "error")
  /\ Arrive(p, <<Translated(NewLine(p, "error"))>>)
  /\ UNCHANGED <<status, out, buffered, buffer>>

WriteRaw(p) ==
  /\ MayWrite(p)
  /\ Write(p, "raw")
  /\ Arrive(p, Reaches(out[p], <<NewLine(p, "raw")>>))
  /\ UNCHANGED <<status, out, buffered, buffer>>

(* flush_guest_output() *)
FlushGuestOutput(p) ==
  /\ buffer' = [buffer EXCEPT ![p] = <<>>]
  /\ Arrive(p, Reaches(out[p], buffer[p]))

Flush(p) ==
  /\ status[p] = "alive"
  /\ FlushGuestOutput(p)
  /\ UNCHANGED <<status, out, buffered, written>>

(* dup2(fd, 1): the table only, the buffer stays                            *)
Redirect(p) ==
  /\ status[p] = "alive"
  /\ \E t \in Targets : out' = [out EXCEPT ![p] = t]
  /\ UNCHANGED <<status, buffered, buffer, arrived, written>>

(* spawn() and the load of the child: its descriptor 1 is the parent's; it  *)
(* buffers unless that is a terminal                                        *)
Spawn(p, c) ==
  /\ status[p] = "alive"
  /\ status[c] = "none"
  /\ status' = [status EXCEPT ![c] = "alive"]
  /\ out' = [out EXCEPT ![c] = out[p]]
  /\ buffered' = [buffered EXCEPT ![c] = ~(Terminal /\ out[p] = "console")]
  /\ UNCHANGED <<buffer, arrived, written>>

(* Its exit, its crash, or its end at the hands of another; when the root   *)
(* is over the others are given up where they are                           *)
Gone(p) ==
  status' = [q \in Processes |->
               IF q = p THEN "over"
               ELSE IF p = Root /\ status[q] = "alive" THEN "abandoned"
               ELSE status[q]]

(* a process that ends with its buffer as it is: a mutant *)
Finish_Unflushed(p) ==
  /\ status[p] = "alive"
  /\ Gone(p)
  /\ UNCHANGED <<out, buffered, buffer, arrived, written>>

Finish(p) ==
  /\ status[p] = "alive"
  /\ Gone(p)
  /\ FlushGuestOutput(p)
  /\ UNCHANGED <<out, buffered, written>>

OutputNext ==
  \E p \in Processes :
    \/ WriteText(p) \/ WriteError(p) \/ WriteRaw(p) \/ Flush(p) \/ Redirect(p)
    \/ Finish(p)
    \/ \E c \in Processes : Spawn(p, c)

OutputSpec == OutputInit /\ [][OutputNext]_outVars

-----------------------------------------------------------------------------
(***************************************************************************)
(* On each way out every line arrives once and in the order written: what   *)
(* has arrived and what is in the buffer are what was written, and when a   *)
(* process is over, however it ended, nothing is left in the buffer.        *)
(***************************************************************************)
OnItsWay(p) == arrived[p] \o buffer[p]
InOrder(lines) ==
  \A i, j \in DOMAIN lines : i < j /\ lines[i].path = lines[j].path => lines[i].n < lines[j].n
IsOf(lines, all) ==
  \A i \in DOMAIN lines : lines[i].n \in DOMAIN all /\ all[lines[i].n].path = lines[i].path
HasAll(lines, all) ==
  \A n \in DOMAIN all : \E i \in DOMAIN lines : lines[i].n = n

NothingIsLost ==
  \A p \in Processes :
    /\ InOrder(OnItsWay(p)) /\ IsOf(OnItsWay(p), written[p]) /\ HasAll(OnItsWay(p), written[p])
    /\ status[p] = "over" => buffer[p] = <<>>

(***************************************************************************)
(* emulator.cpp:1034: "translating here as well would double every carriage *)
(* return": a line printed has one.                                         *)
(***************************************************************************)
OneCarriageReturn ==
  \A p \in Processes : \A i \in DOMAIN arrived[p] :
    arrived[p][i].path = "text" => arrived[p][i].cr = 1
=============================================================================
