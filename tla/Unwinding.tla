------------------------------ MODULE Unwinding ------------------------------
(***************************************************************************)
(* Exceptions of a Windows guest (exceptions.cpp).  Raising one asks the   *)
(* handlers of the frames from the innermost out; the one that takes it    *)
(* has the frames in between unwound.  A 64-bit guest's frames are found   *)
(* by walking (FrameWalk) and its __try blocks by __C_specific_handler's   *)
(* scope tables; a 32-bit guest's handlers are a chain headed at fs:[0],   *)
(* and what a handler does there is the guest's own runtime.               *)
(*                                                                         *)
(* A frame is an activation of a guest function with the __try blocks it   *)
(* is inside of, innermost first.  A hook's callback, an initialiser or an *)
(* exit handler runs in a loop of the emulator's own (call_guest): a root  *)
(* frame returns to that loop, and to no guest code.  Filters and __finally *)
(* blocks run to their end or end the process; what they call is left out. *)
(***************************************************************************)
EXTENDS Integers, Sequences, FiniteSets, SequencesExt

CONSTANTS
  MaxFrames,    \* bound on the depth of the guest's stack
  MaxLoops      \* bound on the emulator's loops

VARIABLES
  bits,         \* 32 or 64
  frames,       \* the guest's stack: [root, reg, tries], the last is running
  head,         \* fs:[0]: the frame whose registration it is, 0 for none
  loops,        \* the emulator's call_guest loops: "callback" or "handler"
  pass,         \* "none" while the guest runs; "search" or "unwind"
  at, scope,    \* the frame and the block of it that are being looked at
  goal,         \* the frame and the block that have taken the exception
  origin,       \* the frame that raised
  asked,        \* filters called in this search, as <<frame, block>>
  runs,         \* how often the __finally blocks that are over have been run
  resumed,      \* where the last exception a filter dismissed resumed: raiser or not
  ended         \* "no", "exited", "unhandled" or "stray"

guest == <<frames, head, loops>>
search == <<pass, at, scope, goal, origin, asked>>
unwindVars == <<bits, guest, search, runs, resumed, ended>>

TryBlocks == {<<>>, <<"finally">>, <<"except">>, <<"except", "finally">>, <<"finally", "except">>}
Frame(root, blocks) ==
  [root |-> root, reg |-> blocks # <<>>, tries |-> [i \in 1..Len(blocks) |-> [what |-> blocks[i], ran |-> 0]]]

Depth == Len(frames)
Tries(f) == frames[f].tries
Kept(f) == SubSeq(frames, 1, f)

\* The nearest registration at frame f or outside it.
RegAt(f) == LET R == {g \in 1..f : frames[g].reg} IN IF R = {} THEN 0 ELSE CHOOSE g \in R : \A h \in R : h <= g

\* Once, or twice and more.
Often(n) == IF n = 0 THEN 1 ELSE 2

\* How often each __finally block in a set of frames and blocks has been run.
Counts(S) == {frames[x[1]].tries[x[2]].ran : x \in {y \in S : frames[y[1]].tries[y[2]].what = "finally"}}
AllOf(S) == UNION {{<<f, i>> : i \in 1..Len(Tries(f))} : f \in S}

\* The __finally blocks of frame f at the indices in I are run once more.
RunFinally(f, I) ==
  [frames EXCEPT ![f].tries = [i \in 1..Len(Tries(f)) |->
     IF i \in I /\ Tries(f)[i].what = "finally" THEN [Tries(f)[i] EXCEPT !.ran = Often(@)] ELSE Tries(f)[i]]]

----------------------------------------------------------------------------
(* The guest.                                                               *)

Idle == [pass |-> "none", at |-> 0, scope |-> 1, goal |-> <<0, 0>>, origin |-> 0, asked |-> {}]
Rests == /\ pass' = Idle.pass /\ at' = Idle.at /\ scope' = Idle.scope
         /\ goal' = Idle.goal /\ origin' = Idle.origin /\ asked' = Idle.asked

Runs == pass = "none" /\ ended = "no"
Quiet == UNCHANGED <<bits, search, resumed>>

Call(blocks) ==
  /\ Runs /\ Depth < MaxFrames
  /\ frames' = Append(frames, Frame(FALSE, blocks))
  /\ head' = IF bits = 32 /\ blocks # <<>> THEN Depth + 1 ELSE head
  /\ Quiet /\ UNCHANGED <<loops, runs, ended>>

\* A hook calls back: qsort's comparison, an initialiser, a timer's callback.
CallBack(blocks) ==
  /\ Runs /\ Depth < MaxFrames /\ Len(loops) < MaxLoops
  /\ frames' = Append(frames, Frame(TRUE, blocks))
  /\ head' = IF bits = 32 /\ blocks # <<>> THEN Depth + 1 ELSE head
  /\ loops' = Append(loops, "callback")
  /\ Quiet /\ UNCHANGED <<runs, ended>>

\* The innermost block is left: a __finally is run.
LeaveTry ==
  /\ Runs /\ Tries(Depth) # <<>>
  /\ frames' = [frames EXCEPT ![Depth].tries = Tail(@)]
  /\ runs' = runs \cup {Often(n) : n \in Counts({<<Depth, 1>>})}
  /\ Quiet /\ UNCHANGED <<head, loops, ended>>

Return ==
  /\ Runs /\ Depth > 1 /\ Tries(Depth) = <<>>
  /\ frames' = Kept(Depth - 1)
  /\ head' = IF bits = 32 /\ frames[Depth].reg THEN RegAt(Depth - 1) ELSE head
  /\ IF frames[Depth].root
     THEN IF loops # <<>> /\ loops[Len(loops)] = "callback"
          THEN loops' = Front(loops) /\ UNCHANGED ended
          ELSE ended' = "stray" /\ UNCHANGED loops
     ELSE UNCHANGED <<loops, ended>>
  /\ Quiet /\ UNCHANGED runs

----------------------------------------------------------------------------
(* The search.                                                              *)

Begin(f) ==
  /\ pass' = "search" /\ origin' = Depth /\ scope' = 1 /\ asked' = {}
  /\ at' = f
  /\ UNCHANGED <<bits, guest, goal, runs, resumed, ended>>

\* raise_guest_exception and dispatch_exception; RaiseException of a 32-bit guest,
\* where the search begins with the chain.
Raise == Runs /\ bits = 64 /\ Begin(Depth)
Raise32 == Runs /\ bits = 32 /\ Begin(head)

Searching == pass = "search" /\ ended = "no"

Unhandled ==
  /\ Searching
  /\ \/ at = 0
     \* No function entry covers the return into call_guest: the walk takes what
     \* is on the stack there for return addresses, and may come to nothing.
     \/ bits = 64 /\ at < Depth /\ at < origin /\ frames[at + 1].root /\ scope = 1
  /\ ended' = "unhandled"
  /\ UNCHANGED <<bits, guest, search, runs, resumed>>

\* A frame that has no more to say: the next one out, or the next registration.
MoveOn(f) ==
  /\ Searching /\ at > 0 /\ scope > Len(Tries(at))
  /\ at' = f /\ scope' = 1
  /\ UNCHANGED <<bits, guest, pass, goal, origin, asked, runs, resumed, ended>>
NextFrame == bits = 64 /\ MoveOn(at - 1)
NextRegistration == bits = 32 /\ MoveOn(RegAt(at - 1))

\* __C_specific_handler passes over a __finally on the way in.
PassFinally ==
  /\ Searching /\ at > 0 /\ scope <= Len(Tries(at)) /\ Tries(at)[scope].what = "finally"
  /\ scope' = scope + 1
  /\ UNCHANGED <<bits, guest, pass, at, goal, origin, asked, runs, resumed, ended>>

\* The filter of a block is called: it declines, or it ends the process.
AtFilter ==
  Searching /\ at > 0 /\ scope <= Len(Tries(at)) /\ Tries(at)[scope].what = "except"

Decline ==
  /\ AtFilter /\ asked' = asked \cup {<<at, scope>>} /\ scope' = scope + 1
  /\ UNCHANGED <<bits, guest, pass, at, goal, origin, runs, resumed, ended>>

FilterExits ==
  /\ AtFilter /\ asked' = asked \cup {<<at, scope>>} /\ ended' = "exited"
  /\ UNCHANGED <<bits, guest, pass, at, scope, goal, origin, runs, resumed>>

\* EXCEPTION_CONTINUE_EXECUTION: a 64-bit guest goes on from the context of the
\* frame that was asked, with every loop of the emulator's left.
Dismiss ==
  /\ AtFilter /\ bits = 64 /\ Rests
  /\ resumed' = IF at # origin THEN "elsewhere" ELSE "raiser"
  /\ frames' = Kept(at) /\ loops' = <<>>
  /\ runs' = runs \cup Counts(AllOf(at + 1..Depth))
  /\ UNCHANGED <<bits, head, ended>>

\* A 32-bit guest goes on from the context of the frame that raised.
Dismiss32 ==
  /\ AtFilter /\ bits = 32 /\ Rests
  /\ resumed' = "raiser"
  /\ UNCHANGED <<bits, guest, runs, ended>>

\* EXCEPTION_EXECUTE_HANDLER: unwind_to begins where the search is.
Accept ==
  /\ AtFilter /\ bits = 64 /\ asked' = asked \cup {<<at, scope>>}
  /\ pass' = "unwind" /\ goal' = <<at, scope>>
  /\ UNCHANGED <<bits, guest, at, scope, origin, runs, resumed, ended>>

\* The handler of a 32-bit frame calls RtlUnwind, which begins with the chain.
Accept32 ==
  /\ AtFilter /\ bits = 32 /\ asked' = asked \cup {<<at, scope>>}
  /\ Len(loops) < MaxLoops
  /\ pass' = "unwind" /\ goal' = <<at, scope>>
  /\ at' = head /\ loops' = Append(loops, "handler")
  /\ UNCHANGED <<bits, frames, head, scope, origin, runs, resumed, ended>>

----------------------------------------------------------------------------
(* The unwinding.                                                           *)

\* RtlUnwind called by the guest itself, to a frame of its own.
UnwindTo(f) ==
  /\ Runs /\ bits = 64 /\ f < Depth /\ \A g \in f + 1..Depth : ~frames[g].root
  /\ pass' = "unwind" /\ goal' = <<f, 0>> /\ at' = Depth /\ origin' = Depth /\ scope' = 1 /\ asked' = {}
  /\ UNCHANGED <<bits, guest, runs, resumed, ended>>

Unwinding == pass = "unwind" /\ ended = "no"

\* unwind_to: a frame inside the target.
UnwindFrame ==
  /\ Unwinding /\ bits = 64 /\ at > goal[1]
  /\ frames' = RunFinally(at, 1..Len(Tries(at)))
  /\ at' = at - 1
  /\ UNCHANGED <<bits, head, loops, pass, scope, goal, origin, asked, runs, resumed, ended>>

\* Mutant: the chain is cut without a call of the handlers that leave it.
PopRegistration_Silent ==
  /\ Unwinding /\ bits = 32 /\ at > goal[1]
  /\ at' = RegAt(at - 1) /\ head' = at'
  /\ UNCHANGED <<bits, frames, loops, pass, scope, goal, origin, asked, runs, resumed, ended>>

\* unwind_chain32: a registration inside the target is called, then popped.
PopRegistration ==
  /\ Unwinding /\ bits = 32 /\ at > goal[1]
  /\ frames' = RunFinally(at, 1..Len(Tries(at)))
  /\ at' = RegAt(at - 1) /\ head' = at'
  /\ UNCHANGED <<bits, loops, pass, scope, goal, origin, asked, runs, resumed, ended>>

\* Control arrives in the block that took the exception; all has what is known of
\* the target's __finally blocks then.
EnterHandler(all) ==
  LET f == goal[1]
      over == {x \in AllOf(f..Depth) : x[1] > f \/ x[2] <= goal[2]}
  IN  /\ frames' = [SubSeq(all, 1, f) EXCEPT ![f].tries = SubSeq(@, goal[2] + 1, Len(@))]
      /\ runs' = runs \cup {all[x[1]].tries[x[2]].ran : x \in {y \in over : all[y[1]].tries[y[2]].what = "finally"}}
      /\ Rests
      /\ UNCHANGED <<bits, resumed, ended>>

\* __C_specific_handler runs every __finally around the place of the exception at
\* the target too; the transfer is a throw that run_slice catches, with every loop
\* left.
Land ==
  /\ Unwinding /\ bits = 64 /\ at = goal[1]
  /\ EnterHandler(RunFinally(goal[1], 1..Len(Tries(goal[1]))))
  /\ loops' = <<>> /\ UNCHANGED head

\* The 32-bit runtime runs those inside the block, and jumps: the guest goes on in
\* the handler's loop.
Land32 ==
  /\ Unwinding /\ bits = 32 /\ at = goal[1]
  /\ EnterHandler(RunFinally(goal[1], 1..goal[2]))
  /\ head' = goal[1] /\ UNCHANGED loops

----------------------------------------------------------------------------
UnwindInit ==
  /\ bits \in {32, 64}
  /\ \E b \in TryBlocks : frames = <<Frame(FALSE, b)>> /\ head = IF bits = 32 /\ b # <<>> THEN 1 ELSE 0
  /\ pass = Idle.pass /\ at = Idle.at /\ scope = Idle.scope /\ goal = Idle.goal
  /\ origin = Idle.origin /\ asked = Idle.asked
  /\ loops = <<>> /\ runs = {} /\ resumed = "raiser" /\ ended = "no"

UnwindNext ==
  \/ \E b \in TryBlocks : Call(b) \/ CallBack(b)
  \/ LeaveTry \/ Return \/ Raise \/ Raise32
  \/ Unhandled \/ NextFrame \/ NextRegistration \/ PassFinally \/ Decline \/ FilterExits
  \/ Dismiss \/ Dismiss32 \/ Accept \/ Accept32
  \/ UnwindFrame \/ PopRegistration \/ Land \/ Land32
  \/ \E f \in 1..MaxFrames : UnwindTo(f)

UnwindSpec == UnwindInit /\ [][UnwindNext]_unwindVars

----------------------------------------------------------------------------
\* While a guest runs, fs:[0] is the registration of the innermost frame that has
\* one, whatever was raised, taken and unwound before; and its __finally blocks
\* have run once each (dispatch_exception32, unwind_chain32).
ChainFollowsFrames ==
  bits = 32 => /\ runs \subseteq {1}
               /\ pass = "none" /\ ended # "stray" => head = RegAt(Depth)

\* An exception is reported as unhandled only when every filter around the place
\* it was raised has declined it (dispatch_exception).
UnhandledWasOffered ==
  ended = "unhandled" =>
    \A f \in 1..origin : (\A g \in f + 1..origin : ~frames[g].root) =>
      \A i \in 1..Len(Tries(f)) : Tries(f)[i].what = "except" => <<f, i>> \in asked

\* Neither a registration nor a filter is skipped.
ExceptionsFindTheirWay == ChainFollowsFrames /\ UnhandledWasOffered

\* Both halves of C's __try are there: a __finally block runs once, whether the
\* block is left by itself or by an exception (README.md:49).
FinallyRunsOnce == runs \subseteq {1}

\* A filter that dismisses an exception has the guest go on where it was raised
\* (exceptions.cpp:404).
DismissedResumesRaiser == resumed = "raiser"

\* An exception found its handler: the loops that are gone are "one per language
\* handler the dispatcher called" (emulator.cpp:1620), so that a callback still
\* returns to the hook that called it.
CallbackReturns == ended # "stray"

=============================================================================
