------------------------------- MODULE MCCode -------------------------------
(* What executes the guest's instructions, for TLC: CodeCache, which keeps   *)
(* translated code, the code Translator makes of some programs, and the      *)
(* interpreter's instructions one by one (MCInstructions).  They share no    *)
(* state: a run is of the part chosen at its start, the others stand still,  *)
(* and only the part's own state tells two states apart (View).              *)
EXTENDS CodeCache, X87

VARIABLE part

\* Two pages, an address on each, in one slot of every table.
MCPageOf == [pc \in Pcs |-> pc]
MCTlbSlot == [p \in Pages |-> 0]
MCTableSlot == [pc \in Pcs |-> 0]

-----------------------------------------------------------------------------
(* The interpreter: operands of four bits, beside the register stack of X87. *)
VARIABLE sample
lawVars == <<sample, x87vars>>

Laws == INSTANCE MCInstructions WITH
    Width <- 4, ByteBits <- 2, Unit <- 1, NaN <- 1000, IntBits <- 3, Sbox <- <<>>, Samples <- {}
Instructions == INSTANCE InstructionLaws WITH
    Width <- 4, ByteBits <- 2, Unit <- 1, NaN <- 1000, IntBits <- 3,
    Sbox <- Laws!MCSbox, Samples <- Laws!MCSamples

-----------------------------------------------------------------------------
(* The translator: the programs of MCTranslator, blocks of three at most.    *)
VARIABLES program, cpu, cc, phase, plan, machine, whole
jitVars == <<program, cpu, cc, phase, plan, machine, whole>>

Programs == INSTANCE MCTranslator WITH
    Width <- 4, MaxPlan <- 3, LeaveAnywhere <- FALSE, Guests <- {}, Pendings <- {}, block <- plan
Jit == INSTANCE Translator WITH
    Width <- 4, MaxPlan <- 3, LeaveAnywhere <- FALSE,
    Guests <- Programs!MCGuests, Pendings <- Programs!MCPendings, block <- plan

JitStandsStill ==
    /\ program = <<>> /\ cpu = <<>> /\ cc = <<>> /\ phase = "none" /\ plan = <<>>
    /\ machine = <<>> /\ whole = TRUE

ASSUME CodeCacheAssumption /\ X87Assumption
ASSUME Jit!TranslatorAssumption
ASSUME /\ Instructions!UnitAssumption /\ Instructions!ByteBitsAssumption
       /\ Instructions!WidthAssumption /\ Instructions!FloatAssumption

-----------------------------------------------------------------------------
InstructionsStandStill == sample = [kind |-> "none"] /\ X87Init
CacheStandsStill == Init /\ rip = 1

CodeInit ==
    \/ part = "instructions" /\ Instructions!Init /\ CacheStandsStill /\ JitStandsStill
    \/ part = "cache" /\ Init /\ InstructionsStandStill /\ JitStandsStill
    \/ part = "translator" /\ Jit!Init /\ InstructionsStandStill /\ CacheStandsStill

CodeNext ==
    \/ part = "instructions" /\ Instructions!Next /\ UNCHANGED <<part, vars, jitVars>>
    \/ part = "cache" /\ Next /\ UNCHANGED <<part, lawVars, jitVars>>
    \/ part = "translator" /\ Jit!Next /\ UNCHANGED <<part, lawVars, vars>>

CodeSpec == CodeInit /\ [][CodeNext]_<<part, lawVars, vars, jitVars>>

(* What is left in an x87 register that has been popped is never read again: *)
(* it does not tell two states apart.                                        *)
Shown(f, depth) == [f EXCEPT !.st = [r \in DOMAIN f.st |->
                                       IF (r - f.top) % Slots < depth THEN f.st[r] ELSE 0]]
InstructionsView ==
    << sample, Shown(fpu, Len(stack.now)), stack,
       IF area = << >> THEN area ELSE Shown(area, Len(stack.saved)) >>

View == << part, CASE part = "instructions" -> InstructionsView
                   [] part = "cache" -> vars
                   [] part = "translator" -> jitVars >>

-----------------------------------------------------------------------------
(* RunsWhatMemoryHolds and WhatIsReachedIsCurrent are of CodeCache, and      *)
(* X87IsAStack of X87.                                                       *)

(* Integer instructions compute what they are for: InstructionLaws.          *)
IntegerExact == part = "instructions" => Instructions!IntegerExact

(* Registers have one value under all their names: InstructionLaws.          *)
RegistersCohere == part = "instructions" => Instructions!RegistersCohere

(* The packed instructions agree with one another: InstructionLaws.          *)
PackedAgree == part = "instructions" => Instructions!PackedAgree

(* Translation cannot be told from interpretation: Translator.               *)
RunsAsInterpreted == part = "translator" => Jit!RunsAsInterpreted
=============================================================================
