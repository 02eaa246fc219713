------------------------------- MODULE MCWaits -------------------------------
(* What blocks and is woken, for TLC: the locks of GuestLocks, the nested     *)
(* loops of SpawnWait and the futexes of LinuxThreads, which share no state.  *)
(* A run is of the part chosen at its start, under that part's own fairness;  *)
(* the others stay as they began.  The properties are those of the modules.   *)
EXTENDS GuestLocks, SpawnWait, LinuxThreads

CONSTANTS L, S, CV

VARIABLE part

WaitsStart ==
    /\ part \in {"locks", "spawn", "linux"}
    /\ Init /\ SpawnInit /\ LinuxInit
    /\ part # "linux" => bits = 64 /\ ~joining

LocksMove  == part = "locks" /\ Next /\ UNCHANGED <<part, spawnVars, linuxVars>>
SpawnMove  == part = "spawn" /\ SpawnNext /\ UNCHANGED <<part, vars, linuxVars>>
LinuxMove  == part = "linux" /\ LinuxNext /\ UNCHANGED <<part, vars, spawnVars>>

WaitsFairness ==
    /\ WF_vars(part = "locks" /\ Next) /\ WF_vars(part = "locks" /\ Preempt)
    /\ WF_spawnVars(part = "spawn" /\ SpawnNext)
    /\ WF_spawnVars(part = "spawn" /\ \E p \in Procs : EndSlice(p))
    /\ WF_linuxVars(part = "linux" /\ LinuxNext)

AllVars == <<part, vars, spawnVars, linuxVars>>
WaitsSpec == WaitsStart /\ [][LocksMove \/ SpawnMove \/ LinuxMove]_AllVars /\ WaitsFairness
==============================================================================
