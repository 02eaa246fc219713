------------------------------- MODULE Modules -------------------------------
(***************************************************************************)
(* The modules of a Windows guest: loading and binding DLLs, giving each   *)
(* its thread-local storage, running its initialisers, and the functions   *)
(* registered for the end of the process (modules.cpp; call_guest, atexit  *)
(* and onexit tables in emulator.cpp).  An initialiser or an exit handler  *)
(* is guest code called from the middle of the emulator's own, and may     *)
(* itself load a library, register a handler, start a thread or exit.      *)
(*                                                                         *)
(* work is the emulator's call stack, a record for each function that is   *)
(* in progress.                                                            *)
(***************************************************************************)
EXTENDS Integers, Sequences, FiniteSets, SequencesExt

CONSTANTS
  Libs,         \* libraries that can be found
  WithTls,      \* those with static TLS and a TLS callback
  Graphs,       \* what binding each of Libs and "exe" asks to be loaded, in order
  Handlers,     \* functions a guest may register to be called at its end
  MaxThreads    \* bound on the guest's threads

ASSUME ModulesAssumption ==
  /\ "exe" \notin Libs /\ "process" \notin Libs /\ WithTls \subseteq Libs
  /\ \A g \in Graphs : g \in [Libs \cup {"exe"} -> Seq(Libs)]

VARIABLES
  imports,      \* the member of Graphs the guest has
  modules,      \* modules_: the libraries mapped, in order
  ready,        \* guest_env_ready_
  initialised,  \* Module::initialised
  work,         \* the call stack
  halted,       \* the guest has exited
  threads,      \* number of guest threads
  slot,         \* [Libs -> TLS slot, 0 before it has one]
  lastSlot,     \* next_tls_slot_: the last slot given away
  block,        \* TLS blocks there are: a set of <<thread, slot>>
  exits,        \* the exit lists: [{"process"} \cup Libs -> Seq(Handlers)]
  tables,       \* onexit_tables_: the tables in order of first use
  began,        \* calls of guest code, in order
  since         \* [Libs -> the Era in which each was mapped, "never" before that]

moduleVars == <<imports, modules, ready, initialised, work, halted, threads, slot, lastSlot, block, exits, tables, began, since>>
tls == <<threads, slot, lastSlot, block>>
lists == <<exits, tables>>

Top == work[Len(work)]
Below == Front(work)
Then(task) == Append(Below, task)          \* Top gives way to task
Push(task, under) == Append(under, task)
Doing(what) == work # <<>> /\ Top.do = what

Bind(m, i) == [do |-> "bind", of |-> m, at |-> i]
InitTask(m, at) == [do |-> "init", of |-> m, at |-> at]
Pending(i) == [do |-> "pending", at |-> i]
Running(m, saved) == [do |-> "run", of |-> m, saved |-> saved]
Drain(list) == [do |-> "drain", list |-> list]
Tables(i) == [do |-> "tables", at |-> i]
Exiting == [do |-> "exit"]

----------------------------------------------------------------------------
(* Guest code called and left.                                              *)

\* call_guest: a fresh run of the guest, whatever was going on around it.
CallGuest(m, what, under) ==
  /\ work' = Push(Running(m, halted), under)
  /\ halted' = FALSE
  /\ began' = Append(began, <<what, m>>)

\* It returns, or the guest has exited within it, which is remembered.
GuestReturns ==
  /\ Doing("run") /\ (Top.of # "exe" \/ halted)
  /\ work' = Below
  /\ halted' = (Top.saved \/ halted)
  /\ UNCHANGED <<imports, modules, ready, initialised, tls, lists, began, since>>

----------------------------------------------------------------------------
(* Loading.                                                                 *)

Era == CASE ~ready -> "start"
         [] ready /\ <<"main", "exe">> \notin ToSet(began) -> "initialising"
         [] OTHER -> "running"

\* load_library: a module is registered before its imports are bound, so that a
\* cycle finds it; modules_ is where a name is looked for first.
Load(n, under) ==
  IF n \in ToSet(modules) THEN work' = under /\ UNCHANGED <<modules, since>>
  ELSE /\ modules' = Append(modules, n)
       /\ work' = Push(Bind(n, 1), under)
       /\ since' = [since EXCEPT ![n] = Era]

\* setup_static_tls of the modules ms in turn: each gets a slot of its own, and a
\* block for every thread there is.
SetUpTls(ms) ==
  LET New == {i \in 1..Len(ms) : ms[i] \in WithTls /\ slot[ms[i]] = 0}
      Number(i) == lastSlot + Cardinality({j \in New : j <= i})
  IN  /\ slot' = [m \in Libs |-> IF \E i \in New : ms[i] = m THEN Number(CHOOSE i \in New : ms[i] = m) ELSE slot[m]]
      /\ lastSlot' = lastSlot + Cardinality(New)
      /\ block' = block \cup (1..threads) \X {Number(i) : i \in New}
      /\ UNCHANGED threads

\* bind_imports, and what load_library does when it is over.
BindImports ==
  /\ Doing("bind")
  /\ \/ /\ Top.at <= Len(imports[Top.of])
        /\ Load(imports[Top.of][Top.at], Then(Bind(Top.of, Top.at + 1)))
        /\ UNCHANGED tls
     \/ /\ Top.at > Len(imports[Top.of]) /\ UNCHANGED <<modules, since>>
        /\ IF ready
           THEN SetUpTls(<<Top.of>>) /\ work' = Then(InitTask(Top.of, "start"))
           ELSE work' = Below /\ UNCHANGED tls
  /\ UNCHANGED <<imports, ready, initialised, halted, lists, began>>

\* run_pending_module_init, once the program and all it needs have been mapped:
\* thread-local storage for all, then the modules from the last to the first.
EnvironmentUp ==
  /\ work = <<>> /\ ~ready
  /\ ready' = TRUE
  /\ SetUpTls(modules)
  /\ work' = <<Pending(Len(modules))>>
  /\ UNCHANGED <<imports, modules, initialised, halted, lists, began, since>>

InitPending ==
  /\ Doing("pending")
  /\ IF Top.at = 0
     THEN IF halted THEN work' = Below /\ UNCHANGED <<halted, began>>
                    ELSE CallGuest("exe", "main", Below)
     ELSE /\ work' = Push(InitTask(modules[Top.at], "start"), Then(Pending(Top.at - 1)))
          /\ UNCHANGED <<halted, began>>
  /\ UNCHANGED <<imports, modules, ready, initialised, tls, lists, since>>

\* run_module_init: the TLS callbacks, then DllMain.
StartInit ==
  /\ Doing("init") /\ Top.at = "start"
  /\ IF Top.of \in initialised
     THEN work' = Below /\ UNCHANGED <<initialised, halted, began>>
     ELSE /\ initialised' = initialised \cup {Top.of}
          /\ IF Top.of \in WithTls
             THEN CallGuest(Top.of, "callback", Then(InitTask(Top.of, "called")))
             ELSE CallGuest(Top.of, "DllMain", Below)
  /\ UNCHANGED <<imports, modules, ready, tls, lists, since>>

CallDllMain ==
  /\ Doing("init") /\ Top.at = "called"
  /\ IF halted THEN work' = Below /\ UNCHANGED <<halted, began>>
               ELSE CallGuest(Top.of, "DllMain", Below)
  /\ UNCHANGED <<imports, modules, ready, initialised, tls, lists, since>>

----------------------------------------------------------------------------
(* What guest code does.                                                    *)

Free == Doing("run") /\ ~halted

CallLoadLibrary(n) ==
  /\ Free /\ Load(n, work)
  /\ UNCHANGED <<imports, ready, initialised, halted, tls, lists, began>>

\* allocate_thread_tls: a block for each template there is.
CreateThread ==
  /\ Free /\ threads < MaxThreads
  /\ threads' = threads + 1
  /\ block' = block \cup {<<threads + 1, slot[m]>> : m \in {n \in Libs : slot[n] # 0}}
  /\ UNCHANGED <<imports, modules, ready, initialised, work, halted, slot, lastSlot, lists, began, since>>

\* add_atexit: atexit registers with the process, a library with its own table.
Registered == UNION {ToSet(exits[k]) : k \in DOMAIN exits}
Known(h) == h \in Registered \/ <<"handler", h>> \in ToSet(began)
            \/ \E i \in 1..Len(work) : work[i].do = "drain" /\ h \in ToSet(work[i].list)
AddAtExit(h, k) ==
  /\ Free /\ ~Known(h)
  /\ exits' = [exits EXCEPT ![k] = Append(@, h)]
  /\ tables' = IF k = "process" \/ k \in ToSet(tables) THEN tables ELSE Append(tables, k)
  /\ UNCHANGED <<imports, modules, ready, initialised, work, halted, tls, began, since>>

\* exit and ExitProcess: run_atexit, the process's list and then every table,
\* and then the end.
Exit ==
  /\ Free
  /\ work' = work \o <<Exiting, Tables(1), Drain(exits["process"])>>
  /\ exits' = [exits EXCEPT !["process"] = <<>>]
  /\ UNCHANGED <<imports, modules, ready, initialised, halted, tls, tables, began, since>>

\* Mutant: the table is called as it stands.
RunTable_Keeps(k) ==
  /\ Free /\ k \in ToSet(tables) /\ exits[k] # <<>>
  /\ work' = Append(work, Drain(exits[k]))
  /\ UNCHANGED <<imports, modules, ready, initialised, halted, tls, exits, tables, began, since>>

\* _execute_onexit_table
RunTable(k) ==
  /\ Free /\ k \in ToSet(tables) /\ exits[k] # <<>>
  /\ work' = Append(work, Drain(exits[k]))
  /\ exits' = [exits EXCEPT ![k] = <<>>]
  /\ UNCHANGED <<imports, modules, ready, initialised, halted, tls, tables, began, since>>

----------------------------------------------------------------------------
(* The end.                                                                 *)

\* run_onexit_table, its list taken: the newest first, until the guest has exited.
RunHandlers ==
  /\ Doing("drain")
  /\ IF halted \/ Top.list = <<>>
     THEN work' = Below /\ UNCHANGED <<halted, began>>
     ELSE LET h == Top.list[Len(Top.list)]
          IN  /\ work' = Push(Running(h, halted), Then(Drain(Front(Top.list))))
              /\ halted' = FALSE /\ began' = Append(began, <<"handler", h>>)
  /\ UNCHANGED <<imports, modules, ready, initialised, tls, lists, since>>

RunTables ==
  /\ Doing("tables")
  /\ IF halted \/ Top.at > Len(tables)
     THEN work' = Below /\ UNCHANGED exits
     ELSE LET k == tables[Top.at]
          IN  work' = Push(Drain(exits[k]), Then(Tables(Top.at + 1))) /\ exits' = [exits EXCEPT ![k] = <<>>]
  /\ UNCHANGED <<imports, modules, ready, initialised, halted, tls, tables, began, since>>

ExitProcess ==
  /\ Doing("exit") /\ halted' = TRUE /\ work' = Below
  /\ UNCHANGED <<imports, modules, ready, initialised, tls, lists, began, since>>

----------------------------------------------------------------------------
ModulesInit ==
  /\ imports \in Graphs
  /\ modules = <<>> /\ ready = FALSE /\ initialised = {}
  /\ work = <<Bind("exe", 1)>> /\ halted = FALSE
  /\ threads = 1 /\ slot = [m \in Libs |-> 0] /\ lastSlot = 0 /\ block = {}
  /\ exits = [k \in {"process"} \cup Libs |-> <<>>] /\ tables = <<>>
  /\ began = <<>> /\ since = [m \in Libs |-> "never"]

ModulesNext ==
  \/ BindImports \/ EnvironmentUp \/ InitPending \/ StartInit \/ CallDllMain
  \/ GuestReturns \/ CreateThread \/ Exit \/ RunHandlers \/ RunTables \/ ExitProcess
  \/ \E n \in Libs : CallLoadLibrary(n) \/ RunTable(n)
  \/ \E h \in Handlers, k \in DOMAIN exits : AddAtExit(h, k)

ModulesSpec == ModulesInit /\ [][ModulesNext]_moduleVars

----------------------------------------------------------------------------
\* What m reaches through imports.
Reach == LET Step(S) == S \cup UNION {ToSet(imports[n]) : n \in S}
         IN  [m \in Libs |-> FoldFunction(LAMBDA i, S : Step(S), ToSet(imports[m]), [i \in 1..Cardinality(Libs) |-> i])]

\* DllMain of one of ms is not called before the initialisers of all it imports
\* have begun, but for a library that needs it in turn.
ImportsFirst(ms) ==
  \A m \in ms : began' # began /\ <<"DllMain", m>> = Last(began') =>
    \A n \in ToSet(imports[m]) : m \in Reach[n] \/ n \in initialised

\* Each library the program was started with finds its imports live: "initialise
\* in reverse to give each module its imports already live" (modules.cpp:329).
ImportsLive == [][ImportsFirst({m \in Libs : since[m] = "start"})]_moduleVars

\* When any of a module's code runs, every thread has a block of its own in the
\* module's slot, and no other module has that slot (setup_static_tls).
OwnTls ==
  \A m \in initialised \cap WithTls :
    /\ slot[m] # 0 /\ \A n \in Libs \ {m} : slot[n] # slot[m]
    /\ \A t \in 1..threads : <<t, slot[m]>> \in block

\* No function registered for the end is called twice, and none that waits in a
\* list is still to be called elsewhere (run_onexit_table takes the list first).
HandlersRunOnce ==
  /\ \A i, j \in 1..Len(began) : began[i][1] = "handler" /\ began[i] = began[j] => i = j
  /\ \A h \in Registered : <<"handler", h>> \notin ToSet(began)

\* Both hold of libraries loaded at any time.
ModulesAreKept == OwnTls /\ HandlersRunOnce

\* A guest that has exited starts no more of its code: exit() called inside an
\* initialiser is honoured "rather than resuming a program that asked to stop"
\* (emulator.cpp:507).
ExitStops == [][began' # began => ~halted]_moduleVars

=============================================================================
