---------------------------- MODULE WindowsStart ----------------------------
(***************************************************************************)
(* What a Windows program finds when it starts, and what it hands on: the   *)
(* command line as one string and as arguments, the environment kept by the *)
(* emulator, and the path from the segment register through the TEB and the *)
(* PEB to the process parameters, where a C runtime that is itself guest    *)
(* code looks.  A process is started from the command line of a root, by    *)
(* CreateProcess() with a command line the parent has quoted, or by          *)
(* _wspawnv() with a vector.                                                *)
(*                                                                         *)
(* A command line is a sequence of the characters its rules tell apart; the *)
(* strings of the environment are pairs <<name, value>>, the text of those  *)
(* being plain ASCII (read_environment_block() says it relies on that).     *)
(***************************************************************************)
EXTENDS Naturals, Sequences, SequencesExt, FiniteSets

CONSTANTS
  Vectors,      \* the argument vectors parents pass
  RootVectors,  \* those a user passes to the root process
  Names,        \* names of variables
  Values,       \* their values
  MaxStarts,    \* bound: processes started
  MaxChanges    \* bound: changes made to an environment

Letter == "a"
Space == " "
Quote == "\""
Backslash == "\\"

VARIABLES
  bits,      \* 32 or 64
  args,      \* args_
  raw,       \* raw_command_line_, empty when the emulator was given a vector
  env,       \* env_
  teb,       \* what setup_windows_env() wrote
  meant,     \* the vector the parent meant, how it passed it, and the
             \* environment as a function (ghost)
  starts,    \* processes started so far (bounded)
  changes    \* changes of the environment so far (bounded)

vars == <<bits, args, raw, env, teb, meant, starts, changes>>

-----------------------------------------------------------------------------
(***************************************************************************)
(* split_command_line()                                                     *)
(***************************************************************************)
Repeat(c, n) == [i \in 1 .. n |-> c]

(* the backslashes from place i on *)
RECURSIVE Run(_, _)
Run(cmd, i) == IF i <= Len(cmd) /\ cmd[i] = Backslash THEN 1 + Run(cmd, i + 1) ELSE 0

RECURSIVE SkipSpaces(_, _)
SkipSpaces(cmd, i) ==
  IF i <= Len(cmd) /\ cmd[i] = Space THEN SkipSpaces(cmd, i + 1) ELSE i

(* any backslash takes the quote's meaning away: a mutant *)
EscapesQuote_Any(n) == n > 0

EscapesQuote(n) == n % 2 = 1

(* An argument from place i on and the place where it ends: n backslashes   *)
(* before a quote are n/2 and, if n is odd, the quote itself.               *)
RECURSIVE Arg(_, _, _, _)
Arg(cmd, i, quoted, arg) ==
  IF i > Len(cmd) \/ (~quoted /\ cmd[i] = Space) THEN <<arg, i>>
  ELSE IF cmd[i] = Backslash
  THEN LET n == Run(cmd, i)
           j == i + n
       IN IF j > Len(cmd) \/ cmd[j] # Quote
          THEN Arg(cmd, j, quoted, arg \o Repeat(Backslash, n))
          ELSE IF EscapesQuote(n)
          THEN Arg(cmd, j + 1, quoted, arg \o Repeat(Backslash, n \div 2) \o <<Quote>>)
          ELSE Arg(cmd, j, quoted, arg \o Repeat(Backslash, n \div 2))
  ELSE IF cmd[i] = Quote
  THEN IF quoted /\ i < Len(cmd) /\ cmd[i + 1] = Quote
       THEN Arg(cmd, i + 2, quoted, Append(arg, Quote))
       ELSE Arg(cmd, i + 1, ~quoted, arg)
  ELSE Arg(cmd, i + 1, quoted, Append(arg, cmd[i]))

RECURSIVE MoreArgs(_, _)
MoreArgs(cmd, i) ==
  LET from == SkipSpaces(cmd, i)
      one  == Arg(cmd, from, FALSE, <<>>)
  IN IF from > Len(cmd) THEN <<>> ELSE <<one[1]>> \o MoreArgs(cmd, one[2])

(* the program's name has rules of its own: quotes around all of it, or none *)
ProgramName(cmd, i) ==
  LET ends(c, from) == {j \in from .. Len(cmd) : cmd[j] = c} \union {Len(cmd) + 1}
      First(S) == CHOOSE j \in S : \A k \in S : j <= k
  IN IF cmd[i] = Quote
     THEN LET j == First(ends(Quote, i + 1)) IN <<SubSeq(cmd, i + 1, j - 1), j + 1>>
     ELSE LET j == First(ends(Space, i)) IN <<SubSeq(cmd, i, j - 1), j>>

SplitCommandLine(cmd) ==
  LET from == SkipSpaces(cmd, 1)
      name == ProgramName(cmd, from)
  IN IF from > Len(cmd) THEN <<>> ELSE <<name[1]>> \o MoreArgs(cmd, name[2])

(***************************************************************************)
(* command_line(): what GetCommandLine() returns.  Without the parent's     *)
(* string the arguments are joined, those with a space between quotes.      *)
(***************************************************************************)
Has(arg, c) == \E i \in DOMAIN arg : arg[i] = c

JoinWith(words) ==
  FoldLeft(LAMBDA line, w : IF line = <<>> THEN w ELSE line \o <<Space>> \o w,
           <<>>, words)

CommandLine ==
  IF raw # <<>> THEN raw
  ELSE JoinWith([i \in DOMAIN args |->
                   IF Has(args[i], Space) THEN <<Quote>> \o args[i] \o <<Quote>>
                                          ELSE args[i]])

-----------------------------------------------------------------------------
(***************************************************************************)
(* The environment: getenv(), setenv(), unsetenv().                         *)
(***************************************************************************)
IndexOf(e, name) == {i \in DOMAIN e : e[i][1] = name}
FirstOf(e, name) == CHOOSE i \in IndexOf(e, name) : \A j \in IndexOf(e, name) : i <= j

NotSet == "not set"
GetEnv(e, name) == IF IndexOf(e, name) = {} THEN NotSet ELSE e[FirstOf(e, name)][2]

SetEnv(e, name, value) ==
  IF IndexOf(e, name) = {} THEN Append(e, <<name, value>>)
  ELSE [e EXCEPT ![FirstOf(e, name)] = <<name, value>>]

UnsetEnv(e, name) ==
  IF IndexOf(e, name) = {} THEN e ELSE RemoveAt(e, FirstOf(e, name))

(* environment_block() and read_environment_block(): a string "name=value"  *)
(* is taken apart at its first '=' again                                    *)
EnvironmentBlock(e) == e
ReadEnvironmentBlock(block) == SelectSeq(block, LAMBDA s : s[1] # "")

-----------------------------------------------------------------------------
(***************************************************************************)
(* setup_windows_env(): what is written for a C runtime to find, each as a   *)
(* structure, an offset in it, a size, and a value or the structure pointed  *)
(* to.                                                                      *)
(***************************************************************************)
Field(in, at, size, value) == [in |-> in, at |-> at, size |-> size, value |-> value]

(* a UNICODE_STRING: two lengths and, aligned, the buffer                   *)
PutUnicodeString(b, at, text) ==
  {Field("params", at, 2, <<"length", text>>),
   Field("params", at + 2, 2, <<"maximum", text>>),
   Field("params", at + (IF b = 64 THEN 8 ELSE 4), b \div 8, <<"text", text>>)}

SetupWindowsEnv(b, name, cmd) ==
  {Field("teb", IF b = 64 THEN 8 ELSE 4, b \div 8, <<"stack", "top">>),
   Field("teb", IF b = 64 THEN 16 ELSE 8, b \div 8, <<"stack", "base">>),
   Field("teb", IF b = 64 THEN 48 ELSE 24, b \div 8, <<"to", "teb">>),
   Field("teb", IF b = 64 THEN 88 ELSE 44, b \div 8, <<"to", "tls">>),
   Field("teb", IF b = 64 THEN 96 ELSE 48, b \div 8, <<"to", "peb">>),
   Field("peb", IF b = 64 THEN 16 ELSE 8, b \div 8, <<"to", "image">>),
   Field("peb", IF b = 64 THEN 32 ELSE 16, b \div 8, <<"to", "params">>),
   Field("params", IF b = 64 THEN 32 ELSE 24, b \div 8, <<"handle", 1>>),
   Field("params", IF b = 64 THEN 40 ELSE 28, b \div 8, <<"handle", 2>>),
   Field("params", IF b = 64 THEN 48 ELSE 32, b \div 8, <<"handle", 3>>)}
  \union PutUnicodeString(b, IF b = 64 THEN 96 ELSE 56, name)
  \union PutUnicodeString(b, IF b = 64 THEN 112 ELSE 64, cmd)

Load(b, vector, line, environment) ==
  /\ bits' = b
  /\ args' = vector
  /\ raw' = line
  /\ env' = environment
  /\ teb' = SetupWindowsEnv(b, IF vector = <<>> THEN <<"program">> ELSE vector[1],
                            IF line # <<>> THEN line ELSE JoinWith(vector))

-----------------------------------------------------------------------------
(***************************************************************************)
(* How a parent quotes arguments (the rules every C runtime documents).     *)
(***************************************************************************)
RECURSIVE QuotedFrom(_, _)
QuotedFrom(arg, i) ==
  LET n == Run(arg, i)
      j == i + n
  IN IF j > Len(arg) THEN Repeat(Backslash, 2 * n)
     ELSE IF arg[j] = Quote
     THEN Repeat(Backslash, 2 * n + 1) \o <<Quote>> \o QuotedFrom(arg, j + 1)
     ELSE Repeat(Backslash, n) \o <<arg[j]>> \o QuotedFrom(arg, j + 1)

Plain(arg) == arg # <<>> /\ ~Has(arg, Space) /\ ~Has(arg, Quote)
Quoted(arg) == IF Plain(arg) THEN arg ELSE <<Quote>> \o QuotedFrom(arg, 1) \o <<Quote>>
QuotedLine(vector) == JoinWith([i \in DOMAIN vector |-> Quoted(vector[i])])

(* the environment as the guest thinks of it *)
Meaning(e) == [n \in Names |-> GetEnv(e, n)]

(* A root process: its vector, and the host's environment.                  *)
Init ==
  /\ starts = 0
  /\ changes = 0
  /\ bits \in {32, 64}
  /\ args \in RootVectors
  /\ raw = <<>>
  /\ env \in {<<>>} \union {<<<<n, v>>>> : n \in Names, v \in Values}
  /\ teb = SetupWindowsEnv(bits, args[1], JoinWith(args))
  /\ meant = [args |-> args, how |-> "vector", env |-> Meaning(env)]

(* SetEnvironmentVariable(), _putenv() and their variants                   *)
ChangeEnv ==
  /\ changes < MaxChanges
  /\ changes' = changes + 1
  /\ \E n \in Names :
       \/ \E v \in Values : /\ env' = SetEnv(env, n, v)
                            /\ meant' = [meant EXCEPT !.env[n] = v]
       \/ /\ env' = UnsetEnv(env, n)
          /\ meant' = [meant EXCEPT !.env[n] = NotSet]
  /\ UNCHANGED <<bits, args, raw, teb, starts>>

(* create_process() and System::spawn(), with the parent's environment or a *)
(* copy of it made by GetEnvironmentStrings()                               *)
CreateProcess ==
  /\ starts < MaxStarts
  /\ starts' = starts + 1
  /\ \E b \in {32, 64}, vector \in Vectors, own \in BOOLEAN :
       LET line == QuotedLine(vector)
       IN /\ Load(b, SplitCommandLine(line), line,
                  IF own THEN ReadEnvironmentBlock(EnvironmentBlock(env)) ELSE env)
          /\ meant' = [meant EXCEPT !.args = vector, !.how = "line"]
  /\ UNCHANGED changes

(* _wspawnv() and System::spawn()                                           *)
SpawnV ==
  /\ starts < MaxStarts
  /\ starts' = starts + 1
  /\ \E b \in {32, 64}, vector \in Vectors :
       /\ Load(b, vector, <<>>, env)
       /\ meant' = [meant EXCEPT !.args = vector, !.how = "vector"]
  /\ UNCHANGED changes

Next == ChangeEnv \/ CreateProcess \/ SpawnV

Spec == Init /\ [][Next]_vars

-----------------------------------------------------------------------------
(* How a C runtime that is guest code finds its command line.               *)
Reads(in, at) == {f.value : f \in {g \in teb : g.in = in /\ g.at = at}}
FoundByRuntime ==
  IF /\ Reads("teb", IF bits = 64 THEN 96 ELSE 48) = {<<"to", "peb">>}
     /\ Reads("peb", IF bits = 64 THEN 32 ELSE 16) = {<<"to", "params">>}
  THEN Reads("params", IF bits = 64 THEN 120 ELSE 68) ELSE {}

(***************************************************************************)
(* A process has the arguments its parent meant, however they were quoted;  *)
(* one started from a command line finds that very line by both ways to it; *)
(* no field of the structures lies on another; and every variable has the    *)
(* value it was last given, by itself or by the processes before it.        *)
(***************************************************************************)
ChildHears ==
  /\ args = meant.args
  /\ meant.how = "line" => /\ SplitCommandLine(CommandLine) = meant.args
                           /\ FoundByRuntime = {<<"text", CommandLine>>}
  /\ \A f, g \in teb : f # g /\ f.in = g.in =>
       f.at + f.size <= g.at \/ g.at + g.size <= f.at
  /\ Meaning(env) = meant.env

(***************************************************************************)
(* hooks_win32.cpp:118: "Real Windows quotes arguments containing spaces;   *)
(* match that so a guest parsing its own command line sees what it          *)
(* expects": what GetCommandLine() returns splits into the arguments again. *)
(***************************************************************************)
LineSaysArguments == SplitCommandLine(CommandLine) = args
=============================================================================
