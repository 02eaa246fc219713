---------------------------- MODULE PosixFiles -----------------------------
(***************************************************************************)
(* What a guest is promised of its files: open file descriptions with one  *)
(* offset each, shared by the descriptors dup and fork make, every         *)
(* transfer at once in the file, and no rule about the order of reads and  *)
(* writes.  There is no buffer here, no direction and no stream to close:  *)
(* FileTable implements this over the C library's FILE.                    *)
(*                                                                         *)
(* Where the emulator promises less than POSIX the specification says so:  *)
(* a file without its name cannot be measured (Size), and a process that   *)
(* is saved and resumed rejoins each file by its path, on its own, and     *)
(* finds its standard descriptors anew (Resume).                           *)
(***************************************************************************)
EXTENDS Integers, Sequences, FiniteSets

CONSTANTS Paths, Inodes, Descs, Fds, Tables, Spellings, Offsets, Texts

VARIABLES names, contents, desc, table, reply

vars == <<names, contents, desc, table, reply>>

Free == [ino |-> 0, append |-> FALSE, pos |-> 0]
NoEntry == [desc |-> 0, std |-> FALSE, path |-> "", readable |-> FALSE, writable |-> FALSE,
            append |-> FALSE, text |-> FALSE]
StdOut == [NoEntry EXCEPT !.std = TRUE, !.writable = TRUE]
Err(e) == <<"err", e>>
Nothing == UNCHANGED <<names, contents, desc, table>>

(***************************************************************************)
(* The bytes of a file.                                                    *)
(***************************************************************************)
Least(S) == CHOOSE n \in S : \A m \in S : n <= m
Chunk(i, at, n) == SubSeq(contents[i], at + 1, Least({at + n, Len(contents[i])}))
Patched(i, at, s) ==
  LET c == contents[i]
      end == at + Len(s)
  IN  [k \in 1..(IF end > Len(c) THEN end ELSE Len(c)) |->
         IF k \in (at + 1)..end THEN s[k - at] ELSE IF k <= Len(c) THEN c[k] ELSE "nul"]

\* s made n bytes long.
Ending(s, n) == SubSeq([k \in 1..n |-> IF k <= Len(s) THEN s[k] ELSE "nul"], 1, n)

\* A text descriptor ends its lines with CR LF in the file.
OnDisk(e, s) == IF e.text /\ s = <<"lf">> THEN <<"cr", "lf">> ELSE s
Joined(s) ==
  LET upto[k \in 0..Len(s)] ==
        IF k = 0 THEN <<>>
        ELSE IF s[k] = "cr" /\ k < Len(s) /\ s[k + 1] = "lf" THEN upto[k - 1]
        ELSE Append(upto[k - 1], s[k])
  IN  upto[Len(s)]
ToGuest(e, s) == IF e.text THEN Joined(s) ELSE s

(***************************************************************************)
(* The life of descriptions and files: both go with their last user.       *)
(***************************************************************************)
Keeps(tab, nam, con, des) ==
  LET used == {tab[t][fd].desc : t \in Tables, fd \in Fds}
      live == [d \in Descs |-> IF d \in used THEN des[d] ELSE Free]
  IN  /\ table' = tab /\ names' = nam /\ desc' = live
      /\ contents' = [i \in Inodes |-> IF (\E p \in Paths : nam[p] = i) \/ (\E d \in Descs : live[d].ino = i)
                                       THEN con[i] ELSE <<>>]

FreeFds(t) == {fd \in Fds : fd >= 3 /\ table[t][fd] = NoEntry}

\* A file is created only where the flags ask for it and emptied only where
\* they ask for that.
Open(t, path, f) ==
  \/ reply' = Err("EEXIST") /\ names[path] # 0 /\ f.create /\ f.exclusive /\ Nothing
  \/ reply' = Err("ENOENT") /\ names[path] = 0 /\ ~f.create /\ Nothing
  \/ /\ FreeFds(t) # {} /\ reply' = <<"fd", Least(FreeFds(t))>>
     /\ IF names[path] # 0 THEN ~(f.create /\ f.exclusive) /\ names' = names
        ELSE f.create /\ (\A p \in Paths : names[p] # names'[path]) /\ (\A x \in Descs : desc[x].ino # names'[path])
     /\ LET fd == Least(FreeFds(t))
            new == [NoEntry EXCEPT !.desc = table'[t][fd].desc, !.path = path, !.readable = f.read,
                                   !.writable = f.write, !.append = f.append, !.text = ~f.binary]
            i == names'[path]
        IN  /\ i # 0 /\ table'[t][fd] = new /\ desc[new.desc] = Free
            /\ \E at \in (IF f.append THEN {0, Len(contents[i])} ELSE {0}) :
                 Keeps([table EXCEPT ![t][fd] = new], [names EXCEPT ![path] = i],
                       [contents EXCEPT ![i] = IF f.write /\ f.truncate THEN <<>> ELSE @],
                       [desc EXCEPT ![new.desc] = [ino |-> i, append |-> f.append, pos |-> at]])

Close(t, fd) ==
  reply' = <<"ok">> /\ table[t][fd] # NoEntry /\ Keeps([table EXCEPT ![t][fd] = NoEntry], names, contents, desc)

\* A transfer at offset at; keep says whether the description's offset stays.
Read(t, fd, n, at, keep) ==
  LET e == table[t][fd]
      got == Chunk(desc[e.desc].ino, at, n)
  IN  /\ e.desc # 0
      /\ IF ~e.readable THEN reply' = Err("EBADF") /\ Nothing
         ELSE /\ reply' = <<"read", ToGuest(e, got)>>
              /\ desc' = IF keep THEN desc ELSE [desc EXCEPT ![e.desc].pos = at + Len(got)]
              /\ UNCHANGED <<names, contents, table>>

Write(t, fd, s, at, keep) ==
  LET e == table[t][fd]
      i == desc[e.desc].ino
      from == IF desc[e.desc].append THEN Len(contents[i]) ELSE at
  IN  /\ e.desc # 0
      /\ IF ~e.writable THEN reply' = Err("EBADF") /\ Nothing
         ELSE /\ reply' = <<"wrote", Len(s)>>
              /\ contents' = [contents EXCEPT ![i] = Patched(i, from, OnDisk(e, s))]
              /\ desc' = IF keep THEN desc ELSE [desc EXCEPT ![e.desc].pos = from + Len(OnDisk(e, s))]
              /\ UNCHANGED <<names, table>>

Seek(t, fd, base, off) ==
  LET at == base + off
  IN  /\ table[t][fd].desc # 0
      /\ IF at < 0 THEN reply' = Err("EINVAL") /\ Nothing
         ELSE reply' = <<"at", at>> /\ desc' = [desc EXCEPT ![table[t][fd].desc].pos = at]
              /\ UNCHANGED <<names, contents, table>>

\* SetEndOfFile: the file ends where the description stands.
Truncate(t, fd) ==
  LET e == table[t][fd]
      x == desc[e.desc]
  IN  /\ e.desc # 0
      /\ IF ~e.writable THEN reply' = Err("EINVAL") /\ Nothing
         ELSE /\ reply' = <<"ok">>
              /\ contents' = [contents EXCEPT ![x.ino] = Ending(@, x.pos)]
              /\ UNCHANGED <<names, desc, table>>

Size(t, fd) ==
  LET e == table[t][fd]
  IN  /\ e.desc # 0 /\ Nothing
      /\ reply' = IF names[e.path] = 0 THEN Err("ENOENT") ELSE <<"size", Len(contents[desc[e.desc].ino])>>

Remove(p) ==
  IF names[p] = 0 THEN reply' = Err("ENOENT") /\ Nothing
  ELSE reply' = <<"ok">> /\ Keeps(table, [names EXCEPT ![p] = 0], contents, desc)
Rename(p, q) ==
  IF names[p] = 0 THEN reply' = Err("ENOENT") /\ Nothing
  ELSE reply' = <<"ok">> /\ Keeps(table, [names EXCEPT ![p] = 0, ![q] = names[p]], contents, desc)

Dup(t, fd, to) ==
  \/ reply' = Err("EBADF") /\ table[t][fd] = NoEntry /\ Nothing
  \/ /\ reply' = <<"fd", to>> /\ table[t][fd] # NoEntry
     /\ Keeps([table EXCEPT ![t][to] = table[t][fd]], names, contents, desc)

\* The descriptors a process hands on or gives up.
Become(t, entries) == reply' = <<"ok">> /\ Keeps([table EXCEPT ![t] = entries], names, contents, desc)
Fork(t, u) == Become(u, table[t])
Install(t, fd, u) == Become(u, [g \in Fds |-> IF g = 1 THEN table[t][fd] ELSE NoEntry])
Exit(t) == Become(t, [fd \in Fds |-> NoEntry])

Resume ==
  LET back == {fd \in Fds : fd > 2 /\ table[1][fd].desc # 0 /\ names[table[1][fd].path] # 0}
  IN  \E own \in [back -> Descs] :
        /\ \A f, g \in back : f # g => own[f] # own[g]
        /\ reply' = <<"ok">>
        /\ Keeps([table EXCEPT ![1] = [fd \in Fds |->
                    IF fd \in back THEN [table[1][fd] EXCEPT !.desc = own[fd]]
                    ELSE IF fd = 1 THEN StdOut ELSE NoEntry]],
                 names, contents,
                 [d \in Descs |-> IF \E fd \in back : own[fd] = d
                                  THEN LET e == table[1][CHOOSE fd \in back : own[fd] = d]
                                       IN  [ino |-> names[e.path], append |-> e.append, pos |-> desc[e.desc].pos]
                                  ELSE Free])

\* The standard output answers and has no offset.
Console(t, fd) ==
  table[t][fd].std /\ reply' \in {<<"wrote", 1>>, Err("EINVAL"), Err("EBADF")} /\ Nothing

At(t, fd) == desc[table[t][fd].desc].pos

Init ==
  /\ names \in [Paths -> {0, 1}] /\ \A p, q \in Paths : p # q => names[p] = 0 \/ names[q] = 0
  /\ contents = [i \in Inodes |-> IF \E p \in Paths : names[p] = i THEN <<"x">> ELSE <<>>]
  /\ desc = [d \in Descs |-> Free]
  /\ table = [t \in Tables |-> [fd \in Fds |-> IF t = 1 /\ fd = 1 THEN StdOut ELSE NoEntry]]
  /\ reply = <<"ok">>

Base(t, fd) == {0, At(t, fd), Len(contents[desc[table[t][fd].desc].ino])}

Opening == reply'[1] \in {"fd", "err"} /\ \E t \in Tables, p \in Paths, f \in Spellings : Open(t, p, f)
Transfer(t, fd) ==
  \/ reply'[1] \in {"read", "err"} /\ \E n \in Offsets : \/ Read(t, fd, n, At(t, fd), FALSE)
                                                         \/ \E at \in Offsets : Read(t, fd, n, at, TRUE)
  \/ reply'[1] \in {"wrote", "err"} /\ \E s \in Texts : \/ Write(t, fd, s, At(t, fd), FALSE)
                                                        \/ \E at \in Offsets : Write(t, fd, s, at, TRUE)
Placing(t, fd) ==
  \/ reply'[1] \in {"at", "err"} /\ \E off \in {-1, 0, 1}, base \in Base(t, fd) : Seek(t, fd, base, off)
  \/ reply'[1] \in {"ok", "err"} /\ Truncate(t, fd)
  \/ reply'[1] \in {"size", "err"} /\ Size(t, fd)
  \/ reply' = <<"ok">> /\ Nothing
Descriptors(t, fd) ==
  \/ reply'[1] \in {"fd", "err"} /\ \E to \in Fds : Dup(t, fd, to)
  \/ reply' = <<"ok">> /\ Close(t, fd)
Processes ==
  reply' = <<"ok">> /\ \/ \E t, u \in Tables : Fork(t, u) \/ \E fd \in Fds : Install(t, fd, u)
                       \/ \E t \in Tables : Exit(t)
                       \/ Resume

Next ==
  \/ Opening
  \/ \E t \in Tables, fd \in Fds : \/ table[t][fd].desc # 0 /\ (Transfer(t, fd) \/ Placing(t, fd))
                                   \/ Console(t, fd) \/ Descriptors(t, fd)
  \/ Processes
  \/ reply'[1] \in {"ok", "err"} /\ \E p, q \in Paths : Remove(p) \/ Rename(p, q)

Spec == Init /\ [][Next]_vars

=============================================================================
