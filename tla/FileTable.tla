----------------------------- MODULE FileTable -----------------------------
(***************************************************************************)
(* The descriptor table of a guest process (files.cpp) over the host's C   *)
(* library.  A guest's open, read, write, lseek, pread, dup, fork, fstat   *)
(* and so on, in any of their four spellings (C stdio, msvcrt's            *)
(* descriptors, Win32 handles, Linux system calls), are calls of           *)
(* FileTable, and FileTable implements each by calls on a host FILE: a     *)
(* buffered stream whose rules about turning from writing to reading the   *)
(* guest has never heard of.                                               *)
(*                                                                         *)
(* Abstractions: a file is a short sequence of bytes, a byte one of four   *)
(* letters ("x", line feed, carriage return, and the zero of a hole); a    *)
(* FILE keeps the bytes it has not handed to the host yet and the          *)
(* direction of its last operation, but no bytes read ahead, which is      *)
(* exact while no two streams write one file (OneWriter).  Pipes are in    *)
(* Processes.                                                              *)
(***************************************************************************)
EXTENDS Integers, Sequences, FiniteSets

CONSTANTS
  Paths,        \* names of files
  Inodes,       \* the host's files, {1, 2, ...}
  Streams,      \* host FILE objects, {1, 2, ...}
  Fds,          \* descriptor numbers, 1 (standard output) among them
  Tables,       \* processes: {1} or {1, 2}
  MaxLen,       \* bound on the length of a file and on an offset
  Spellings,    \* the ways the guest opens a file: a set of OpenFlags
  Texts,        \* what a single write carries: a set of bytes
  Crossing      \* may the guest read through one descriptor what it wrote
                \* through a duplicate of it, and write after such a read?

VARIABLES
  names,        \* [Paths -> inode, or 0 when there is no such file]
  disk,         \* [Inodes -> the bytes the host's file holds]
  stream,       \* [Streams -> the C library's FILE: its file and offset]
  buffer,       \* [Streams -> what that FILE has not handed on, and its direction]
  table,        \* [Tables -> [Fds -> FileTable::Entry]]
  wrote,        \* [Tables -> [Fds -> the entry's last_was_write]]
  reply         \* what the last call answered

vars == <<names, disk, stream, buffer, table, wrote, reply>>

Bytes == {"x", "lf", "cr", "nul"}

ASSUME FileBounds ==
  /\ 1 \in Fds /\ Fds \subseteq Nat /\ IsFiniteSet(Fds) /\ 1 \in Tables
  /\ 1 \in Inodes /\ Inodes \subseteq Nat \ {0} /\ IsFiniteSet(Streams) /\ Streams = 1..Cardinality(Streams)
  /\ MaxLen \in Nat \ {0} /\ Texts \subseteq Bytes

Err(e) == <<"err", e>>

\* FileTable::OpenFlags, without the wide-character form.
OpenFlags == [read : BOOLEAN, write : BOOLEAN, append : BOOLEAN, create : BOOLEAN,
              truncate : BOOLEAN, exclusive : BOOLEAN, binary : BOOLEAN]
F(r, w, a, c, t, x, b) == [read |-> r, write |-> w, append |-> a, create |-> c,
                           truncate |-> t, exclusive |-> x, binary |-> b]

\* parse_mode: fopen's mode strings.
StdioMode(base, plus, b) ==
  CASE base = "w" -> F(plus, TRUE, FALSE, TRUE, TRUE, FALSE, b)
    [] base = "a" -> F(plus, TRUE, TRUE, TRUE, FALSE, FALSE, b)
    [] base = "r" -> F(TRUE, plus, FALSE, FALSE, FALSE, FALSE, b)

\* open(2) and _open: the access mode, and O_CREAT, O_EXCL, O_TRUNC, O_APPEND.
PosixFlags(access, opts) ==
  F(access # "wronly", access # "rdonly", "append" \in opts, "creat" \in opts,
    "trunc" \in opts, "excl" \in opts, TRUE)

\* CreateFile: the generic rights and the creation disposition.
Win32Flags(rights, disposition) ==
  F("read" \in rights \/ rights = {}, "write" \in rights, FALSE,
    disposition \in {"create_new", "create_always", "open_always"},
    disposition \in {"create_always", "truncate_existing"},
    disposition = "create_new", TRUE)

----------------------------------------------------------------------------
(* The C library's FILE (external): ftell, fseek, fflush, fread, fwrite.    *)

Closed == [ino |-> 0, append |-> FALSE, pos |-> 0]
Empty  == [pend |-> <<>>, dir |-> "none", misused |-> FALSE]

Lowest(S) == CHOOSE n \in S : \A m \in S : n <= m
Zeros(n) == [i \in 1..n |-> "nul"]

\* The bytes of c with s laid over it from offset at on; a gap reads as zero.
Overlay(c, at, s) ==
  LET end == at + Len(s)
      size == IF end > Len(c) THEN end ELSE Len(c)
  IN  [i \in 1..size |-> IF i > at /\ i <= end THEN s[i - at]
                         ELSE IF i <= Len(c) THEN c[i] ELSE "nul"]

\* What the file holds once the stream's pending bytes have reached it.
Settled(d, f, b) ==
  IF b.pend = <<>> THEN d
  ELSE [d EXCEPT ![f.ino] = IF f.append THEN @ \o b.pend
                            ELSE Overlay(@, f.pos - Len(b.pend), b.pend)]

(***************************************************************************)
(* A call works on a context: the disk, the stream and its buffer, the     *)
(* entry it was made through with its flag, and the answer so far.  Each   *)
(* FileTable member function is an operator from context to context, and a *)
(* system call that makes several of them is their composition.            *)
(***************************************************************************)
Moved(f, at) == [f EXCEPT !.pos = at]
Facing(b, dir) == [b EXCEPT !.dir = dir]
Handed(b) == [b EXCEPT !.pend = <<>>, !.dir = IF b.dir = "write" THEN "none" ELSE b.dir]
Flushed(c) == [c EXCEPT !.d = Settled(c.d, c.f, c.b), !.b = Handed(c.b)]

\* fseek and ftell: the pending bytes go out first, even when the seek fails.
Placed(c, at) ==
  LET w == Flushed(c)
  IN  IF at < 0 THEN [w EXCEPT !.ret = Err("EINVAL")]
      ELSE [w EXCEPT !.f = Moved(w.f, at), !.b = Facing(w.b, "none"), !.ret = <<"at", at>>]

\* fread.  Reading straight after writing is against the rules of C; the stream
\* remembers it.
Fetched(c, n) ==
  LET w == Flushed(c)
      had == w.d[w.f.ino]
      got == SubSeq(had, w.f.pos + 1, Lowest({w.f.pos + n, Len(had)}))
  IN  [w EXCEPT !.f = Moved(w.f, w.f.pos + Len(got)),
                !.b = [pend |-> <<>>, dir |-> "read", misused |-> w.b.misused \/ c.b.dir = "write"],
                !.ret = <<"read", got>>]

\* fwrite.  Writing straight after reading is against the rules as well.
Stored(c, s) ==
  LET from == IF c.f.append THEN Len(c.d[c.f.ino]) + Len(c.b.pend) ELSE c.f.pos
  IN  [c EXCEPT !.f = Moved(c.f, from + Len(s)),
                !.b = [pend |-> c.b.pend \o s, dir |-> "write", misused |-> c.b.misused \/ c.b.dir = "read"]]

----------------------------------------------------------------------------
(* FileTable.                                                               *)

NoEntry == [desc |-> 0, std |-> FALSE, path |-> "", readable |-> FALSE, writable |-> FALSE,
            append |-> FALSE, text |-> FALSE]
StdOut  == [NoEntry EXCEPT !.std = TRUE, !.writable = TRUE]

Valid(t, fd) == table[t][fd] # NoEntry
FileFd(t, fd) == table[t][fd].desc # 0
Running(t) == t = 1 \/ \E fd \in Fds : Valid(t, fd)

Context(t, fd) == [d |-> disk, f |-> stream[table[t][fd].desc], b |-> buffer[table[t][fd].desc],
                   e |-> table[t][fd], lw |-> wrote[t][fd], ret |-> <<>>]

\* The flush that lets a stream turn from writing.
Turned(c) == IF c.lw THEN [Flushed(c) EXCEPT !.lw = FALSE] ELSE c

\* Text mode: what fwrite is given, and what fread's caller is left with.
Expand(s) == IF Len(s) = 1 /\ s[1] = "lf" THEN <<"cr", "lf">> ELSE s
Collapse(s) ==
  LET upto[k \in 0..Len(s)] ==
        IF k = 0 THEN <<>>
        ELSE IF s[k] = "cr" /\ k < Len(s) /\ s[k + 1] = "lf" THEN upto[k - 1]
        ELSE Append(upto[k - 1], s[k])
  IN  upto[Len(s)]

\* FileTable::read
Read(c, n) ==
  LET got == Fetched(Turned(c), n)
  IN  IF ~c.e.readable THEN [c EXCEPT !.ret = Err("EBADF")]
      ELSE IF c.e.text THEN [got EXCEPT !.ret = <<"read", Collapse(got.ret[2])>>]
      ELSE got

\* FileTable::write
Write(c, s) ==
  LET put == Stored(IF c.lw THEN c ELSE Placed(c, c.f.pos), IF c.e.text THEN Expand(s) ELSE s)
  IN  IF ~c.e.writable THEN [c EXCEPT !.ret = Err("EBADF")]
      ELSE [put EXCEPT !.lw = TRUE, !.ret = <<"wrote", Len(s)>>]

\* FileTable::seek
End(c) == Len(Settled(c.d, c.f, c.b)[c.f.ino])
Seek(c, whence, off) ==
  LET base == CASE whence = "set" -> 0 [] whence = "cur" -> c.f.pos [] whence = "end" -> End(c)
  IN  [Placed(c, base + off) EXCEPT !.lw = FALSE]

\* FileTable::truncate
Cut(s, n) == IF n <= Len(s) THEN SubSeq(s, 1, n) ELSE s \o Zeros(n - Len(s))
Truncate(c, n) ==
  LET w == Flushed(c)
  IN  IF ~c.e.writable THEN [w EXCEPT !.ret = Err("EINVAL")]
      ELSE [w EXCEPT !.d = [w.d EXCEPT ![w.f.ino] = Cut(w.d[w.f.ino], n)], !.ret = <<"ok">>]

Measure_StaysAtTheEnd(c) ==
  LET end == Placed(Turned(c), End(c))
  IN  IF names[c.e.path] = 0 THEN [c EXCEPT !.ret = Err("ENOENT")]
      ELSE [end EXCEPT !.ret = <<"size", end.f.pos>>]
\* FileTable::stat_fd: the path's own stat first, then to the end and back.
Measure(c) ==
  LET here == c.f.pos
      end == Placed(Turned(c), End(c))
  IN  IF names[c.e.path] = 0 THEN [c EXCEPT !.ret = Err("ENOENT")]
      ELSE [Placed(end, here) EXCEPT !.ret = <<"size", end.f.pos>>]

\* do_file_syscall, Pread and Pwrite: tell, seek, the transfer, and back.
Pread(c, n, off)  == LET r == Read(Seek(c, "set", off), n)
                     IN  [Seek(r, "set", c.f.pos) EXCEPT !.ret = r.ret]
Pwrite(c, s, off) == LET r == Write(Seek(c, "set", off), s)
                     IN  [Seek(r, "set", c.f.pos) EXCEPT !.ret = r.ret]

----------------------------------------------------------------------------
(* Shared streams: a FILE lives as long as some entry refers to it, and a   *)
(* file on the disk as long as it has a name or a FILE.                     *)

Refs(s, tab) == {r \in Tables \X Fds : tab[r[1]][r[2]].desc = s}

\* What the guest's files hold: the disk with every stream's pending bytes.
Pending(i) == {s \in Streams : stream[s].ino = i /\ buffer[s].pend # <<>>}
Contents ==
  [i \in Inodes |-> IF Pending(i) = {} THEN disk[i]
                    ELSE LET s == CHOOSE x \in Pending(i) : TRUE IN Settled(disk, stream[s], buffer[s])[i]]

\* Names and table become those given; the streams the new table does not refer
\* to are closed, which hands their pending bytes to the host.
Adopt(tab, flags, nam, d, str, buf) ==
  LET lives(s) == Refs(s, tab) # {}
      kept(i) == (\E p \in Paths : nam[p] = i) \/ (\E s \in Streams : lives(s) /\ str[s].ino = i)
      dying(i) == \E s \in Streams : ~lives(s) /\ str[s].ino = i
  IN  /\ table' = tab /\ names' = nam
      /\ wrote' = [t \in Tables |-> [fd \in Fds |-> flags[t][fd] /\ tab[t][fd] # NoEntry]]
      /\ stream' = [s \in Streams |-> IF lives(s) THEN str[s] ELSE Closed]
      /\ buffer' = [s \in Streams |-> IF lives(s) THEN buf[s] ELSE Empty]
      /\ disk' = [i \in Inodes |-> IF ~kept(i) THEN <<>> ELSE IF dying(i) THEN Contents[i] ELSE d[i]]

\* Whether the guest keeps to one direction on a stream two descriptors share.
OneWay(t, fd) ==
  LET e == table[t][fd] IN ~(e.readable /\ e.writable) \/ Refs(e.desc, table) = {<<t, fd>>}

\* A call that works through one descriptor and leaves the table alone.
Through(t, fd, c) ==
  /\ c.f.pos <= MaxLen /\ \A i \in Inodes : Len(Settled(c.d, c.f, c.b)[i]) <= MaxLen
  /\ disk' = c.d
  /\ stream' = [stream EXCEPT ![table[t][fd].desc] = c.f]
  /\ buffer' = [buffer EXCEPT ![table[t][fd].desc] = c.b]
  /\ wrote' = [wrote EXCEPT ![t][fd] = c.lw]
  /\ reply' = c.ret
  /\ UNCHANGED <<names, table>>

Idle == UNCHANGED <<names, disk, stream, buffer, table, wrote>>
Refuse(e) == reply' = Err(e) /\ Idle

----------------------------------------------------------------------------
(* Opening and closing.                                                     *)

\* The mode FileTable::open asks fopen for, and what fopen does with it.
HostMode(f) ==
  CASE f.append -> IF f.read THEN "a+" ELSE "a"
    [] ~f.append /\ f.write /\ f.read -> IF f.truncate \/ f.create THEN "w+" ELSE "r+"
    [] ~f.append /\ f.write /\ ~f.read -> "w"
    [] OTHER -> "r"
Makes(mode) == mode \in {"w", "w+", "a", "a+"}
Empties(mode) == mode \in {"w", "w+"}

\* FileTable::alloc_slot
FreeFds(tab, t) == {fd \in Fds : fd >= 3 /\ tab[t][fd] = NoEntry}

FreeStreams == {s \in Streams : stream[s].ino = 0}
FreeInodes == {i \in Inodes : (\A p \in Paths : names[p] # i) /\ (\A s \in Streams : stream[s].ino # i)}

\* The bound that makes a FILE without a read buffer exact: a file that is
\* written is open through one stream.
OneWriter(i, writes) ==
  \A r \in Tables \X Fds :
    LET e == table[r[1]][r[2]]
    IN  e.desc # 0 /\ stream[e.desc].ino = i => ~e.writable /\ ~writes

EntryFor(s, path, f) ==
  [NoEntry EXCEPT !.desc = s, !.path = path, !.readable = f.read,
                  !.writable = f.write \/ f.append, !.append = f.append, !.text = ~f.binary]

\* Where a stream starts that appends is the C library's affair.
Starts(f, i) == IF f.append THEN {0, Len(disk[i])} ELSE {0}

\* FileTable::open
Open(t, path, f) ==
  LET mode == HostMode(f)
      there == names[path] # 0
      ino == IF there THEN names[path] ELSE Lowest(FreeInodes)
  IN  /\ Running(t) /\ FreeFds(table, t) # {} /\ FreeStreams # {}
      /\ \/ f.exclusive /\ f.create /\ there /\ Refuse("EEXIST")
         \/ ~there /\ ~Makes(mode) /\ Refuse("ENOENT")
         \/ /\ ~(f.exclusive /\ f.create /\ there)
            /\ IF there THEN OneWriter(ino, f.write \/ f.append) ELSE Makes(mode) /\ FreeInodes # {}
            /\ \E at \in Starts(f, ino) :
                 LET s == Lowest(FreeStreams)
                     fd == Lowest(FreeFds(table, t))
                 IN  /\ stream' = [stream EXCEPT ![s] = [ino |-> ino, append |-> f.append, pos |-> at]]
                     /\ table' = [table EXCEPT ![t][fd] = EntryFor(s, path, f)]
                     /\ reply' = <<"fd", fd>>
            /\ names' = [names EXCEPT ![path] = ino]
            /\ disk' = [disk EXCEPT ![ino] = IF Empties(mode) THEN <<>> ELSE @]
            /\ UNCHANGED <<buffer, wrote>>

\* FileTable::close
Close(t, fd) ==
  /\ Valid(t, fd)
  /\ reply' = <<"ok">>
  /\ Adopt([table EXCEPT ![t][fd] = NoEntry], wrote, names, disk, stream, buffer)

\* FileTable::remove_file and rename_file
Remove(path) ==
  \/ names[path] = 0 /\ Refuse("ENOENT")
  \/ /\ names[path] # 0
     /\ reply' = <<"ok">>
     /\ Adopt(table, wrote, [names EXCEPT ![path] = 0], disk, stream, buffer)
Rename(from, to) ==
  \/ names[from] = 0 /\ Refuse("ENOENT")
  \/ /\ names[from] # 0 /\ from # to
     /\ reply' = <<"ok">>
     /\ Adopt(table, wrote, [names EXCEPT ![from] = 0, ![to] = names[from]], disk, stream, buffer)

----------------------------------------------------------------------------
(* Descriptors.                                                             *)

\* FileTable::dup, for dup, dup2, dup3 and fcntl(F_DUPFD); to = 0 asks for the
\* lowest free one.  (Close-on-exec is in Processes.)
Dup(t, fd, to) ==
  LET target == IF to = 0 THEN Lowest(FreeFds(table, t)) ELSE to
  IN  /\ to = 0 => FreeFds(table, t) # {}
      /\ \/ ~Valid(t, fd) /\ Running(t) /\ Refuse("EBADF")
         \/ /\ Valid(t, fd)
            /\ reply' = <<"fd", target>>
            /\ Adopt([table EXCEPT ![t][target] = table[t][fd]],
                     [wrote EXCEPT ![t][target] = wrote[t][fd]], names, disk, stream, buffer)

\* FileTable::clone, for fork
Fork(t, u) ==
  /\ Running(t) /\ ~Running(u)
  /\ table' = [table EXCEPT ![u] = table[t]] /\ wrote' = [wrote EXCEPT ![u] = wrote[t]]
  /\ reply' = <<"ok">>
  /\ UNCHANGED <<names, disk, stream, buffer>>

\* FileTable::install: a started program's standard output.
Install(t, fd, u) ==
  /\ Valid(t, fd) /\ ~Running(u)
  /\ reply' = <<"ok">>
  /\ Adopt([table EXCEPT ![u] = [g \in Fds |-> IF g = 1 THEN table[t][fd] ELSE NoEntry]],
           [wrote EXCEPT ![u] = [g \in Fds |-> g = 1 /\ wrote[t][fd]]], names, disk, stream, buffer)

\* The table goes with its process.
Exit(t) ==
  /\ t # 1 /\ Running(t)
  /\ reply' = <<"ok">>
  /\ Adopt([table EXCEPT ![t] = [fd \in Fds |-> NoEntry]], wrote, names, disk, stream, buffer)

----------------------------------------------------------------------------
(* A saved state (state.cpp): the descriptors are written down as paths,    *)
(* modes and offsets, the process ends, and another rejoins the files.      *)

\* The entries a load brings back: not the standard ones, not a path that has
\* gone, and not a descriptor below 3 the new process was born with.
Rejoined(fd) == FileFd(1, fd) /\ fd > 2 /\ names[table[1][fd].path] # 0

Resume ==
  LET all == {fd \in Fds : Rejoined(fd)}
      own(fd) == Cardinality({g \in all : g <= fd})
      entry(fd) == IF fd \in all THEN [table[1][fd] EXCEPT !.desc = own(fd)]
                   ELSE IF fd = 1 THEN StdOut ELSE NoEntry
      rejoin(s) == LET e == table[1][CHOOSE fd \in all : own(fd) = s]
                   IN  [ino |-> names[e.path], append |-> e.append, pos |-> stream[e.desc].pos]
  IN  /\ \A t \in Tables : t # 1 => ~Running(t)
      /\ Cardinality(all) <= Cardinality(Streams)
      /\ \A f, g \in all : f # g /\ (table[1][f].writable \/ table[1][g].writable)
                             => names[table[1][f].path] # names[table[1][g].path]
      /\ reply' = <<"ok">>
      /\ Adopt([table EXCEPT ![1] = [fd \in Fds |-> entry(fd)]], [t \in Tables |-> [fd \in Fds |-> FALSE]],
               names, Contents, [s \in Streams |-> IF \E fd \in all : own(fd) = s THEN rejoin(s) ELSE Closed],
               [s \in Streams |-> Empty])

----------------------------------------------------------------------------
Transfer(t, fd) ==
  /\ FileFd(t, fd) /\ (Crossing \/ OneWay(t, fd))
  /\ LET c == Context(t, fd)
     IN  \/ \E n \in 1..MaxLen : Through(t, fd, Read(c, n))
         \/ \E b \in Texts : Through(t, fd, Write(c, <<b>>))
         \/ \E off \in 0..1 : Through(t, fd, Pread(c, MaxLen, off))
         \/ \E b \in Texts, off \in 0..1 : Through(t, fd, Pwrite(c, <<b>>, off))

Position(t, fd) ==
  /\ FileFd(t, fd)
  /\ LET c == Context(t, fd)
     IN  \/ \E to \in {<<"set", 0>>, <<"set", 1>>, <<"cur", -1>>, <<"end", 0>>} : Through(t, fd, Seek(c, to[1], to[2]))
         \/ Through(t, fd, [Flushed(c) EXCEPT !.ret = <<"ok">>])

\* SetEndOfFile and GetFileSize
Sizing(t, fd) ==
  /\ FileFd(t, fd)
  /\ LET c == Context(t, fd)
     IN  Through(t, fd, Truncate(c, c.f.pos)) \/ Through(t, fd, Measure(c))

\* The standard output: written at once, never sought in.
OnStdOut(t, fd) ==
  /\ table[t][fd].std
  /\ reply' \in {<<"wrote", 1>>, Err("EINVAL"), Err("EBADF")}
  /\ Idle

\* The C library may hand pending bytes on whenever it likes.
Spill(s) ==
  /\ buffer[s].pend # <<>>
  /\ disk' = Settled(disk, stream[s], buffer[s])
  /\ buffer' = [buffer EXCEPT ![s].pend = <<>>]
  /\ UNCHANGED <<names, stream, table, wrote, reply>>

Init ==
  /\ names \in [Paths -> {0, 1}] /\ \A p, q \in Paths : p # q => names[p] = 0 \/ names[q] = 0
  /\ disk = [i \in Inodes |-> IF \E p \in Paths : names[p] = i THEN <<"x">> ELSE <<>>]
  /\ stream = [s \in Streams |-> Closed] /\ buffer = [s \in Streams |-> Empty]
  /\ wrote = [t \in Tables |-> [fd \in Fds |-> FALSE]]
  /\ table = [t \in Tables |-> [fd \in Fds |-> IF t = 1 /\ fd = 1 THEN StdOut ELSE NoEntry]]
  /\ reply = <<"ok">>

Next ==
  \/ \E t \in Tables, p \in Paths, f \in Spellings : Open(t, p, f)
  \/ \E t \in Tables, fd \in Fds : \/ Close(t, fd) \/ Transfer(t, fd) \/ Position(t, fd) \/ Sizing(t, fd) \/ OnStdOut(t, fd)
                                   \/ \E to \in Fds \cup {0} : Dup(t, fd, to)
  \/ \E t, u \in Tables : \/ Fork(t, u) \/ \E fd \in Fds : Install(t, fd, u)
  \/ \E t \in Tables : Exit(t)
  \/ \E p, q \in Paths : Remove(p) \/ Rename(p, q)
  \/ \E s \in Streams : Spill(s)
  \/ Resume

Spec == Init /\ [][Next]_vars

----------------------------------------------------------------------------
(* Properties.                                                              *)

\* Flags fopen has a mode for: what they ask for is what the file gets.
SpellingsAsAsked ==
  \A f \in Spellings :
    /\ f \in OpenFlags /\ (f.append => f.write)
    /\ Makes(HostMode(f)) <=> f.create
    /\ (f.write /\ f.truncate) => Empties(HostMode(f))
    /\ Empties(HostMode(f)) => (f.write /\ f.truncate) \/ (f.create /\ f.exclusive)

Posix == INSTANCE PosixFiles WITH
  Descs <- Streams, Offsets <- 0..MaxLen, Texts <- {<<b>> : b \in Texts},
  contents <- Contents, desc <- stream

\* The buffers, the direction flag and the seeks that resynchronise a stream
\* never show: through any mixture of reads, writes, positioned transfers,
\* sizes, duplicates, forks, execs, closes and resumptions every call answers
\* what it would with files that have no buffers, and every byte written is in
\* the file for the next reader (files.cpp, syscalls_files.inc, state.cpp).
FilesArePosix == Posix!Spec

\* No read reaches a stream right after a write, and no write right after a
\* read, which C forbids and files.h says the table resynchronises: the flag is
\* the descriptor's while the direction is the stream's.
DirectionIsTracked == \A s \in Streams : ~buffer[s].misused

\* Both: the streams answer as files, and are used as C allows.
StreamsAreSound == FilesArePosix /\ []DirectionIsTracked

\* Opening a file that is there without asking for it to be truncated leaves
\* what it holds: files.cpp says "r+" is the mode for updating a file in place
\* and "w+" only what follows when it does not exist yet.
OpenKeepsContents ==
  [][\A t \in Tables, p \in Paths, f \in Spellings :
       Open(t, p, f) /\ reply'[1] = "fd" /\ ~f.truncate /\ names[p] # 0 => Contents' = Contents]_vars

\* Streams are closed when they are unused, and empty when they are closed.
TypeOK ==
  /\ \A p \in Paths : names[p] \in Inodes \cup {0}
  /\ \A i \in Inodes : disk[i] \in Seq(Bytes) /\ Len(disk[i]) <= MaxLen
  /\ \A s \in Streams : stream[s].ino = 0 => stream[s] = Closed /\ buffer[s] = Empty
  /\ \A s \in Streams : stream[s].ino # 0 <=> Refs(s, table) # {}

=============================================================================
