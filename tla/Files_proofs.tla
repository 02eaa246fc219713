---------------------------- MODULE Files_proofs ----------------------------
(***************************************************************************)
(* The descriptor tables with their stdio FILEs (FileTable) implement      *)
(* files without buffers (PosixFiles): whatever the C library holds back   *)
(* in its buffers, however descriptors are copied, handed on, closed and   *)
(* saved, nobody can tell.  For every number of processes, descriptors,    *)
(* FILEs, files and names, every set of spellings of open's flags that are *)
(* opened as asked (SpellingsAsAsked) and when no descriptor turns between *)
(* reading and writing while another shares its FILE (Crossing = FALSE):   *)
(* README tells what happens when it does.                                 *)
(***************************************************************************)
EXTENDS FileTable, WellFoundedInduction, SequenceTheorems, FiniteSetTheorems, TLAPS


-----------------------------------------------------------------------------
(* Overlays: a write laid over a file is what fwrite through a buffer and a *)
(* flush make of it, in one piece or in two.                               *)

(* A byte of an overlay. *)
OverlaidAt(c, at, s, k) ==
  IF k > at /\ k <= at + Len(s) THEN s[k - at] ELSE IF k <= Len(c) THEN c[k] ELSE "nul"

(* The greater of two numbers. *)
Longer(m, n) == IF m > n THEN m ELSE n

(* What an overlay holds, byte by byte. *)
LEMMA OverlayIs ==
  ASSUME NEW c \in Seq(Bytes), NEW s \in Seq(Bytes), NEW at \in Nat
  PROVE  /\ Overlay(c, at, s) \in Seq(Bytes)
         /\ Len(Overlay(c, at, s)) = Longer(at + Len(s), Len(c))
         /\ \A k \in 1..Longer(at + Len(s), Len(c)) : Overlay(c, at, s)[k] = OverlaidAt(c, at, s, k)
<1> DEFINE size == Longer(at + Len(s), Len(c))
           f == [k \in 1..size |-> OverlaidAt(c, at, s, k)]
<1>1. Overlay(c, at, s) = f
  BY DEF Overlay, OverlaidAt, Longer
<1>2. size \in Nat
  BY DEF Longer
<1>3. \A k \in 1..size : OverlaidAt(c, at, s, k) \in Bytes
  BY DEF OverlaidAt, Bytes, Longer
<1>4. f \in [1..size -> Bytes]
  BY <1>3
<1>5. f \in Seq(Bytes)
  BY <1>2, <1>4, SeqDef
<1>6. Len(f) = size
  BY <1>2, <1>4, <1>5, LenProperties, SMT
<1> QED
  BY <1>1, <1>5, <1>6

(* Two overlays one after the other are the overlay of both. *)
LEMMA OverlayTwice ==
  ASSUME NEW c \in Seq(Bytes), NEW u \in Seq(Bytes), NEW v \in Seq(Bytes), NEW at \in Nat
  PROVE  Overlay(Overlay(c, at, u), at + Len(u), v) = Overlay(c, at, u \o v)
<1> DEFINE a == Overlay(c, at, u)
           l == Overlay(a, at + Len(u), v)
           r == Overlay(c, at, u \o v)
<1>1. /\ u \o v \in Seq(Bytes) /\ Len(u \o v) = Len(u) + Len(v) /\ Len(u) \in Nat /\ Len(v) \in Nat /\ Len(c) \in Nat
      /\ \A k \in 1..Len(u) + Len(v) : (u \o v)[k] = IF k <= Len(u) THEN u[k] ELSE v[k - Len(u)]
  BY ConcatProperties
<1>2. /\ a \in Seq(Bytes) /\ Len(a) = Longer(at + Len(u), Len(c))
      /\ \A k \in 1..Longer(at + Len(u), Len(c)) : a[k] = OverlaidAt(c, at, u, k)
  BY OverlayIs
<1>3. /\ r \in Seq(Bytes) /\ Len(r) = Longer(at + Len(u) + Len(v), Len(c))
      /\ \A k \in 1..Longer(at + Len(u) + Len(v), Len(c)) : r[k] = OverlaidAt(c, at, u \o v, k)
  <2> DEFINE w == u \o v
  <2>1. w \in Seq(Bytes) /\ at + Len(w) = at + Len(u) + Len(v)
    BY <1>1
  <2> HIDE DEF w
  <2>2. /\ Overlay(c, at, w) \in Seq(Bytes) /\ Len(Overlay(c, at, w)) = Longer(at + Len(w), Len(c))
        /\ \A k \in 1..Longer(at + Len(w), Len(c)) : Overlay(c, at, w)[k] = OverlaidAt(c, at, w, k)
    BY <2>1, OverlayIs
  <2> QED
    BY <2>1, <2>2 DEF w
<1> HIDE DEF a, r
<1>4. /\ l \in Seq(Bytes) /\ Len(l) = Longer(at + Len(u) + Len(v), Len(a))
      /\ \A k \in 1..Longer(at + Len(u) + Len(v), Len(a)) : l[k] = OverlaidAt(a, at + Len(u), v, k)
  <2>1. at + Len(u) \in Nat
    BY <1>1
  <2> QED
    BY <1>2, <2>1, OverlayIs
<1> HIDE DEF l
<1>5. Len(l) = Len(r)
  <2>1. Longer(at + Len(u) + Len(v), Longer(at + Len(u), Len(c))) = Longer(at + Len(u) + Len(v), Len(c))
    <3>1. \A x, y, z \in Nat : Longer(x + y, Longer(x, z)) = Longer(x + y, z)
      BY DEF Longer
    <3>2. at + Len(u) \in Nat
      BY <1>1
    <3> QED
      BY <1>1, <3>1, <3>2
  <2> QED
    BY <1>2, <1>3, <1>4, <2>1
<1>6. ASSUME NEW k \in 1..Len(l) PROVE l[k] = r[k]
  <2>1. l[k] = OverlaidAt(a, at + Len(u), v, k) /\ r[k] = OverlaidAt(c, at, u \o v, k)
    BY <1>3, <1>4, <1>5
  <2>2. k <= Len(a) => a[k] = OverlaidAt(c, at, u, k)
    BY <1>1, <1>2 DEF Longer
  <2>3. k > at /\ k <= at + Len(u) + Len(v)
         => (u \o v)[k - at] = IF k - at <= Len(u) THEN u[k - at] ELSE v[k - at - Len(u)]
    BY <1>1
  <2> QED
    BY <1>1, <1>2, <2>1, <2>2, <2>3 DEF OverlaidAt, Longer
<1> QED
  BY <1>3, <1>4, <1>5, <1>6, SeqEqual DEF l, r, a

(* An overlay at the end is a concatenation. *)
LEMMA OverlayAtTheEnd ==
  ASSUME NEW c \in Seq(Bytes), NEW s \in Seq(Bytes)
  PROVE  Overlay(c, Len(c), s) = c \o s
<1> DEFINE o == Overlay(c, Len(c), s)
<1>1. Len(c) \in Nat /\ Len(s) \in Nat
  OBVIOUS
<1>2. /\ o \in Seq(Bytes) /\ Len(o) = Longer(Len(c) + Len(s), Len(c))
      /\ \A k \in 1..Longer(Len(c) + Len(s), Len(c)) : o[k] = OverlaidAt(c, Len(c), s, k)
  BY <1>1, OverlayIs
<1> HIDE DEF o
<1>3. /\ c \o s \in Seq(Bytes) /\ Len(c \o s) = Len(c) + Len(s)
      /\ \A k \in 1..Len(c) + Len(s) : (c \o s)[k] = IF k <= Len(c) THEN c[k] ELSE s[k - Len(c)]
  BY ConcatProperties
<1>4. Len(o) = Len(c \o s)
  BY <1>1, <1>2, <1>3 DEF Longer
<1>5. ASSUME NEW k \in 1..Len(o) PROVE o[k] = (c \o s)[k]
  BY <1>1, <1>2, <1>3 DEF Longer, OverlaidAt
<1> QED
  BY <1>2, <1>3, <1>4, <1>5, SeqEqual DEF o

-----------------------------------------------------------------------------
(* One FILE.  A call works on a context: the disk, its FILE, the FILE's    *)
(* buffer, its descriptor and the flag that remembers a write.  Its view is *)
(* what the file holds once the buffer is flushed.                         *)

(* What FILEs, buffers and descriptors are. *)
StreamOf == [ino : Inodes \cup {0}, append : BOOLEAN, pos : Nat]
BufferOf == [pend : Seq(Bytes), dir : {"none", "read", "write"}, misused : BOOLEAN]
EntryOf  == [desc : Streams \cup {0}, std : BOOLEAN, path : Paths \cup {""}, readable : BOOLEAN,
             writable : BOOLEAN, append : BOOLEAN, text : BOOLEAN]

(* A FILE's buffer fits its direction and its place. *)
BufferFits(f, b) ==
  /\ b.pend # << >> => b.dir = "write"
  /\ ~f.append => Len(b.pend) <= f.pos
  /\ ~b.misused

(* A call's view of one FILE, well-typed. *)
IsContext(c) ==
  /\ c \in [d : [Inodes -> Seq(Bytes)], f : StreamOf, b : BufferOf, e : EntryOf, lw : BOOLEAN, ret : {c.ret}]
  /\ c.f.ino \in Inodes
  /\ BufferFits(c.f, c.b)

(* r differs from c in the file c works on, and in where and how it stands. *)
Follows(c, r) ==
  /\ IsContext(r)
  /\ r.e = c.e
  /\ r.f.ino = c.f.ino /\ r.f.append = c.f.append
  /\ \A j \in Inodes : j # c.f.ino => r.d[j] = c.d[j]

(* The bytes of the file as its reader sees them: the disk under the       *)
(* buffer.                                                                 *)
View(c) == Settled(c.d, c.f, c.b)[c.f.ino]

(* Two steps on one file are a step on it. *)
LEMMA FollowsAgain ==
  ASSUME NEW c, NEW r, NEW q, Follows(c, r), Follows(r, q)
  PROVE  Follows(c, q)
BY DEF Follows

(* The view, case by case. *)
LEMMA ViewIs ==
  ASSUME NEW c, IsContext(c)
  PROVE  /\ View(c) = IF c.b.pend = << >> THEN c.d[c.f.ino]
                      ELSE IF c.f.append THEN c.d[c.f.ino] \o c.b.pend
                      ELSE Overlay(c.d[c.f.ino], c.f.pos - Len(c.b.pend), c.b.pend)
         /\ View(c) \in Seq(Bytes)
         /\ Settled(c.d, c.f, c.b) = [c.d EXCEPT ![c.f.ino] = View(c)]
<1>0. /\ c.d \in [Inodes -> Seq(Bytes)] /\ c.f.ino \in Inodes /\ c.b.pend \in Seq(Bytes) /\ c.f.pos \in Nat
      /\ c.d[c.f.ino] \in Seq(Bytes) /\ Len(c.b.pend) \in Nat /\ c.f.append \in BOOLEAN
  BY DEF IsContext, BufferOf, StreamOf
<1>1. View(c) = IF c.b.pend = << >> THEN c.d[c.f.ino]
                ELSE IF c.f.append THEN c.d[c.f.ino] \o c.b.pend
                ELSE Overlay(c.d[c.f.ino], c.f.pos - Len(c.b.pend), c.b.pend)
  BY <1>0 DEF View, Settled
<1>2. View(c) \in Seq(Bytes)
  <2>1. CASE c.b.pend = << >>
    BY <1>0, <1>1, <2>1
  <2>2. CASE c.b.pend # << >> /\ c.f.append
    BY <1>0, <1>1, <2>2, ConcatProperties
  <2>3. CASE c.b.pend # << >> /\ ~c.f.append
    <3>1. c.f.pos - Len(c.b.pend) \in Nat
      BY <1>0, <2>3 DEF IsContext, BufferFits
    <3> QED
      BY <1>0, <1>1, <2>3, <3>1, OverlayIs
  <2> QED
    BY <1>0, <2>1, <2>2, <2>3
<1>3. Settled(c.d, c.f, c.b) = [c.d EXCEPT ![c.f.ino] = View(c)]
  <2>1. CASE c.b.pend = << >>
    BY <1>0, <1>1, <2>1 DEF Settled
  <2>2. CASE c.b.pend # << >>
    BY <1>0, <1>1, <2>2 DEF Settled
  <2> QED
    BY <2>1, <2>2
<1> QED
  BY <1>1, <1>2, <1>3


(* What flushing makes of each field. *)
LEMMA FlushedFields ==
  ASSUME NEW c, IsContext(c)
  PROVE  /\ Flushed(c) \in [d : [Inodes -> Seq(Bytes)], f : StreamOf, b : BufferOf, e : EntryOf, lw : BOOLEAN, ret : {c.ret}]
         /\ Flushed(c).d = [c.d EXCEPT ![c.f.ino] = View(c)]
         /\ Flushed(c).f = c.f /\ Flushed(c).e = c.e /\ Flushed(c).lw = c.lw /\ Flushed(c).ret = c.ret
         /\ Flushed(c).b.pend = << >>
         /\ Flushed(c).b.dir = IF c.b.dir = "write" THEN "none" ELSE c.b.dir
         /\ Flushed(c).b.misused = FALSE
<1>1. Handed(c.b) \in BufferOf /\ Handed(c.b).pend = << >> /\ Handed(c.b).misused = FALSE
      /\ Handed(c.b).dir = IF c.b.dir = "write" THEN "none" ELSE c.b.dir
  <2>1. c.b \in BufferOf /\ ~c.b.misused
    BY DEF IsContext, BufferFits
  <2>2. << >> \in Seq(Bytes)
    OBVIOUS
  <2>3. Handed(c.b).dir = IF c.b.dir = "write" THEN "none" ELSE c.b.dir
    BY <2>1 DEF Handed, BufferOf
  <2>4. Handed(c.b).pend = << >> /\ Handed(c.b).misused = FALSE
    BY <2>1 DEF Handed, BufferOf
  <2>5. Handed(c.b) \in BufferOf
    BY <2>1, <2>2 DEF Handed, BufferOf
  <2> QED
    BY <2>3, <2>4, <2>5
<1>3. Settled(c.d, c.f, c.b) = [c.d EXCEPT ![c.f.ino] = View(c)] /\ View(c) \in Seq(Bytes)
  BY ViewIs
<1>4. [c.d EXCEPT ![c.f.ino] = View(c)] \in [Inodes -> Seq(Bytes)]
  BY <1>3 DEF IsContext
<1> QED
  BY <1>1, <1>3, <1>4 DEF Flushed, IsContext

(* Contexts that answer x. *)
Shape(x) == [d : [Inodes -> Seq(Bytes)], f : StreamOf, b : BufferOf, e : EntryOf, lw : BOOLEAN, ret : {x}]

(* Flushing shows nothing: the view, the place and the answer stay. *)
LEMMA FlushedIs ==
  ASSUME NEW c, IsContext(c)
  PROVE  /\ Follows(c, Flushed(c))
         /\ View(Flushed(c)) = View(c) /\ Flushed(c).d[c.f.ino] = View(c)
         /\ Flushed(c).f = c.f /\ Flushed(c).lw = c.lw /\ Flushed(c).ret = c.ret
         /\ Flushed(c).b.pend = << >>
         /\ Flushed(c).b.dir = IF c.b.dir = "write" THEN "none" ELSE c.b.dir
<1> DEFINE r == Flushed(c)
<1>1. /\ r \in Shape(c.ret) /\ r.d = [c.d EXCEPT ![c.f.ino] = View(c)]
      /\ r.f = c.f /\ r.e = c.e /\ r.lw = c.lw /\ r.ret = c.ret
      /\ r.b.pend = << >> /\ r.b.misused = FALSE
      /\ r.b.dir = IF c.b.dir = "write" THEN "none" ELSE c.b.dir
  BY FlushedFields DEF Shape
<1> HIDE DEF r
<1>2. c.d \in [Inodes -> Seq(Bytes)] /\ c.f.ino \in Inodes /\ c.f \in StreamOf
  BY DEF IsContext
<1>3. IsContext(r)
  <2>1. Len(<< >>) = 0 /\ c.f.pos \in Nat
    BY <1>2 DEF StreamOf
  <2> QED
    BY <1>1, <1>2, <2>1 DEF IsContext, BufferFits, Shape
<1>4. r.d[c.f.ino] = View(c) /\ \A j \in Inodes : j # c.f.ino => r.d[j] = c.d[j]
  BY <1>1, <1>2
<1>5. View(r) = View(c)
  BY <1>1, <1>3, <1>4, ViewIs
<1> QED
  BY <1>1, <1>3, <1>4, <1>5 DEF Follows, r

(* A context whose stream stands as another's. *)
LEMMA SameFile ==
  ASSUME NEW c, IsContext(c), NEW r, r \in Shape(r.ret), r.d = c.d, r.f = c.f, r.b = c.b, r.e = c.e
  PROVE  Follows(c, r) /\ View(r) = View(c)
BY DEF Follows, IsContext, View, Shape

(* An answer changes nothing of the file. *)
LEMMA Answered ==
  ASSUME NEW c, IsContext(c), NEW x
  PROVE  /\ Follows(c, [c EXCEPT !.ret = x]) /\ View([c EXCEPT !.ret = x]) = View(c)
         /\ [c EXCEPT !.ret = x].ret = x
         /\ [c EXCEPT !.ret = x].f = c.f /\ [c EXCEPT !.ret = x].b = c.b /\ [c EXCEPT !.ret = x].lw = c.lw
<1> DEFINE r == [c EXCEPT !.ret = x]
<1>1. r \in Shape(r.ret) /\ r.d = c.d /\ r.f = c.f /\ r.b = c.b /\ r.e = c.e /\ r.lw = c.lw /\ r.ret = x
  BY DEF IsContext, Shape
<1> HIDE DEF r
<1>2. Follows(c, r) /\ View(r) = View(c)
  BY <1>1, SameFile
<1> QED
  BY <1>1, <1>2 DEF r

(* Nor does the flag that remembers the last transfer. *)
LEMMA Marked ==
  ASSUME NEW c, IsContext(c), NEW x \in BOOLEAN
  PROVE  /\ Follows(c, [c EXCEPT !.lw = x]) /\ View([c EXCEPT !.lw = x]) = View(c)
         /\ [c EXCEPT !.lw = x].lw = x
         /\ [c EXCEPT !.lw = x].f = c.f /\ [c EXCEPT !.lw = x].b = c.b /\ [c EXCEPT !.lw = x].ret = c.ret
<1> DEFINE r == [c EXCEPT !.lw = x]
<1>1. r \in Shape(r.ret) /\ r.d = c.d /\ r.f = c.f /\ r.b = c.b /\ r.e = c.e /\ r.lw = x /\ r.ret = c.ret
  BY DEF IsContext, Shape
<1> HIDE DEF r
<1>2. Follows(c, r) /\ View(r) = View(c)
  BY <1>1, SameFile
<1> QED
  BY <1>1, <1>2 DEF r

(* Moving a FILE changes its place only. *)
LEMMA MovedIs ==
  ASSUME NEW f \in StreamOf, NEW at \in Nat
  PROVE  /\ Moved(f, at) \in StreamOf /\ Moved(f, at).pos = at
         /\ Moved(f, at).ino = f.ino /\ Moved(f, at).append = f.append
BY DEF Moved, StreamOf

(* fseek flushes and moves; a place before the start is refused. *)
LEMMA PlacedIs ==
  ASSUME NEW c, IsContext(c), NEW at \in Int
  PROVE  /\ Follows(c, Placed(c, at)) /\ View(Placed(c, at)) = View(c) /\ Placed(c, at).lw = c.lw
         /\ Placed(c, at).b.pend = << >>
         /\ at < 0 => /\ Placed(c, at).f = c.f /\ Placed(c, at).ret = Err("EINVAL")
                      /\ Placed(c, at).b.dir # "write" /\ Placed(c, at).b.dir \in {"none", c.b.dir}
         /\ at >= 0 => /\ Placed(c, at).f.pos = at /\ Placed(c, at).ret = <<"at", at>>
                       /\ Placed(c, at).b.dir = "none"
<1> DEFINE w == Flushed(c)
           r == Placed(c, at)
<1>1. /\ Follows(c, w) /\ View(w) = View(c) /\ w.d[c.f.ino] = View(c)
      /\ w.f = c.f /\ w.lw = c.lw /\ w.b.pend = << >>
      /\ w.b.dir = IF c.b.dir = "write" THEN "none" ELSE c.b.dir
  BY FlushedIs
<1>2. r = IF at < 0 THEN [w EXCEPT !.ret = Err("EINVAL")]
          ELSE [w EXCEPT !.f = Moved(w.f, at), !.b = Facing(w.b, "none"), !.ret = <<"at", at>>]
  BY DEF Placed
<1> HIDE DEF w, r
<1>3. IsContext(w)
  BY <1>1 DEF Follows
<1>4. CASE at < 0
  <2>1. Follows(w, r) /\ View(r) = View(w) /\ r.ret = Err("EINVAL") /\ r.f = w.f /\ r.b = w.b /\ r.lw = w.lw
    BY <1>2, <1>3, <1>4, Answered, Zenon
  <2>2. Follows(c, r)
    BY <1>1, <2>1, FollowsAgain
  <2>3. r.b.dir # "write" /\ r.b.dir \in {"none", c.b.dir}
    BY <1>1, <2>1
  <2> QED
    BY <1>1, <1>4, <2>1, <2>2, <2>3 DEF r
<1>5. CASE at >= 0
  <2>1. /\ Moved(w.f, at) \in StreamOf /\ Moved(w.f, at).pos = at
        /\ Moved(w.f, at).ino = w.f.ino /\ Moved(w.f, at).append = w.f.append
    BY <1>3, <1>5, MovedIs DEF IsContext
  <2>2. /\ Facing(w.b, "none") \in BufferOf /\ Facing(w.b, "none").pend = << >>
        /\ Facing(w.b, "none").dir = "none" /\ ~Facing(w.b, "none").misused
    BY <1>1, <1>3 DEF Facing, IsContext, BufferOf, BufferFits
  <2>3. r = [w EXCEPT !.f = Moved(w.f, at), !.b = Facing(w.b, "none"), !.ret = <<"at", at>>]
    BY <1>2, <1>5
  <2>4. /\ r \in Shape(<<"at", at>>) /\ r.d = w.d /\ r.f = Moved(w.f, at) /\ r.b = Facing(w.b, "none")
        /\ r.e = w.e /\ r.lw = w.lw /\ r.ret = <<"at", at>>
    BY <1>3, <2>1, <2>2, <2>3 DEF IsContext, Shape
  <2>5. IsContext(r)
    <3>1. Len(<< >>) = 0 /\ w.f.ino \in Inodes
      BY <1>3 DEF IsContext
    <3> QED
      BY <2>1, <2>2, <2>4, <3>1, <1>5 DEF IsContext, Shape, BufferFits
  <2>6. Follows(w, r)
    BY <2>1, <2>4, <2>5 DEF Follows
  <2>7. View(r) = View(w)
    <3>1. r.b.pend = << >> /\ w.b.pend = << >> /\ r.f.ino = w.f.ino /\ r.d = w.d
      BY <1>1, <2>1, <2>2, <2>4
    <3>2. View(r) = r.d[r.f.ino]
      BY <2>5, <3>1, ViewIs
    <3>3. View(w) = w.d[w.f.ino]
      BY <1>3, <3>1, ViewIs
    <3> QED
      BY <3>1, <3>2, <3>3
  <2>8. Follows(c, r)
    BY <1>1, <2>6, FollowsAgain
  <2> QED
    BY <1>1, <1>5, <2>1, <2>2, <2>4, <2>7, <2>8 DEF r
<1> QED
  BY <1>4, <1>5

-----------------------------------------------------------------------------
(* The operations of the C library on a context.                           *)

(* The lower of two numbers. *)
LEMMA LowestOfTwo ==
  ASSUME NEW a \in Int, NEW b \in Int
  PROVE  Lowest({a, b}) = IF a <= b THEN a ELSE b
<1> DEFINE m == IF a <= b THEN a ELSE b
<1>1. m \in {a, b} /\ \A k \in {a, b} : m <= k
  OBVIOUS
<1>2. \A n \in {a, b} : (\A k \in {a, b} : n <= k) => n = m
  OBVIOUS
<1> HIDE DEF m
<1>3. Lowest({a, b}) = m
  BY <1>1, <1>2 DEF Lowest
<1> QED
  BY <1>3 DEF m

(* The n bytes of s that follow the place at, or those there are. *)
Part(s, at, n) == SubSeq(s, at + 1, Lowest({at + n, Len(s)}))

(* A part of a file is bytes. *)
LEMMA PartIs ==
  ASSUME NEW s \in Seq(Bytes), NEW at \in Nat, NEW n \in Nat
  PROVE  Part(s, at, n) \in Seq(Bytes)
<1>1. Len(s) \in Nat /\ at + n \in Nat
  OBVIOUS
<1>2. Lowest({at + n, Len(s)}) \in Nat /\ Lowest({at + n, Len(s)}) <= Len(s)
  BY <1>1, LowestOfTwo
<1>3. PICK m \in Int, l \in Int : m = at + 1 /\ l = Lowest({at + n, Len(s)}) /\ l <= Len(s)
  BY <1>1, <1>2
<1>4. \A i \in m..l : s[i] \in Bytes
  BY <1>1, <1>2, <1>3
<1>5. SubSeq(s, m, l) \in Seq(Bytes)
  BY <1>4, SubSeqProperties
<1> QED
  BY <1>3, <1>5 DEF Part

(* fread returns the part of the view at the place, and moves past it. *)
LEMMA FetchedIs ==
  ASSUME NEW c, IsContext(c), NEW n \in Nat, c.b.dir # "write"
  PROVE  LET got == Part(View(c), c.f.pos, n)
         IN  /\ Follows(c, Fetched(c, n)) /\ View(Fetched(c, n)) = View(c) /\ Fetched(c, n).lw = c.lw
             /\ Fetched(c, n).b.dir = "read"
             /\ Fetched(c, n).f.pos = c.f.pos + Len(got)
             /\ Fetched(c, n).ret = <<"read", got>>
<1> DEFINE w == Flushed(c)
           r == Fetched(c, n)
           got == Part(View(c), c.f.pos, n)
           b == [pend |-> << >>, dir |-> "read", misused |-> FALSE]
<1>1. /\ Follows(c, w) /\ View(w) = View(c) /\ w.d[c.f.ino] = View(c)
      /\ w.f = c.f /\ w.lw = c.lw /\ w.b.pend = << >>
  BY FlushedIs
<1>2. IsContext(w) /\ c.f \in StreamOf /\ View(c) \in Seq(Bytes)
  BY <1>1, ViewIs DEF Follows, IsContext
<1>3. w.b.misused = FALSE /\ (c.b.dir = "write") = FALSE
  BY <1>2 DEF IsContext, BufferFits, BufferOf
<1>4. r = [w EXCEPT !.f = Moved(w.f, w.f.pos + Len(got)), !.b = b, !.ret = <<"read", got>>]
  BY <1>1, <1>3 DEF Fetched, Part
<1>5. got \in Seq(Bytes) /\ w.f.pos + Len(got) \in Nat
  <2>1. got \in Seq(Bytes)
    BY <1>2, PartIs DEF StreamOf
  <2>2. Len(got) \in Nat
    BY <2>1
  <2> QED
    BY <1>1, <1>2, <2>1, <2>2 DEF StreamOf
<1> HIDE DEF w, r, got
<1>6. /\ Moved(w.f, w.f.pos + Len(got)) \in StreamOf /\ Moved(w.f, w.f.pos + Len(got)).pos = w.f.pos + Len(got)
      /\ Moved(w.f, w.f.pos + Len(got)).ino = w.f.ino /\ Moved(w.f, w.f.pos + Len(got)).append = w.f.append
  BY <1>1, <1>2, <1>5, MovedIs
<1>7. b \in BufferOf /\ b.pend = << >> /\ b.dir = "read" /\ ~b.misused
  BY DEF BufferOf
<1> HIDE DEF b
<1>8. /\ r \in Shape(<<"read", got>>) /\ r.d = w.d /\ r.f = Moved(w.f, w.f.pos + Len(got)) /\ r.b = b
      /\ r.e = w.e /\ r.lw = w.lw /\ r.ret = <<"read", got>>
  BY <1>2, <1>4, <1>6, <1>7 DEF IsContext, Shape
<1>9. IsContext(r)
  <2>1. Len(<< >>) = 0 /\ w.f.ino \in Inodes
    BY <1>2 DEF IsContext
  <2> QED
    BY <1>5, <1>6, <1>7, <1>8, <2>1 DEF IsContext, Shape, BufferFits
<1>10. Follows(c, r)
  <2>1. Follows(w, r)
    BY <1>6, <1>8, <1>9 DEF Follows
  <2> QED
    BY <1>1, <2>1, FollowsAgain
<1>11. View(r) = View(c)
  <2>1. View(r) = r.d[r.f.ino]
    BY <1>7, <1>8, <1>9, ViewIs
  <2> QED
    BY <1>1, <1>6, <1>8, <2>1
<1> QED
  BY <1>1, <1>6, <1>7, <1>8, <1>10, <1>11 DEF r, got

(* Where what a stream writes goes. *)
Place(c) == IF c.f.append THEN Len(View(c)) ELSE c.f.pos

(* fwrite overlays the view and moves past what it wrote. *)
LEMMA StoredIs ==
  ASSUME NEW c, IsContext(c), NEW s \in Seq(Bytes), s # << >>, c.b.dir # "read"
  PROVE  /\ Follows(c, Stored(c, s)) /\ Stored(c, s).lw = c.lw /\ Stored(c, s).ret = c.ret
         /\ Stored(c, s).b.dir = "write"
         /\ View(Stored(c, s)) = Overlay(View(c), Place(c), s)
         /\ Stored(c, s).f.pos = Place(c) + Len(s)
<1>0. PICK i, p, o, at : i = c.f.ino /\ p = c.b.pend /\ o = c.d[c.f.ino] /\ at = c.f.pos
  OBVIOUS
<1>1. /\ i \in Inodes /\ p \in Seq(Bytes) /\ at \in Nat /\ c.f \in StreamOf
      /\ o \in Seq(Bytes) /\ Len(o) \in Nat /\ Len(p) \in Nat /\ Len(s) \in Nat /\ c.f.append \in BOOLEAN
  BY <1>0 DEF IsContext, BufferOf, StreamOf
<1>2. /\ p \o s \in Seq(Bytes) /\ Len(p \o s) = Len(p) + Len(s) /\ p \o s # << >>
  BY <1>1, ConcatProperties, ConcatEqualIffEmpty, EmptySeq
<1>v. /\ View(c) = IF p = << >> THEN o ELSE IF c.f.append THEN o \o p ELSE Overlay(o, at - Len(p), p)
      /\ View(c) \in Seq(Bytes)
  BY <1>0, ViewIs
<1>a. c.f.append => View(c) = o \o p
  <2>1. o \o << >> = o
    BY <1>1, ConcatEmptySeq
  <2> QED
    BY <1>v, <2>1
<1>b. ~c.f.append => Len(p) <= at
  BY <1>0 DEF IsContext, BufferFits
<1>c. ~c.f.append => View(c) = IF p = << >> THEN o ELSE Overlay(o, at - Len(p), p)
  BY <1>v
<1>3. c.f.append => Len(View(c)) = Len(o) + Len(p)
  BY <1>1, <1>a, ConcatProperties
<1>4. PICK here : /\ here = Place(c) /\ here \in Nat
                  /\ here = IF c.f.append THEN Len(o) + Len(p) ELSE at
  <2>1. Place(c) = (IF c.f.append THEN Len(o) + Len(p) ELSE at) /\ Place(c) \in Nat
    <3>1. CASE c.f.append
      BY <1>1, <1>3, <3>1 DEF Place
    <3>2. CASE ~c.f.append
      BY <1>0, <1>1, <3>2 DEF Place
    <3> QED
      BY <3>1, <3>2
  <2> QED
    BY <2>1
<1>5. c.b.misused = FALSE /\ (c.b.dir = "read") = FALSE
  BY DEF IsContext, BufferFits, BufferOf
<1> DEFINE r == Stored(c, s)
           b == [pend |-> p \o s, dir |-> "write", misused |-> FALSE]
           there == Moved(c.f, here + Len(s))
<1>6. r = [c EXCEPT !.f = there, !.b = b]
  BY <1>0, <1>4, <1>5 DEF Stored
<1> HIDE DEF r
<1>7. there \in StreamOf /\ there.pos = here + Len(s) /\ there.ino = i /\ there.append = c.f.append
  <2>1. here + Len(s) \in Nat
    BY <1>1, <1>4
  <2> QED
    BY <1>0, <1>1, <2>1, MovedIs
<1> HIDE DEF there
<1>8. b \in BufferOf /\ b.pend = p \o s /\ b.dir = "write" /\ ~b.misused
  BY <1>2 DEF BufferOf
<1> HIDE DEF b
<1>9. /\ r \in Shape(c.ret) /\ r.d = c.d /\ r.f = there /\ r.b = b
      /\ r.e = c.e /\ r.lw = c.lw /\ r.ret = c.ret
  BY <1>6, <1>7, <1>8 DEF IsContext, Shape
<1>11. IsContext(r)
  <2>0. r.b.pend = p \o s /\ r.f.pos = here + Len(s) /\ r.f.append = c.f.append
    BY <1>7, <1>8, <1>9
  <2>1. ~r.f.append => Len(r.b.pend) <= r.f.pos
    BY <1>1, <1>2, <1>4, <1>b, <2>0
  <2> QED
    BY <1>1, <1>7, <1>8, <1>9, <2>1 DEF IsContext, Shape, BufferFits
<1>12. Follows(c, r)
  BY <1>0, <1>7, <1>9, <1>11 DEF Follows
<1>13. View(r) = Overlay(View(c), here, s)
  <2>0. r.b.pend = p \o s /\ r.f.pos = here + Len(s) /\ r.f.append = c.f.append /\ r.d[r.f.ino] = o
    BY <1>0, <1>7, <1>8, <1>9
  <2>1. View(r) = IF c.f.append THEN o \o (p \o s)
                  ELSE Overlay(o, (here + Len(s)) - Len(p \o s), p \o s)
    <3>1. View(r) = IF r.b.pend = << >> THEN r.d[r.f.ino] ELSE IF r.f.append THEN r.d[r.f.ino] \o r.b.pend
                    ELSE Overlay(r.d[r.f.ino], r.f.pos - Len(r.b.pend), r.b.pend)
      BY <1>11, ViewIs
    <3> QED
      BY <1>2, <2>0, <3>1
  <2>2. CASE c.f.append
    <3>2. o \o (p \o s) = (o \o p) \o s
      <4>1. \A x, y, z \in Seq(Bytes) : (x \o y) \o z = x \o (y \o z)
        BY ConcatAssociative
      <4>2. o \in Seq(Bytes) /\ p \in Seq(Bytes) /\ s \in Seq(Bytes)
        BY <1>1
      <4>3. (o \o p) \o s = o \o (p \o s)
        BY <4>1, <4>2, Zenon
      <4> QED
        BY <4>3, Zenon
    <3>3. Overlay(View(c), Len(View(c)), s) = View(c) \o s
      BY <1>v, OverlayAtTheEnd
    <3>4. here = Len(View(c))
      BY <1>3, <1>4, <2>2
    <3> QED
      BY <1>a, <2>1, <2>2, <3>2, <3>3, <3>4, Zenon
  <2>3. CASE ~c.f.append
    <3>0. PICK from \in Nat : from = at - Len(p) /\ from + Len(p) = at
      <4>1. at - Len(p) \in Nat /\ (at - Len(p)) + Len(p) = at
        BY <1>1, <1>b, <2>3
      <4> QED
        BY <4>1
    <3>1. (here + Len(s)) - Len(p \o s) = from /\ here = at
      BY <1>1, <1>2, <1>4, <2>3, <3>0
    <3>2. View(r) = Overlay(o, from, p \o s)
      BY <2>1, <2>3, <3>1
    <3>3. Overlay(Overlay(o, from, p), from + Len(p), s) = Overlay(o, from, p \o s)
      BY <1>1, OverlayTwice
    <3>5. CASE p # << >>
      <4>1. View(c) = Overlay(o, from, p)
        BY <1>c, <2>3, <3>0, <3>5
      <4> QED
        BY <3>0, <3>1, <3>2, <3>3, <4>1
    <3>6. CASE p = << >>
      <4>1. View(c) = o /\ p \o s = s /\ Len(p) = 0
        BY <1>1, <1>c, <2>3, <3>6, ConcatEmptySeq
      <4>2. from = at
        BY <1>1, <3>0, <4>1
      <4> QED
        BY <3>1, <3>2, <4>1, <4>2
    <3> QED
      BY <3>5, <3>6
  <2> QED
    BY <1>1, <2>2, <2>3
<1> QED
  BY <1>4, <1>7, <1>8, <1>9, <1>12, <1>13 DEF r

(* The seek between a write and a read leaves what is seen as it is. *)
LEMMA TurnedIs ==
  ASSUME NEW c, IsContext(c)
  PROVE  /\ Follows(c, Turned(c)) /\ View(Turned(c)) = View(c)
         /\ Turned(c).f = c.f /\ Turned(c).lw = FALSE
         /\ c.lw => Turned(c).b.dir # "write" /\ Turned(c).b.dir \in {"none", c.b.dir}
         /\ ~c.lw => Turned(c).b.dir = c.b.dir
<1>1. CASE c.lw
  <2>1. /\ Follows(c, Flushed(c)) /\ View(Flushed(c)) = View(c) /\ Flushed(c).f = c.f
        /\ Flushed(c).b.dir = IF c.b.dir = "write" THEN "none" ELSE c.b.dir
    BY FlushedIs
  <2>2. Turned(c) = [Flushed(c) EXCEPT !.lw = FALSE] /\ IsContext(Flushed(c))
    BY <1>1, <2>1 DEF Turned, Follows
  <2>3. /\ Follows(Flushed(c), Turned(c)) /\ View(Turned(c)) = View(Flushed(c))
        /\ Turned(c).f = Flushed(c).f /\ Turned(c).b = Flushed(c).b /\ Turned(c).lw = FALSE
    BY <2>2, Marked
  <2>4. Follows(c, Turned(c))
    BY <2>1, <2>3, FollowsAgain
  <2> QED
    BY <1>1, <2>1, <2>3, <2>4
<1>2. CASE ~c.lw
  <2>1. Turned(c) = c /\ c.lw = FALSE
    BY <1>2 DEF Turned, IsContext
  <2>2. Follows(c, c)
    BY DEF Follows
  <2> QED
    BY <1>2, <2>1, <2>2
<1> QED
  BY <1>1, <1>2

-----------------------------------------------------------------------------
(* The calls of the code on a context.                                     *)

(* The direction of a stream fits what its entry allows and remembers. *)
DirectionFits(e, b, lw) ==
  /\ b.dir = "write" => e.writable /\ (e.readable => lw)
  /\ b.dir = "read" => e.readable
  /\ lw => e.writable /\ b.dir # "read"

(* A context as a call finds it. *)
Ready(c) == IsContext(c) /\ DirectionFits(c.e, c.b, c.lw)

(* r is what a call makes of c when nothing is written. *)
Looks(c, r) == Follows(c, r) /\ DirectionFits(r.e, r.b, r.lw) /\ View(r) = View(c)

(* A FILE that has not moved is the same FILE. *)
LEMMA SameStream ==
  ASSUME NEW c, NEW r, IsContext(c), Follows(c, r), r.f.pos = c.f.pos
  PROVE  r.f = c.f
<1>1. r.f \in StreamOf /\ c.f \in StreamOf /\ r.f.ino = c.f.ino /\ r.f.append = c.f.append
  BY DEF Follows, IsContext
<1> QED
  BY <1>1 DEF StreamOf

(* The fields of a context. *)
LEMMA ContextTypes ==
  ASSUME NEW c, IsContext(c)
  PROVE  /\ c.f.pos \in Nat /\ c.f.ino \in Inodes /\ c.f.append \in BOOLEAN
         /\ c.e \in EntryOf /\ c.e.readable \in BOOLEAN /\ c.e.writable \in BOOLEAN /\ c.e.text \in BOOLEAN
         /\ c.lw \in BOOLEAN /\ c.b.dir \in {"none", "read", "write"}
         /\ View(c) \in Seq(Bytes) /\ Len(View(c)) \in Nat
<1>1. c.f \in StreamOf /\ c.e \in EntryOf /\ c.b \in BufferOf /\ c.lw \in BOOLEAN /\ c.f.ino \in Inodes
  BY DEF IsContext
<1>2. c.f.pos \in Nat /\ c.f.append \in BOOLEAN
  BY <1>1 DEF StreamOf
<1>3. c.e.readable \in BOOLEAN /\ c.e.writable \in BOOLEAN /\ c.e.text \in BOOLEAN
  BY <1>1 DEF EntryOf
<1>4. c.b.dir \in {"none", "read", "write"}
  BY <1>1 DEF BufferOf
<1>5. View(c) \in Seq(Bytes) /\ Len(View(c)) \in Nat
  <2>1. View(c) \in Seq(Bytes)
    BY ViewIs
  <2> QED
    BY <2>1
<1> QED
  BY <1>1, <1>2, <1>3, <1>4, <1>5

(* What the guest sees of the bytes read, and what goes to the disk of     *)
(* the bytes written.                                                      *)
Seen(e, s) == IF e.text THEN Collapse(s) ELSE s

(* read returns a part of the view, or is refused and changes nothing. *)
LEMMA ReadIs ==
  ASSUME NEW c, Ready(c), NEW n \in Nat
  PROVE  LET got == Part(View(c), c.f.pos, n)
         IN  /\ Looks(c, Read(c, n))
             /\ ~c.e.readable => Read(c, n).f = c.f /\ Read(c, n).b = c.b /\ Read(c, n).ret = Err("EBADF")
             /\ c.e.readable => /\ Read(c, n).f.pos = c.f.pos + Len(got)
                                /\ Read(c, n).ret = <<"read", Seen(c.e, got)>>
<1> DEFINE r == Read(c, n)
           w == Turned(c)
           g == Fetched(w, n)
           got == Part(View(c), c.f.pos, n)
<1>0. IsContext(c) /\ DirectionFits(c.e, c.b, c.lw)
  BY DEF Ready
<1>1. CASE ~c.e.readable
  <2>1. r = [c EXCEPT !.ret = Err("EBADF")]
    BY <1>1 DEF Read
  <2>2. Follows(c, r) /\ View(r) = View(c) /\ r.ret = Err("EBADF") /\ r.f = c.f /\ r.b = c.b /\ r.lw = c.lw
    BY <1>0, <2>1, Answered
  <2>3. Looks(c, r)
    BY <1>0, <2>2 DEF Looks, Follows
  <2> QED
    BY <1>1, <2>2, <2>3
<1>2. CASE c.e.readable
  <2>1. /\ Follows(c, w) /\ View(w) = View(c) /\ w.f = c.f /\ w.lw = FALSE
        /\ c.lw => w.b.dir # "write"
        /\ ~c.lw => w.b.dir = c.b.dir
    BY <1>0, TurnedIs
  <2>2. IsContext(w) /\ w.e = c.e /\ w.b.dir # "write"
    BY <1>0, <1>2, <2>1 DEF Follows, DirectionFits
  <2> HIDE DEF w
  <2>3. /\ Follows(w, g) /\ View(g) = View(w) /\ g.lw = w.lw /\ g.b.dir = "read"
        /\ g.f.pos = w.f.pos + Len(Part(View(w), w.f.pos, n)) /\ g.ret = <<"read", Part(View(w), w.f.pos, n)>>
    BY <2>2, FetchedIs
  <2>4. r = IF c.e.text THEN [g EXCEPT !.ret = <<"read", Collapse(g.ret[2])>>] ELSE g
    BY <1>2 DEF Read, w
  <2>5. g.f.pos = c.f.pos + Len(got) /\ g.ret = <<"read", got>> /\ g.ret[2] = got
    BY <2>1, <2>3
  <2> HIDE DEF g, got, r
  <2>6. Follows(c, g) /\ View(g) = View(c) /\ IsContext(g)
    BY <2>1, <2>3, FollowsAgain DEF Follows
  <2>7. /\ Follows(c, r) /\ View(r) = View(c) /\ r.f = g.f /\ r.b = g.b /\ r.lw = g.lw
        /\ r.ret = <<"read", Seen(c.e, got)>>
    <3>1. CASE c.e.text
      <4>1. r = [g EXCEPT !.ret = <<"read", Collapse(got)>>]
        BY <2>4, <2>5, <3>1
      <4>2. Follows(g, r) /\ View(r) = View(g) /\ r.ret = <<"read", Collapse(got)>> /\ r.f = g.f /\ r.b = g.b /\ r.lw = g.lw
        BY <2>6, <4>1, Answered
      <4> QED
        BY <2>6, <3>1, <4>2, FollowsAgain DEF Seen
    <3>2. CASE ~c.e.text
      BY <2>4, <2>5, <2>6, <3>2 DEF Seen
    <3> QED
      BY <3>1, <3>2
  <2>8. Looks(c, r)
    BY <1>2, <2>1, <2>3, <2>7 DEF Looks, Follows, DirectionFits
  <2> QED
    BY <1>2, <2>5, <2>7, <2>8 DEF r, got
<1> QED
  BY <1>1, <1>2

(* What a descriptor puts in the file for what it is given. *)
Data(e, s) == IF e.text THEN Expand(s) ELSE s

(* A byte written is at least one byte on the disk. *)
LEMMA DataIs ==
  ASSUME NEW e, NEW s \in Seq(Bytes), s # << >>
  PROVE  Data(e, s) \in Seq(Bytes) /\ Data(e, s) # << >>
<1>1. <<"cr", "lf">> \in Seq(Bytes) /\ <<"cr", "lf">> # << >>
  BY DEF Bytes
<1> QED
  BY <1>1 DEF Data, Expand

(* r is c after s was written at the place at. *)
Written(c, r, at, s) ==
  /\ Follows(c, r) /\ DirectionFits(r.e, r.b, r.lw)
  /\ View(r) = Overlay(View(c), IF c.f.append THEN Len(View(c)) ELSE at, s)

(* write overlays the view, or is refused and changes nothing. *)
LEMMA WriteIs ==
  ASSUME NEW c, Ready(c), NEW s \in Seq(Bytes), s # << >>
  PROVE  /\ ~c.e.writable => /\ Looks(c, Write(c, s))
                             /\ Write(c, s).f = c.f /\ Write(c, s).b = c.b /\ Write(c, s).ret = Err("EBADF")
         /\ c.e.writable => /\ Written(c, Write(c, s), c.f.pos, Data(c.e, s))
                            /\ Write(c, s).f.pos = Place(c) + Len(Data(c.e, s))
                            /\ Write(c, s).ret = <<"wrote", Len(s)>>
<1> DEFINE r == Write(c, s)
           x == IF c.lw THEN c ELSE Placed(c, c.f.pos)
           put == Stored(x, Data(c.e, s))
           y == [put EXCEPT !.lw = TRUE]
<1>0. IsContext(c) /\ DirectionFits(c.e, c.b, c.lw)
  BY DEF Ready
<1>1. CASE ~c.e.writable
  <2>1. r = [c EXCEPT !.ret = Err("EBADF")]
    BY <1>1 DEF Write
  <2> HIDE DEF r
  <2>2. Follows(c, r) /\ View(r) = View(c) /\ r.ret = Err("EBADF") /\ r.f = c.f /\ r.b = c.b /\ r.lw = c.lw
    BY <1>0, <2>1, Answered
  <2>3. Looks(c, r)
    BY <1>0, <2>2 DEF Looks, Follows
  <2> QED
    BY <1>1, <2>2, <2>3 DEF r
<1>2. CASE c.e.writable
  <2>1. r = [put EXCEPT !.lw = TRUE, !.ret = <<"wrote", Len(s)>>]
    BY <1>2 DEF Write, Data
  <2>2. Follows(c, x) /\ View(x) = View(c) /\ x.f.pos = c.f.pos /\ x.b.dir # "read"
    <3>1. CASE c.lw
      BY <1>0, <3>1 DEF Follows, DirectionFits
    <3>2. CASE ~c.lw
      <4>1. c.f.pos \in Int /\ c.f.pos >= 0
        BY <1>0, ContextTypes
      <4>2. /\ Follows(c, Placed(c, c.f.pos)) /\ View(Placed(c, c.f.pos)) = View(c)
            /\ Placed(c, c.f.pos).f.pos = c.f.pos /\ Placed(c, c.f.pos).b.dir = "none"
        BY <1>0, <4>1, PlacedIs
      <4> QED
        BY <3>2, <4>2
    <3> QED
      BY <3>1, <3>2
  <2> HIDE DEF x
  <2>3. IsContext(x) /\ x.f.append = c.f.append /\ Place(x) = Place(c)
    BY <2>2 DEF Follows, Place
  <2>4. Data(c.e, s) \in Seq(Bytes) /\ Data(c.e, s) # << >>
    BY DataIs
  <2>5. /\ Follows(x, put) /\ put.b.dir = "write" /\ View(put) = Overlay(View(x), Place(x), Data(c.e, s))
        /\ put.f.pos = Place(x) + Len(Data(c.e, s))
    BY <2>2, <2>3, <2>4, StoredIs
  <2> HIDE DEF put, r
  <2>6. IsContext(put)
    BY <2>5 DEF Follows
  <2>7. /\ r \in Shape(<<"wrote", Len(s)>>) /\ r.d = put.d /\ r.f = put.f /\ r.b = put.b /\ r.e = put.e
        /\ r.lw = TRUE /\ r.ret = <<"wrote", Len(s)>>
    BY <2>1, <2>6 DEF IsContext, Shape
  <2>8. Follows(put, r) /\ View(r) = View(put)
    BY <2>6, <2>7, SameFile
  <2>9. Follows(c, r)
    BY <2>2, <2>5, <2>8, FollowsAgain
  <2>10. DirectionFits(r.e, r.b, r.lw)
    BY <1>2, <2>5, <2>7, <2>9 DEF DirectionFits, Follows
  <2>11. View(r) = Overlay(View(c), Place(c), Data(c.e, s))
    BY <2>2, <2>3, <2>5, <2>8
  <2> QED
    BY <1>2, <2>3, <2>5, <2>7, <2>9, <2>10, <2>11 DEF Written, Place, r
<1> QED
  BY <1>1, <1>2

(* Where a seek starts from. *)
From(c, whence) ==
  CASE whence = "set" -> 0 [] whence = "cur" -> c.f.pos [] whence = "end" -> Len(View(c))

(* lseek moves and shows nothing. *)
LEMMA SeekIs ==
  ASSUME NEW c, Ready(c), NEW whence \in {"set", "cur", "end"}, NEW off \in Int
  PROVE  /\ Looks(c, Seek(c, whence, off)) /\ Seek(c, whence, off).lw = FALSE
         /\ From(c, whence) \in Nat
         /\ Seek(c, whence, off).b.dir # "write" /\ Seek(c, whence, off).b.dir \in {"none", c.b.dir}
         /\ From(c, whence) + off < 0 => /\ Seek(c, whence, off).f = c.f
                                         /\ Seek(c, whence, off).ret = Err("EINVAL")
         /\ From(c, whence) + off >= 0 => /\ Seek(c, whence, off).f.pos = From(c, whence) + off
                                          /\ Seek(c, whence, off).ret = <<"at", From(c, whence) + off>>
                                          /\ Seek(c, whence, off).b.dir = "none"
<1> DEFINE r == Seek(c, whence, off)
<1>0. IsContext(c) /\ DirectionFits(c.e, c.b, c.lw)
  BY DEF Ready
<1>1. From(c, whence) \in Nat
  <2>1. c.f.pos \in Nat /\ Len(View(c)) \in Nat
    BY <1>0, ContextTypes
  <2> QED
    BY <2>1 DEF From
<1>2. PICK at \in Int : at = From(c, whence) + off
  BY <1>1
<1>3. r = [Placed(c, at) EXCEPT !.lw = FALSE]
  <2>1. r = [Placed(c, From(c, whence) + off) EXCEPT !.lw = FALSE]
    BY DEF Seek, From, End, View
  <2> QED
    BY <1>2, <2>1
<1> HIDE DEF r
<1>4. /\ Follows(c, Placed(c, at)) /\ View(Placed(c, at)) = View(c)
      /\ at < 0 => /\ Placed(c, at).f = c.f /\ Placed(c, at).ret = Err("EINVAL")
                   /\ Placed(c, at).b.dir # "write" /\ Placed(c, at).b.dir \in {"none", c.b.dir}
      /\ at >= 0 => /\ Placed(c, at).f.pos = at /\ Placed(c, at).ret = <<"at", at>>
                    /\ Placed(c, at).b.dir = "none"
  BY <1>0, PlacedIs
<1>5. IsContext(Placed(c, at))
  BY <1>4 DEF Follows
<1>6. /\ Follows(Placed(c, at), r) /\ View(r) = View(Placed(c, at)) /\ r.lw = FALSE
      /\ r.f = Placed(c, at).f /\ r.b = Placed(c, at).b /\ r.ret = Placed(c, at).ret
  BY <1>3, <1>5, Marked
<1>7. Follows(c, r)
  BY <1>4, <1>6, FollowsAgain
<1>8. r.b.dir # "write" /\ r.b.dir \in {"none", c.b.dir}
  BY <1>2, <1>4, <1>6
<1>9. DirectionFits(r.e, r.b, r.lw)
  BY <1>0, <1>6, <1>7, <1>8 DEF DirectionFits, Follows
<1> QED
  BY <1>1, <1>2, <1>4, <1>6, <1>7, <1>8, <1>9 DEF Looks, r

(* fflush shows nothing. *)
LEMMA FlushIs ==
  ASSUME NEW c, Ready(c), NEW x
  PROVE  LET r == [Flushed(c) EXCEPT !.ret = x]
         IN  Looks(c, r) /\ r.f = c.f /\ r.ret = x /\ r.b.dir # "write" /\ r.b.dir \in {"none", c.b.dir} /\ r.lw = c.lw
<1> DEFINE r == [Flushed(c) EXCEPT !.ret = x]
           w == Flushed(c)
<1>0. IsContext(c) /\ DirectionFits(c.e, c.b, c.lw)
  BY DEF Ready
<1>1. /\ Follows(c, w) /\ View(w) = View(c) /\ w.f = c.f /\ w.lw = c.lw
      /\ w.b.dir = IF c.b.dir = "write" THEN "none" ELSE c.b.dir
  BY <1>0, FlushedIs
<1>2. IsContext(w)
  BY <1>1 DEF Follows
<1>3. Follows(w, r) /\ View(r) = View(w) /\ r.f = w.f /\ r.b = w.b /\ r.lw = w.lw /\ r.ret = x
  BY <1>2, Answered
<1> HIDE DEF r, w
<1>4. Follows(c, r)
  BY <1>1, <1>3, FollowsAgain
<1>5. r.b.dir # "write" /\ r.b.dir \in {"none", c.b.dir}
  BY <1>1, <1>3
<1>6. DirectionFits(r.e, r.b, r.lw)
  BY <1>0, <1>1, <1>3, <1>4, <1>5 DEF DirectionFits, Follows
<1> QED
  BY <1>1, <1>3, <1>4, <1>5, <1>6 DEF Looks, r

(* A file cut or extended is what the promise says of ftruncate. *)
LEMMA CutIs ==
  ASSUME NEW s \in Seq(Bytes), NEW n \in Nat
  PROVE  /\ Cut(s, n) \in Seq(Bytes)
         /\ Cut(s, n) = Posix!Ending(s, n)
<1> DEFINE g == [k \in 1..n |-> IF k <= Len(s) THEN s[k] ELSE "nul"]
<1>0. Len(s) \in Nat
  OBVIOUS
<1>1. g \in [1..n -> Bytes]
  BY <1>0 DEF Bytes
<1>2. g \in Seq(Bytes)
  BY <1>1, SeqDef
<1>3. Len(g) = n /\ \A k \in 1..n : g[k] = IF k <= Len(s) THEN s[k] ELSE "nul"
  BY <1>1, <1>2, LenProperties
<1> HIDE DEF g
<1>4. SubSeq(g, 1, n) = g
  BY <1>2, <1>3, SubSeqFull
<1>5. Cut(s, n) \in Seq(Bytes) /\ Cut(s, n) = g
  <2>1. CASE n <= Len(s)
    <3>1. \A k \in 1..n : s[k] \in Bytes
      BY <1>0, <2>1
    <3>2. /\ SubSeq(s, 1, n) \in Seq(Bytes) /\ Len(SubSeq(s, 1, n)) = IF 1 <= n THEN (n - 1) + 1 ELSE 0
          /\ \A k \in 1..(n - 1) + 1 : SubSeq(s, 1, n)[k] = s[(1 + k) - 1]
      BY <3>1, SubSeqProperties
    <3>3. Len(SubSeq(s, 1, n)) = n /\ \A k \in 1..n : SubSeq(s, 1, n)[k] = s[k]
      BY <3>2
    <3>4. SubSeq(s, 1, n) = g
      BY <1>2, <1>3, <2>1, <3>2, <3>3, SeqEqual
    <3> QED
      BY <1>2, <2>1, <3>4 DEF Cut
  <2>2. CASE n > Len(s)
    <3>1. PICK m \in Nat : m = n - Len(s)
      BY <1>0, <2>2
    <3>2. Zeros(m) \in [1..m -> Bytes] /\ \A k \in 1..m : Zeros(m)[k] = "nul"
      BY DEF Zeros, Bytes
    <3>3. Zeros(m) \in Seq(Bytes)
      BY <3>2, SeqDef
    <3>4. Len(Zeros(m)) = m
      BY <3>2, <3>3, LenProperties
    <3> DEFINE z == Zeros(m)
    <3> HIDE DEF z
    <3>5. /\ s \o z \in Seq(Bytes) /\ Len(s \o z) = Len(s) + Len(z)
          /\ \A k \in 1..Len(s) + Len(z) : (s \o z)[k] = IF k <= Len(s) THEN s[k] ELSE z[k - Len(s)]
      BY <3>3, ConcatProperties DEF z
    <3>6. Len(z) = m /\ Len(s) + m = n /\ \A k \in 1..m : z[k] = "nul"
      BY <1>0, <3>1, <3>2, <3>4 DEF z
    <3>7. \A k \in 1..n : (s \o z)[k] = IF k <= Len(s) THEN s[k] ELSE "nul"
      BY <1>0, <3>5, <3>6
    <3>8. s \o z = g
      BY <1>2, <1>3, <3>5, <3>6, <3>7, SeqEqual
    <3>9. Cut(s, n) = s \o z
      BY <1>0, <2>2, <3>1 DEF Cut, z
    <3> QED
      BY <3>5, <3>8, <3>9
  <2> QED
    BY <1>0, <2>1, <2>2
<1> QED
  BY <1>4, <1>5 DEF g, Posix!Ending

(* ftruncate cuts the view, or is refused. *)
LEMMA TruncateIs ==
  ASSUME NEW c, Ready(c)
  PROVE  LET r == Truncate(c, c.f.pos)
         IN  /\ Follows(c, r) /\ DirectionFits(r.e, r.b, r.lw) /\ r.f = c.f /\ r.lw = c.lw
             /\ r.b.dir # "write" /\ r.b.dir \in {"none", c.b.dir}
             /\ ~c.e.writable => View(r) = View(c) /\ r.ret = Err("EINVAL")
             /\ c.e.writable => View(r) = Cut(View(c), c.f.pos) /\ r.ret = <<"ok">>
<1> DEFINE r == Truncate(c, c.f.pos)
           w == Flushed(c)
<1>0. IsContext(c) /\ DirectionFits(c.e, c.b, c.lw)
  BY DEF Ready
<1>1. CASE ~c.e.writable
  <2>1. r = [Flushed(c) EXCEPT !.ret = Err("EINVAL")]
    BY <1>1 DEF Truncate
  <2>2. /\ Looks(c, r) /\ r.f = c.f /\ r.ret = Err("EINVAL") /\ r.b.dir # "write" /\ r.b.dir \in {"none", c.b.dir}
        /\ r.lw = c.lw
    BY <2>1, FlushIs
  <2> QED
    BY <1>1, <2>2 DEF Looks
<1>2. CASE c.e.writable
  <2>1. /\ Follows(c, w) /\ View(w) = View(c) /\ w.d[c.f.ino] = View(c) /\ w.f = c.f /\ w.lw = c.lw
        /\ w.b.pend = << >> /\ w.b.dir = IF c.b.dir = "write" THEN "none" ELSE c.b.dir
    BY <1>0, FlushedIs
  <2>2. IsContext(w) /\ w.e = c.e
    BY <2>1 DEF Follows
  <2> DEFINE nd == [w.d EXCEPT ![w.f.ino] = Cut(View(c), c.f.pos)]
  <2>3. r = [w EXCEPT !.d = nd, !.ret = <<"ok">>]
    BY <1>2, <2>1 DEF Truncate
  <2>4. Cut(View(c), c.f.pos) \in Seq(Bytes)
    BY <1>0, ContextTypes, CutIs
  <2> HIDE DEF w, r
  <2>5. nd \in [Inodes -> Seq(Bytes)] /\ nd[c.f.ino] = Cut(View(c), c.f.pos)
        /\ \A j \in Inodes : j # c.f.ino => nd[j] = w.d[j]
    BY <2>1, <2>2, <2>4 DEF IsContext
  <2> HIDE DEF nd
  <2>6. r \in Shape(<<"ok">>) /\ r.d = nd /\ r.f = w.f /\ r.b = w.b /\ r.e = w.e /\ r.lw = w.lw /\ r.ret = <<"ok">>
    BY <2>2, <2>3, <2>5 DEF IsContext, Shape
  <2>7. IsContext(r)
    BY <2>2, <2>6 DEF IsContext, Shape
  <2>8. Follows(c, r)
    BY <2>1, <2>2, <2>5, <2>6, <2>7 DEF Follows
  <2>9. View(r) = Cut(View(c), c.f.pos)
    <3>1. View(r) = r.d[r.f.ino]
      <4>1. r.b.pend = << >>
        BY <2>1, <2>6
      <4> QED
        BY <2>7, <4>1, ViewIs
    <3> QED
      BY <2>1, <2>5, <2>6, <3>1
  <2>10. r.b.dir # "write" /\ r.b.dir \in {"none", c.b.dir}
    BY <2>1, <2>6
  <2>11. DirectionFits(r.e, r.b, r.lw)
    BY <1>0, <2>1, <2>2, <2>6, <2>10 DEF DirectionFits
  <2> QED
    BY <1>2, <2>1, <2>6, <2>8, <2>9, <2>10, <2>11 DEF r
<1> QED
  BY <1>1, <1>2

(* The size reported is that of the view, bytes in the buffer included. *)
LEMMA MeasureIs ==
  ASSUME NEW c, Ready(c)
  PROVE  LET r == Measure(c)
         IN  /\ Looks(c, r) /\ r.f = c.f
             /\ names[c.e.path] = 0 => r.ret = Err("ENOENT") /\ r.b = c.b /\ r.lw = c.lw
             /\ names[c.e.path] # 0 => r.ret = <<"size", Len(View(c))>> /\ r.b.dir = "none"
<1> DEFINE r == Measure(c)
           w == Turned(c)
           x == Placed(w, End(c))
           y == Placed(x, c.f.pos)
<1>0. IsContext(c) /\ DirectionFits(c.e, c.b, c.lw)
  BY DEF Ready
<1>1. CASE names[c.e.path] = 0
  <2>1. r = [c EXCEPT !.ret = Err("ENOENT")]
    BY <1>1 DEF Measure
  <2> HIDE DEF r
  <2>2. Follows(c, r) /\ View(r) = View(c) /\ r.ret = Err("ENOENT") /\ r.f = c.f /\ r.b = c.b /\ r.lw = c.lw
    BY <1>0, <2>1, Answered
  <2>3. Looks(c, r)
    BY <1>0, <2>2 DEF Looks, Follows
  <2> QED
    BY <1>1, <2>2, <2>3 DEF r
<1>2. CASE names[c.e.path] # 0
  <2>1. r = [y EXCEPT !.ret = <<"size", x.f.pos>>]
    BY <1>2 DEF Measure
  <2>2. Follows(c, w) /\ View(w) = View(c) /\ w.f = c.f /\ w.lw = FALSE
    BY <1>0, TurnedIs
  <2>3. IsContext(w) /\ End(c) = Len(View(c)) /\ Len(View(c)) \in Nat /\ c.f.pos \in Nat
    BY <1>0, <2>2, ContextTypes DEF Follows, End, View
  <2> HIDE DEF w
  <2>4. Follows(w, x) /\ View(x) = View(w) /\ x.lw = w.lw /\ x.f.pos = Len(View(c))
    BY <2>3, PlacedIs
  <2>5. IsContext(x)
    BY <2>4 DEF Follows
  <2> HIDE DEF x
  <2>6. Follows(x, y) /\ View(y) = View(x) /\ y.lw = x.lw /\ y.f.pos = c.f.pos /\ y.b.dir = "none"
    BY <2>3, <2>5, PlacedIs
  <2>7. IsContext(y)
    BY <2>6 DEF Follows
  <2> HIDE DEF y, r
  <2>8. Follows(y, r) /\ View(r) = View(y) /\ r.f = y.f /\ r.b = y.b /\ r.lw = y.lw /\ r.ret = <<"size", x.f.pos>>
    BY <2>1, <2>7, Answered
  <2>9. Follows(c, r)
    BY <2>2, <2>4, <2>6, <2>8, FollowsAgain
  <2>10. r.f = c.f
    BY <1>0, <2>6, <2>8, <2>9, SameStream
  <2>11. DirectionFits(r.e, r.b, r.lw)
    BY <2>2, <2>4, <2>6, <2>8 DEF DirectionFits
  <2> QED
    BY <1>2, <2>2, <2>4, <2>6, <2>8, <2>9, <2>10, <2>11 DEF Looks, r
<1> QED
  BY <1>1, <1>2

(* A seek to a place that exists succeeds. *)
LEMMA SoughtIs ==
  ASSUME NEW c, Ready(c), NEW at \in Nat
  PROVE  LET r == Seek(c, "set", at)
         IN  Looks(c, r) /\ Ready(r) /\ r.lw = FALSE /\ r.b.dir = "none" /\ r.f.pos = at
<1> DEFINE r == Seek(c, "set", at)
<1>1. From(c, "set") = 0 /\ 0 + at = at /\ at >= 0 /\ at \in Int
  BY DEF From
<1>2. Looks(c, r) /\ r.lw = FALSE /\ r.b.dir = "none" /\ r.f.pos = at
  BY <1>1, SeekIs
<1> HIDE DEF r
<1> QED
  BY <1>2 DEF Looks, Ready, Follows, r

(* pread reads elsewhere and comes back to its place. *)
LEMMA PreadIs ==
  ASSUME NEW c, Ready(c), NEW n \in Nat, NEW off \in Nat
  PROVE  LET r == Pread(c, n, off)
         IN  /\ Looks(c, r) /\ r.f = c.f /\ r.b.dir = "none"
             /\ ~c.e.readable => r.ret = Err("EBADF")
             /\ c.e.readable => r.ret = <<"read", Seen(c.e, Part(View(c), off, n))>>
<1> DEFINE r == Pread(c, n, off)
           x == Seek(c, "set", off)
           g == Read(x, n)
           y == Seek(g, "set", c.f.pos)
<1>0. IsContext(c) /\ c.f.pos \in Nat
  BY ContextTypes DEF Ready
<1>1. r = [y EXCEPT !.ret = g.ret]
  BY DEF Pread
<1>2. Looks(c, x) /\ Ready(x) /\ x.f.pos = off
  BY SoughtIs
<1> HIDE DEF x
<1>3. /\ Looks(x, g)
      /\ ~x.e.readable => g.ret = Err("EBADF")
      /\ x.e.readable => g.ret = <<"read", Seen(x.e, Part(View(x), x.f.pos, n))>>
  BY <1>2, ReadIs
<1>4. Ready(g)
  BY <1>3 DEF Looks, Ready, Follows
<1> HIDE DEF g
<1>5. Looks(g, y) /\ Ready(y) /\ y.b.dir = "none" /\ y.f.pos = c.f.pos /\ y.lw = FALSE
  BY <1>0, <1>4, SoughtIs
<1>6. IsContext(y)
  BY <1>5 DEF Ready
<1> HIDE DEF y, r
<1>7. Follows(y, r) /\ View(r) = View(y) /\ r.f = y.f /\ r.b = y.b /\ r.lw = y.lw /\ r.ret = g.ret
  BY <1>1, <1>6, Answered
<1>8. x.e = c.e /\ View(x) = View(c) /\ View(r) = View(c)
  BY <1>2, <1>3, <1>5, <1>7 DEF Looks, Follows
<1>9. Follows(c, r)
  BY <1>2, <1>3, <1>5, <1>7, FollowsAgain DEF Looks
<1>10. r.f = c.f
  BY <1>0, <1>5, <1>7, <1>9, SameStream
<1>11. DirectionFits(r.e, r.b, r.lw)
  BY <1>5, <1>7 DEF DirectionFits
<1> QED
  BY <1>2, <1>3, <1>5, <1>7, <1>8, <1>9, <1>10, <1>11 DEF Looks, r

(* pwrite writes elsewhere and comes back to its place. *)
LEMMA PwriteIs ==
  ASSUME NEW c, Ready(c), NEW s \in Seq(Bytes), s # << >>, NEW off \in Nat
  PROVE  LET r == Pwrite(c, s, off)
         IN  /\ r.f = c.f /\ r.b.dir = "none" /\ Follows(c, r) /\ DirectionFits(r.e, r.b, r.lw)
             /\ ~c.e.writable => View(r) = View(c) /\ r.ret = Err("EBADF")
             /\ c.e.writable => Written(c, r, off, Data(c.e, s)) /\ r.ret = <<"wrote", Len(s)>>
<1> DEFINE r == Pwrite(c, s, off)
           x == Seek(c, "set", off)
           g == Write(x, s)
           y == Seek(g, "set", c.f.pos)
<1>0. IsContext(c) /\ c.f.pos \in Nat
  BY ContextTypes DEF Ready
<1>1. r = [y EXCEPT !.ret = g.ret]
  BY DEF Pwrite
<1>2. Looks(c, x) /\ Ready(x) /\ x.f.pos = off
  BY SoughtIs
<1>a. x.e = c.e /\ View(x) = View(c) /\ x.f.append = c.f.append /\ Follows(c, x)
  BY <1>2 DEF Looks, Follows
<1> HIDE DEF x
<1>3. /\ ~x.e.writable => Looks(x, g) /\ g.ret = Err("EBADF")
      /\ x.e.writable => Written(x, g, x.f.pos, Data(x.e, s)) /\ g.ret = <<"wrote", Len(s)>>
  BY <1>2, WriteIs
<1> HIDE DEF g
<1>4. /\ Follows(x, g) /\ Ready(g)
      /\ ~c.e.writable => View(g) = View(c) /\ g.ret = Err("EBADF")
      /\ c.e.writable => /\ View(g) = Overlay(View(c), IF c.f.append THEN Len(View(c)) ELSE off, Data(c.e, s))
                         /\ g.ret = <<"wrote", Len(s)>>
  <2>1. CASE ~c.e.writable
    BY <1>a, <1>3, <2>1 DEF Looks, Ready, Follows
  <2>2. CASE c.e.writable
    BY <1>a, <1>2, <1>3, <2>2 DEF Written, Ready, Follows
  <2> QED
    BY <2>1, <2>2
<1>5. Looks(g, y) /\ Ready(y) /\ y.b.dir = "none" /\ y.f.pos = c.f.pos /\ y.lw = FALSE
  BY <1>0, <1>4, SoughtIs
<1>6. IsContext(y)
  BY <1>5 DEF Ready
<1> HIDE DEF y, r
<1>7. Follows(y, r) /\ View(r) = View(y) /\ r.f = y.f /\ r.b = y.b /\ r.lw = y.lw /\ r.ret = g.ret
  <2> PICK a : a = g.ret
    OBVIOUS
  <2> PICK q : q = y
    OBVIOUS
  <2>1. IsContext(q)
    BY <1>6
  <2>2. Follows(q, [q EXCEPT !.ret = a]) /\ View([q EXCEPT !.ret = a]) = View(q)
    BY <2>1, Answered
  <2>3. [q EXCEPT !.ret = a].ret = a /\ [q EXCEPT !.ret = a].f = q.f /\ [q EXCEPT !.ret = a].b = q.b
        /\ [q EXCEPT !.ret = a].lw = q.lw
    BY <2>1, Answered
  <2>4. r = [q EXCEPT !.ret = a]
    BY <1>1
  <2> QED
    BY <2>2, <2>3, <2>4
<1>8. View(r) = View(g) /\ Follows(g, y)
  BY <1>5, <1>7 DEF Looks
<1>9. Follows(c, r)
  BY <1>a, <1>4, <1>7, <1>8, FollowsAgain
<1>10. r.f = c.f
  BY <1>0, <1>5, <1>7, <1>9, SameStream
<1>11. DirectionFits(r.e, r.b, r.lw)
  BY <1>5, <1>7 DEF DirectionFits
<1> QED
  BY <1>4, <1>5, <1>7, <1>8, <1>9, <1>10, <1>11 DEF Written, r

-----------------------------------------------------------------------------
(* All FILEs.  A FILE is open while a descriptor refers to it; a file      *)
(* nobody knows of is empty; the direction of a FILE fits the flags of     *)
(* every descriptor that can use it; and a file that is written is open    *)
(* through one FILE, so that one FILE at most has bytes waiting for it and *)
(* what the file holds is that FILE's view (Hold, the refinement mapping). *)

(* What is so of names, disk, streams, buffers, tables and flags. *)
Typed(nam, d, str, buf, tab, wr) ==
  /\ nam \in [Paths -> Inodes \cup {0}]
  /\ d \in [Inodes -> Seq(Bytes)]
  /\ str \in [Streams -> StreamOf] /\ buf \in [Streams -> BufferOf]
  /\ tab \in [Tables -> [Fds -> EntryOf]] /\ wr \in [Tables -> [Fds -> BOOLEAN]]

(* A FILE is open while some descriptor refers to it, and holds nothing when closed. *)
StreamsHeld(str, buf, tab) ==
  \A s \in Streams :
    /\ BufferFits(str[s], buf[s])
    /\ str[s].ino = 0 => str[s] = Closed /\ buf[s] = Empty
    /\ str[s].ino # 0 => \E t \in Tables, fd \in Fds : tab[t][fd].desc = s

(* A file without a name that no FILE has open is gone. *)
Gone(nam, d, str) ==
  \A i \in Inodes : (\A p \in Paths : nam[p] # i) /\ (\A s \in Streams : str[s].ino # i) => d[i] = << >>

(* A descriptor refers to an open FILE whose direction it knows. *)
EntryFits(str, buf, e, lw) ==
  /\ e.desc = 0 => ~lw
  /\ e.desc # 0 => /\ e.path \in Paths /\ str[e.desc].ino # 0
                   /\ DirectionFits(e, buf[e.desc], lw)
(* Every descriptor fits its FILE. *)
EntriesFit(str, buf, tab, wr) ==
  \A t \in Tables, fd \in Fds : EntryFits(str, buf, tab[t][fd], wr[t][fd])

(* Descriptors of one FILE are alike, and a file that is written is open through one FILE. *)
Agree(str, e, g) ==
  e.desc # 0 /\ g.desc # 0 =>
    /\ e.desc = g.desc => e = g
    /\ e.writable /\ str[e.desc].ino = str[g.desc].ino => e.desc = g.desc
(* Every two descriptors agree. *)
EntriesAgree(str, tab) ==
  \A t, u \in Tables, fd, gd \in Fds : Agree(str, tab[t][fd], tab[u][gd])

(* The invariant, of any names, disk, FILEs, buffers, tables and flags. *)
Good(nam, d, str, buf, tab, wr) ==
  /\ Typed(nam, d, str, buf, tab, wr)
  /\ StreamsHeld(str, buf, tab)
  /\ Gone(nam, d, str)
  /\ EntriesFit(str, buf, tab, wr)
  /\ EntriesAgree(str, tab)

(* The inductive invariant of the descriptor tables and their FILEs. *)
FilesInv == Good(names, disk, stream, buffer, table, wrote)

(* The bytes the files hold, as Contents has them. *)
Waiting(str, buf, i) == {s \in Streams : str[s].ino = i /\ buf[s].pend # << >>}
Hold(d, str, buf) ==
  [i \in Inodes |-> IF Waiting(str, buf, i) = {} THEN d[i]
                    ELSE LET s == CHOOSE x \in Waiting(str, buf, i) : TRUE IN Settled(d, str[s], buf[s])[i]]

(* The refinement mapping, of this state and of the next. *)
LEMMA ContentsAreHeld ==
  Contents = Hold(disk, stream, buffer) /\ Contents' = Hold(disk', stream', buffer')
BY DEF Contents, Hold, Waiting, Pending

(* What a FILE's buffer makes of its file. *)
LEMMA SettledAt ==
  ASSUME NEW d \in [Inodes -> Seq(Bytes)], NEW f \in StreamOf, NEW b \in BufferOf, f.ino \in Inodes
  PROVE  Settled(d, f, b)[f.ino] = IF b.pend = << >> THEN d[f.ino]
                                   ELSE IF f.append THEN d[f.ino] \o b.pend
                                   ELSE Overlay(d[f.ino], f.pos - Len(b.pend), b.pend)
BY DEF Settled

(* A file nobody has bytes waiting for is what is on the disk. *)
LEMMA HoldNone ==
  ASSUME NEW d, NEW str, NEW buf, NEW i \in Inodes, Waiting(str, buf, i) = {}
  PROVE  Hold(d, str, buf)[i] = d[i]
BY DEF Hold

(* A file one FILE has bytes waiting for is what that FILE makes of it. *)
LEMMA HoldOne ==
  ASSUME NEW d, NEW str, NEW buf, NEW i \in Inodes, NEW s \in Streams, Waiting(str, buf, i) = {s}
  PROVE  Hold(d, str, buf)[i] = Settled(d, str[s], buf[s])[i]
BY DEF Hold

(* What a file holds is what the one FILE that writes it says. *)
LEMMA HoldIs ==
  ASSUME NEW d, NEW str, NEW buf, NEW s \in Streams, str[s].ino \in Inodes,
         Waiting(str, buf, str[s].ino) \subseteq {s}
  PROVE  Hold(d, str, buf)[str[s].ino] = Settled(d, str[s], buf[s])[str[s].ino]
<1>1. CASE Waiting(str, buf, str[s].ino) = {s}
  BY <1>1, HoldOne
<1>2. CASE Waiting(str, buf, str[s].ino) = {}
  <2>1. buf[s].pend = << >>
    BY <1>2 DEF Waiting
  <2> QED
    BY <1>2, <2>1, HoldNone DEF Settled
<1> QED
  BY <1>1, <1>2

(* Two disks with their FILEs say the same of file i. *)
SameOf(i, d, str, buf, d2, str2, buf2) ==
  /\ d \in [Inodes -> Seq(Bytes)] /\ str \in [Streams -> StreamOf] /\ buf \in [Streams -> BufferOf]
  /\ d2[i] = d[i] /\ d2 \in [Inodes -> Seq(Bytes)] /\ Waiting(str2, buf2, i) = Waiting(str, buf, i)
  /\ \A x \in Waiting(str, buf, i) : str2[x] = str[x] /\ buf2[x] = buf[x]

(* A file nothing of which changes holds the same bytes. *)
LEMMA HoldSame ==
  ASSUME NEW d, NEW str, NEW buf, NEW d2, NEW str2, NEW buf2, NEW i \in Inodes,
         SameOf(i, d, str, buf, d2, str2, buf2)
  PROVE  Hold(d2, str2, buf2)[i] = Hold(d, str, buf)[i]
<1>0. /\ d \in [Inodes -> Seq(Bytes)] /\ str \in [Streams -> StreamOf] /\ buf \in [Streams -> BufferOf]
      /\ d2[i] = d[i] /\ d2 \in [Inodes -> Seq(Bytes)] /\ Waiting(str2, buf2, i) = Waiting(str, buf, i)
      /\ \A x \in Waiting(str, buf, i) : str2[x] = str[x] /\ buf2[x] = buf[x]
  BY DEF SameOf
<1>1. CASE Waiting(str, buf, i) = {}
  BY <1>0, <1>1, HoldNone
<1>2. CASE Waiting(str, buf, i) # {}
  <2>1. PICK x : x = (CHOOSE y \in Waiting(str, buf, i) : TRUE)
    OBVIOUS
  <2>2. x \in Waiting(str, buf, i)
    BY <1>2, <2>1
  <2>3. x \in Streams /\ str[x].ino = i /\ str2[x] = str[x] /\ buf2[x] = buf[x]
    BY <1>0, <2>2 DEF Waiting
  <2>4. Hold(d, str, buf)[i] = Settled(d, str[x], buf[x])[i]
    BY <1>0, <1>2, <2>1 DEF Hold
  <2>5. Hold(d2, str2, buf2)[i] = Settled(d2, str2[x], buf2[x])[i]
    BY <1>0, <1>2, <2>1 DEF Hold
  <2>6. str[x] \in StreamOf /\ buf[x] \in BufferOf
    BY <1>0, <2>3
  <2>7. Settled(d, str[x], buf[x])[i] = Settled(d2, str[x], buf[x])[i]
    <3>1. PICK f \in StreamOf, b \in BufferOf : f = str[x] /\ b = buf[x] /\ f.ino = i
      BY <2>3, <2>6
    <3>2. Settled(d, f, b)[f.ino] = IF b.pend = << >> THEN d[f.ino] ELSE IF f.append THEN d[f.ino] \o b.pend
                                    ELSE Overlay(d[f.ino], f.pos - Len(b.pend), b.pend)
      BY <1>0, <3>1, SettledAt
    <3>3. Settled(d2, f, b)[f.ino] = IF b.pend = << >> THEN d2[f.ino] ELSE IF f.append THEN d2[f.ino] \o b.pend
                                     ELSE Overlay(d2[f.ino], f.pos - Len(b.pend), b.pend)
      BY <1>0, <3>1, SettledAt
    <3> QED
      BY <1>0, <3>1, <3>2, <3>3
  <2> QED
    BY <2>3, <2>4, <2>5, <2>7
<1> QED
  BY <1>1, <1>2

(* FILEs are numbered from 1; 0 is none. *)
LEMMA StreamsArePositive == \A s \in Streams : s \in Nat \ {0}
<1>1. PICK n : Streams = 1..n
  BY FileBounds
<1> QED
  BY <1>1

(* Of the FILEs of one file none but one keeps bytes to itself. *)
LEMMA OnePending ==
  ASSUME NEW nam, NEW d, NEW str, NEW buf, NEW tab, NEW wr, Good(nam, d, str, buf, tab, wr),
         NEW s \in Streams, str[s].ino # 0
  PROVE  Waiting(str, buf, str[s].ino) \subseteq {s}
<1> SUFFICES ASSUME NEW x \in Waiting(str, buf, str[s].ino) PROVE x = s
  OBVIOUS
<1>1. x \in Streams /\ str[x].ino = str[s].ino /\ buf[x].pend # << >>
  BY DEF Waiting
<1>2. buf[x].dir = "write"
  BY <1>1 DEF Good, StreamsHeld, BufferFits
<1>3. PICK t \in Tables, fd \in Fds : tab[t][fd].desc = x
  BY <1>1 DEF Good, StreamsHeld
<1>4. PICK u \in Tables, gd \in Fds : tab[u][gd].desc = s
  BY DEF Good, StreamsHeld
<1>5. x # 0 /\ s # 0
  BY <1>1, StreamsArePositive
<1>6. tab[t][fd].writable
  BY <1>2, <1>3, <1>5 DEF Good, EntriesFit, EntryFits, DirectionFits
<1>7. Agree(str, tab[t][fd], tab[u][gd])
  BY DEF Good, EntriesAgree
<1> QED
  BY <1>1, <1>3, <1>4, <1>5, <1>6, <1>7 DEF Agree

-----------------------------------------------------------------------------
(* A call through one descriptor.                                          *)

(* The context a call on descriptor fd finds. *)
ContextOf(d, str, buf, tab, wr, t, fd) ==
  [d |-> d, f |-> str[tab[t][fd].desc], b |-> buf[tab[t][fd].desc],
   e |-> tab[t][fd], lw |-> wr[t][fd], ret |-> << >>]

(* What a call finds is well-typed, and its view is what the file holds. *)
LEMMA ContextReady ==
  ASSUME NEW nam, NEW d, NEW str, NEW buf, NEW tab, NEW wr, Good(nam, d, str, buf, tab, wr),
         NEW t \in Tables, NEW fd \in Fds, tab[t][fd].desc # 0
  PROVE  LET s == tab[t][fd].desc
             c == ContextOf(d, str, buf, tab, wr, t, fd)
         IN  /\ s \in Streams /\ str[s].ino \in Inodes /\ tab[t][fd].path \in Paths
             /\ Ready(c) /\ c.d = d /\ c.f = str[s] /\ c.b = buf[s] /\ c.e = tab[t][fd] /\ c.lw = wr[t][fd]
             /\ Hold(d, str, buf)[str[s].ino] = View(c)
<1> PICK s : s = tab[t][fd].desc
  OBVIOUS
<1> PICK c : c = ContextOf(d, str, buf, tab, wr, t, fd)
  OBVIOUS
<1>1. tab[t][fd] \in EntryOf /\ wr[t][fd] \in BOOLEAN
  BY DEF Good, Typed
<1>2. s \in Streams
  BY <1>1 DEF EntryOf
<1>3. str[s] \in StreamOf /\ buf[s] \in BufferOf /\ d \in [Inodes -> Seq(Bytes)]
  BY <1>2 DEF Good, Typed
<1>4. BufferFits(str[s], buf[s])
  BY <1>2 DEF Good, StreamsHeld
<1>5. tab[t][fd].path \in Paths /\ str[s].ino # 0 /\ DirectionFits(tab[t][fd], buf[s], wr[t][fd])
  BY DEF Good, EntriesFit, EntryFits
<1>6. str[s].ino \in Inodes
  BY <1>3, <1>5 DEF StreamOf
<1>7. c.d = d /\ c.f = str[s] /\ c.b = buf[s] /\ c.e = tab[t][fd] /\ c.lw = wr[t][fd] /\ c.ret = << >>
  BY DEF ContextOf
<1>8. Ready(c)
  <2>1. c \in Shape(<< >>)
    BY <1>1, <1>3 DEF ContextOf, Shape
  <2> QED
    BY <1>4, <1>5, <1>6, <1>7, <2>1 DEF Ready, IsContext, Shape
<1>9. Hold(d, str, buf)[str[s].ino] = View(c)
  <2>1. Waiting(str, buf, str[s].ino) \subseteq {s}
    BY <1>2, <1>5, OnePending
  <2> QED
    BY <1>2, <1>6, <1>7, <2>1, HoldIs DEF View
<1> QED
  BY <1>2, <1>5, <1>6, <1>7, <1>8, <1>9

(* A call through one descriptor leaves everything as it should be, unless it turns *)
(* a FILE other descriptors share from one direction to the other.                  *)
LEMMA ThroughGood ==
  ASSUME NEW nam, NEW d, NEW str, NEW buf, NEW tab, NEW wr, Good(nam, d, str, buf, tab, wr),
         NEW t \in Tables, NEW fd \in Fds, NEW s, s = tab[t][fd].desc, s # 0,
         NEW r, Follows(ContextOf(d, str, buf, tab, wr, t, fd), r), DirectionFits(r.e, r.b, r.lw),
         \/ r.b.dir \in {"none", buf[s].dir}
         \/ ~(tab[t][fd].readable /\ tab[t][fd].writable)
         \/ \A u \in Tables, gd \in Fds : tab[u][gd].desc = s => u = t /\ gd = fd
  PROVE  Good(nam, r.d, [str EXCEPT ![s] = r.f], [buf EXCEPT ![s] = r.b], tab, [wr EXCEPT ![t][fd] = r.lw])
<1> PICK c : c = ContextOf(d, str, buf, tab, wr, t, fd)
  OBVIOUS
<1>1. /\ s \in Streams /\ str[s].ino \in Inodes /\ tab[t][fd].path \in Paths
      /\ Ready(c) /\ c.d = d /\ c.f = str[s] /\ c.b = buf[s] /\ c.e = tab[t][fd] /\ c.lw = wr[t][fd]
  BY ContextReady
<1>2. /\ IsContext(r) /\ r.e = tab[t][fd] /\ r.f.ino = str[s].ino /\ r.f.append = str[s].append
  BY <1>1 DEF Follows
<1>3. r.d \in [Inodes -> Seq(Bytes)] /\ r.f \in StreamOf /\ r.b \in BufferOf /\ r.lw \in BOOLEAN /\ BufferFits(r.f, r.b)
  BY <1>2 DEF IsContext
<1>4. \A j \in Inodes : j # str[s].ino => r.d[j] = d[j]
  BY <1>1 DEF Follows
<1> DEFINE str2 == [str EXCEPT ![s] = r.f]
           buf2 == [buf EXCEPT ![s] = r.b]
           wr2 == [wr EXCEPT ![t][fd] = r.lw]
<1>5. Typed(nam, r.d, str2, buf2, tab, wr2)
  BY <1>1, <1>3 DEF Good, Typed
<1>6. /\ str2[s] = r.f /\ buf2[s] = r.b /\ \A x \in Streams : x # s => str2[x] = str[x] /\ buf2[x] = buf[x]
      /\ \A x \in Streams : str2[x].ino = str[x].ino
  BY <1>1, <1>2 DEF Good, Typed
<1>7. /\ wr2[t][fd] = r.lw
      /\ \A u \in Tables, gd \in Fds : ~(u = t /\ gd = fd) => wr2[u][gd] = wr[u][gd]
  BY DEF Good, Typed
<1> HIDE DEF str2, buf2, wr2
<1>8. StreamsHeld(str2, buf2, tab)
  <2>0. 0 \notin Inodes
    BY FileBounds
  <2> SUFFICES ASSUME NEW x \in Streams
               PROVE  /\ BufferFits(str2[x], buf2[x])
                      /\ str2[x].ino = 0 => str2[x] = Closed /\ buf2[x] = Empty
                      /\ str2[x].ino # 0 => \E u \in Tables, gd \in Fds : tab[u][gd].desc = x
    BY DEF StreamsHeld
  <2>1. /\ BufferFits(str[x], buf[x])
        /\ str[x].ino = 0 => str[x] = Closed /\ buf[x] = Empty
        /\ str[x].ino # 0 => \E u \in Tables, gd \in Fds : tab[u][gd].desc = x
    BY DEF Good, StreamsHeld
  <2>2. CASE x = s
    BY <1>1, <1>3, <1>6, <2>0, <2>1, <2>2
  <2>3. CASE x # s
    BY <1>6, <2>1, <2>3
  <2> QED
    BY <2>2, <2>3
<1>9. Gone(nam, r.d, str2)
  <2> SUFFICES ASSUME NEW i \in Inodes, \A p \in Paths : nam[p] # i, \A x \in Streams : str2[x].ino # i
               PROVE  r.d[i] = << >>
    BY DEF Gone
  <2>1. \A x \in Streams : str[x].ino # i
    BY <1>6
  <2>2. d[i] = << >>
    BY <2>1 DEF Good, Gone
  <2> QED
    BY <1>1, <1>4, <2>1, <2>2
<1>10. EntriesFit(str2, buf2, tab, wr2)
  <2> SUFFICES ASSUME NEW u \in Tables, NEW gd \in Fds PROVE EntryFits(str2, buf2, tab[u][gd], wr2[u][gd])
    BY DEF EntriesFit
  <2>0. PICK e : e = tab[u][gd]
    OBVIOUS
  <2>1. EntryFits(str, buf, e, wr[u][gd]) /\ e \in EntryOf /\ wr[u][gd] \in BOOLEAN
    BY <2>0 DEF Good, EntriesFit, Typed
  <2>2. CASE u = t /\ gd = fd
    BY <1>1, <1>2, <1>6, <1>7, <2>0, <2>1, <2>2 DEF EntryFits
  <2>3. CASE e.desc # s
    <3>1. wr2[u][gd] = wr[u][gd]
      BY <1>7, <2>0, <2>3
    <3>2. e.desc # 0 => e.desc \in Streams
      BY <2>1 DEF EntryOf
    <3>3. e.desc # 0 => str2[e.desc] = str[e.desc] /\ buf2[e.desc] = buf[e.desc]
      BY <1>6, <2>3, <3>2
    <3> QED
      BY <2>0, <2>1, <3>1, <3>3 DEF EntryFits
  <2>4. CASE e.desc = s /\ ~(u = t /\ gd = fd)
    <3>1. wr2[u][gd] = wr[u][gd]
      BY <1>7, <2>4
    <3>2. e = tab[t][fd]
      BY <2>0, <2>4 DEF Good, EntriesAgree, Agree
    <3>3. /\ e.path \in Paths /\ str[s].ino # 0 /\ DirectionFits(e, buf[s], wr[u][gd])
      BY <2>1, <2>4 DEF EntryFits
    <3>4. DirectionFits(e, r.b, r.lw)
      BY <1>2, <3>2
    <3>5. \/ r.b.dir \in {"none", buf[s].dir}
          \/ ~(e.readable /\ e.writable)
      BY <2>0, <2>4, <3>2
    <3>6. DirectionFits(e, r.b, wr[u][gd])
      BY <3>3, <3>4, <3>5 DEF DirectionFits
    <3>7. str2[s].ino # 0 /\ buf2[s] = r.b
      BY <1>1, <1>6, <3>3
    <3> QED
      BY <2>0, <2>4, <3>1, <3>3, <3>6, <3>7 DEF EntryFits
  <2> QED
    BY <2>2, <2>3, <2>4
<1>11. EntriesAgree(str2, tab)
  <2> SUFFICES ASSUME NEW u \in Tables, NEW v \in Tables, NEW gd \in Fds, NEW hd \in Fds
               PROVE  Agree(str2, tab[u][gd], tab[v][hd])
    BY DEF EntriesAgree
  <2>1. PICK e, g : e = tab[u][gd] /\ g = tab[v][hd]
    OBVIOUS
  <2>2. Agree(str, e, g) /\ e \in EntryOf /\ g \in EntryOf
    BY <2>1 DEF Good, EntriesAgree, Typed
  <2>3. (e.desc # 0 => e.desc \in Streams) /\ (g.desc # 0 => g.desc \in Streams)
    BY <2>2 DEF EntryOf
  <2>4. Agree(str2, e, g)
    BY <1>6, <2>2, <2>3 DEF Agree
  <2> QED
    BY <2>1, <2>4
<1> QED
  BY <1>5, <1>8, <1>9, <1>10, <1>11 DEF Good, str2, buf2, wr2

(* ... and of the files changes only what the descriptor's file holds. *)
Steps(nam, d, str, buf, tab, wr, wr2, t, fd, s, r) ==
  /\ Good(nam, d, str, buf, tab, wr)
  /\ t \in Tables /\ fd \in Fds /\ s = tab[t][fd].desc /\ s # 0
  /\ Follows(ContextOf(d, str, buf, tab, wr, t, fd), r)
  /\ Good(nam, r.d, [str EXCEPT ![s] = r.f], [buf EXCEPT ![s] = r.b], tab, wr2)

(* Such a call changes what one file holds, to the view it leaves. *)
LEMMA ThroughHold ==
  ASSUME NEW nam, NEW d, NEW str, NEW buf, NEW tab, NEW wr, NEW wr2, NEW t, NEW fd, NEW s, NEW r,
         Steps(nam, d, str, buf, tab, wr, wr2, t, fd, s, r)
  PROVE  Hold(r.d, [str EXCEPT ![s] = r.f], [buf EXCEPT ![s] = r.b])
           = [Hold(d, str, buf) EXCEPT ![str[s].ino] = View(r)]
<1>a. /\ Good(nam, d, str, buf, tab, wr)
      /\ t \in Tables /\ fd \in Fds /\ s = tab[t][fd].desc /\ s # 0
      /\ Follows(ContextOf(d, str, buf, tab, wr, t, fd), r)
  BY DEF Steps
<1> PICK c : c = ContextOf(d, str, buf, tab, wr, t, fd)
  OBVIOUS
<1>1. /\ s \in Streams /\ str[s].ino \in Inodes /\ c.d = d /\ c.f = str[s] /\ c.b = buf[s]
  BY <1>a, ContextReady
<1>2. IsContext(r) /\ r.f.ino = str[s].ino
  BY <1>1, <1>a DEF Follows
<1>3. r.d \in [Inodes -> Seq(Bytes)] /\ r.f \in StreamOf /\ r.b \in BufferOf
  BY <1>2 DEF IsContext
<1>4. \A j \in Inodes : j # str[s].ino => r.d[j] = d[j]
  BY <1>1, <1>a DEF Follows
<1> DEFINE str2 == [str EXCEPT ![s] = r.f]
           buf2 == [buf EXCEPT ![s] = r.b]
<1>5. Typed(nam, d, str, buf, tab, wr) /\ str2 \in [Streams -> StreamOf] /\ buf2 \in [Streams -> BufferOf]
  BY <1>1, <1>3, <1>a DEF Good, Typed
<1>6. /\ str2[s] = r.f /\ buf2[s] = r.b /\ \A x \in Streams : x # s => str2[x] = str[x] /\ buf2[x] = buf[x]
  BY <1>1, <1>5 DEF Typed
<1>h. Good(nam, r.d, str2, buf2, tab, wr2)
  BY DEF Steps
<1> HIDE DEF str2, buf2
<1>7. Hold(r.d, str2, buf2)[str[s].ino] = View(r)
  <2>0. str2[s].ino = str[s].ino /\ str2[s].ino # 0
    BY <1>1, <1>2, <1>6, FileBounds
  <2>1. Waiting(str2, buf2, str2[s].ino) \subseteq {s}
    BY <1>1, <1>h, <2>0, OnePending
  <2>2. Hold(r.d, str2, buf2)[str2[s].ino] = Settled(r.d, str2[s], buf2[s])[str2[s].ino]
    BY <1>1, <2>0, <2>1, HoldIs
  <2> QED
    BY <1>2, <1>6, <2>0, <2>2 DEF View
<1>8. ASSUME NEW j \in Inodes, j # str[s].ino PROVE Hold(r.d, str2, buf2)[j] = Hold(d, str, buf)[j]
  <2>1. Waiting(str2, buf2, j) = Waiting(str, buf, j)
    BY <1>1, <1>2, <1>6, <1>8 DEF Waiting
  <2>2. \A x \in Waiting(str, buf, j) : str2[x] = str[x] /\ buf2[x] = buf[x]
    BY <1>6, <1>8 DEF Waiting
  <2>3. r.d[j] = d[j]
    BY <1>4, <1>8
  <2> QED
    <3>1. SameOf(j, d, str, buf, r.d, str2, buf2)
      BY <1>3, <1>5, <2>1, <2>2, <2>3 DEF SameOf, Typed
    <3> QED
      BY <1>8, <3>1, HoldSame
<1>9. Hold(r.d, str2, buf2) = [Hold(d, str, buf) EXCEPT ![str[s].ino] = View(r)]
  <2>1. PICK h, h2 : h = Hold(d, str, buf) /\ h2 = Hold(r.d, str2, buf2)
    OBVIOUS
  <2>2. h = [j \in Inodes |-> h[j]] /\ h2 = [j \in Inodes |-> h2[j]]
    BY <2>1 DEF Hold
  <2>3. PICK i \in Inodes : i = str[s].ino
    BY <1>1
  <2>4. h2[i] = View(r) /\ \A j \in Inodes : j # i => h2[j] = h[j]
    BY <1>7, <1>8, <2>1, <2>3
  <2>5. h2 = [h EXCEPT ![i] = View(r)]
    BY <2>2, <2>4
  <2> QED
    BY <2>1, <2>3, <2>5
<1> QED
  BY <1>9 DEF str2, buf2

-----------------------------------------------------------------------------
(* Descriptors copied or given up: FILEs nobody refers to are flushed and  *)
(* closed, files nobody knows of are gone.                                 *)

(* A FILE with a descriptor; a file with a name or an open FILE; a file    *)
(* whose FILE closes.                                                      *)
Alive(tab, s) == \E t \in Tables, fd \in Fds : tab[t][fd].desc = s
Kept(nam, tab, str, i) == (\E p \in Paths : nam[p] = i) \/ (\E s \in Streams : Alive(tab, s) /\ str[s].ino = i)
Dying(tab, str, i) == \E s \in Streams : ~Alive(tab, s) /\ str[s].ino = i

(* What Adopt leaves. *)
StreamsLeft(tab, str) == [s \in Streams |-> IF Alive(tab, s) THEN str[s] ELSE Closed]
BuffersLeft(tab, buf) == [s \in Streams |-> IF Alive(tab, s) THEN buf[s] ELSE Empty]
FlagsLeft(tab, fl) == [t \in Tables |-> [fd \in Fds |-> fl[t][fd] /\ tab[t][fd] # NoEntry]]
DiskLeft(nam, tab, str, d, con) ==
  [i \in Inodes |-> IF ~Kept(nam, tab, str, i) THEN << >> ELSE IF Dying(tab, str, i) THEN con[i] ELSE d[i]]
(* What the files hold once Adopt is done. *)
HeldLeft(nam, tab, str, con) == [i \in Inodes |-> IF Kept(nam, tab, str, i) THEN con[i] ELSE << >>]

(* Adopt, field by field. *)
LEMMA AdoptIs ==
  ASSUME NEW tab, NEW fl, NEW nam, NEW d, NEW str, NEW buf
  PROVE  Adopt(tab, fl, nam, d, str, buf)
           <=> /\ table' = tab /\ names' = nam
               /\ wrote' = FlagsLeft(tab, fl)
               /\ stream' = StreamsLeft(tab, str) /\ buffer' = BuffersLeft(tab, buf)
               /\ disk' = DiskLeft(nam, tab, str, d, Contents)
<1>1. ASSUME NEW s PROVE (Refs(s, tab) # {}) <=> Alive(tab, s)
  <2>1. ASSUME Refs(s, tab) # {} PROVE Alive(tab, s)
    <3>1. PICK r \in Tables \X Fds : tab[r[1]][r[2]].desc = s
      BY <2>1 DEF Refs
    <3>2. r[1] \in Tables /\ r[2] \in Fds
      OBVIOUS
    <3> QED
      BY <3>1, <3>2 DEF Alive
  <2>2. ASSUME Alive(tab, s) PROVE Refs(s, tab) # {}
    <3>1. PICK t \in Tables, fd \in Fds : tab[t][fd].desc = s
      BY <2>2 DEF Alive
    <3>2. <<t, fd>> \in Refs(s, tab)
      BY <3>1 DEF Refs
    <3> QED
      BY <3>2
  <2> QED
    BY <2>1, <2>2
<1> DEFINE lives(s) == Refs(s, tab) # {}
           kept(i) == (\E p \in Paths : nam[p] = i) \/ (\E s \in Streams : lives(s) /\ str[s].ino = i)
           dying(i) == \E s \in Streams : ~lives(s) /\ str[s].ino = i
<1>2. Adopt(tab, fl, nam, d, str, buf)
        <=> /\ table' = tab /\ names' = nam
            /\ wrote' = FlagsLeft(tab, fl)
            /\ stream' = [s \in Streams |-> IF lives(s) THEN str[s] ELSE Closed]
            /\ buffer' = [s \in Streams |-> IF lives(s) THEN buf[s] ELSE Empty]
            /\ disk' = [i \in Inodes |-> IF ~kept(i) THEN << >> ELSE IF dying(i) THEN Contents[i] ELSE d[i]]
  BY Zenon DEF Adopt, FlagsLeft
<1>3. \A s : lives(s) <=> Alive(tab, s)
  BY <1>1
<1> HIDE DEF lives
<1>4. [s \in Streams |-> IF lives(s) THEN str[s] ELSE Closed] = StreamsLeft(tab, str)
  BY <1>3 DEF StreamsLeft
<1>5. [s \in Streams |-> IF lives(s) THEN buf[s] ELSE Empty] = BuffersLeft(tab, buf)
  BY <1>3 DEF BuffersLeft
<1>6. \A i : (kept(i) <=> Kept(nam, tab, str, i)) /\ (dying(i) <=> Dying(tab, str, i))
  BY <1>3 DEF Kept, Dying
<1> HIDE DEF kept, dying
<1>7. [i \in Inodes |-> IF ~kept(i) THEN << >> ELSE IF dying(i) THEN Contents[i] ELSE d[i]]
       = DiskLeft(nam, tab, str, d, Contents)
  BY <1>6 DEF DiskLeft
<1> QED
  BY <1>2, <1>4, <1>5, <1>7, Zenon

(* A closed FILE, an empty buffer and a free descriptor. *)
LEMMA EmptyTypes ==
  /\ Closed \in StreamOf /\ Empty \in BufferOf /\ Closed.ino = 0 /\ BufferFits(Closed, Empty)
  /\ Empty.pend = << >> /\ Empty.dir = "none" /\ NoEntry \in EntryOf /\ NoEntry.desc = 0
<1>1. << >> \in Seq(Bytes) /\ Len(<< >>) = 0
  OBVIOUS
<1>2. Empty.pend = << >> /\ Empty.dir = "none" /\ Empty.misused = FALSE
  BY DEF Empty
<1>3. Empty \in BufferOf
  BY <1>1 DEF Empty, BufferOf
<1>4. Closed \in StreamOf /\ Closed.ino = 0 /\ Closed.pos = 0
  BY DEF Closed, StreamOf
<1>5. NoEntry \in EntryOf /\ NoEntry.desc = 0
  BY DEF NoEntry, EntryOf
<1> QED
  BY <1>1, <1>2, <1>3, <1>4, <1>5 DEF BufferFits

(* Files hold bytes. *)
LEMMA HoldType ==
  ASSUME NEW nam, NEW d, NEW str, NEW buf, NEW tab, NEW wr, Good(nam, d, str, buf, tab, wr), NEW i \in Inodes
  PROVE  Hold(d, str, buf)[i] \in Seq(Bytes)
<1>1. d[i] \in Seq(Bytes)
  BY DEF Good, Typed
<1>2. CASE Waiting(str, buf, i) = {}
  BY <1>1, <1>2, HoldNone
<1>3. CASE Waiting(str, buf, i) # {}
  <2>1. PICK s \in Waiting(str, buf, i) : TRUE
    BY <1>3
  <2>2. s \in Streams /\ str[s].ino = i /\ i # 0
    BY <2>1, FileBounds DEF Waiting
  <2>3. PICK t \in Tables, fd \in Fds : tab[t][fd].desc = s
    BY <2>2 DEF Good, StreamsHeld
  <2>4. tab[t][fd].desc # 0
    BY <2>2, <2>3, StreamsArePositive
  <2> DEFINE c == ContextOf(d, str, buf, tab, wr, t, fd)
  <2>5. Ready(c) /\ Hold(d, str, buf)[str[s].ino] = View(c)
    BY <2>3, <2>4, ContextReady
  <2> QED
    BY <2>2, <2>5, ViewIs DEF Ready
<1> QED
  BY <1>2, <1>3

(* Tables whose descriptors are copies of those there were. *)
Derived(nam2, tab2, fl, tab, wr) ==
  /\ nam2 \in [Paths -> Inodes \cup {0}]
  /\ tab2 \in [Tables -> [Fds -> EntryOf]]
  /\ fl \in [Tables -> [Fds -> BOOLEAN]]
  /\ \A t \in Tables, fd \in Fds :
       \/ tab2[t][fd] = NoEntry
       \/ \E u \in Tables, gd \in Fds : tab2[t][fd] = tab[u][gd] /\ fl[t][fd] = wr[u][gd]

(* Descriptors copied or given up leave everything as it should be. *)
LEMMA AdoptGood ==
  ASSUME NEW nam, NEW d, NEW str, NEW buf, NEW tab, NEW wr, Good(nam, d, str, buf, tab, wr),
         NEW nam2, NEW tab2, NEW fl, Derived(nam2, tab2, fl, tab, wr)
  PROVE  Good(nam2, DiskLeft(nam2, tab2, str, d, Hold(d, str, buf)), StreamsLeft(tab2, str), BuffersLeft(tab2, buf),
              tab2, FlagsLeft(tab2, fl))
<1> DEFINE d2 == DiskLeft(nam2, tab2, str, d, Hold(d, str, buf))
           str2 == StreamsLeft(tab2, str)
           buf2 == BuffersLeft(tab2, buf)
           wr2 == FlagsLeft(tab2, fl)
<1>0. Typed(nam, d, str, buf, tab, wr)
  BY DEF Good
<1>a. /\ nam2 \in [Paths -> Inodes \cup {0}] /\ tab2 \in [Tables -> [Fds -> EntryOf]]
      /\ fl \in [Tables -> [Fds -> BOOLEAN]]
  BY DEF Derived
<1>b. \A t \in Tables, fd \in Fds :
        \/ tab2[t][fd] = NoEntry
        \/ \E u \in Tables, gd \in Fds : tab2[t][fd] = tab[u][gd] /\ fl[t][fd] = wr[u][gd]
  BY DEF Derived
<1>1. \A i \in Inodes : d2[i] = IF ~Kept(nam2, tab2, str, i) THEN << >>
                                ELSE IF Dying(tab2, str, i) THEN Hold(d, str, buf)[i] ELSE d[i]
  BY DEF DiskLeft
<1>2. \A s \in Streams : Alive(tab2, s) => str2[s] = str[s] /\ buf2[s] = buf[s]
  BY DEF StreamsLeft, BuffersLeft
<1>3. \A s \in Streams : ~Alive(tab2, s) => str2[s] = Closed /\ buf2[s] = Empty
  BY DEF StreamsLeft, BuffersLeft
<1>4. \A t \in Tables, fd \in Fds : wr2[t][fd] = (fl[t][fd] /\ tab2[t][fd] # NoEntry) /\ wr2[t][fd] \in BOOLEAN
  BY <1>a DEF FlagsLeft
<1>5. Typed(nam2, d2, str2, buf2, tab2, wr2)
  <2>1. d2 \in [Inodes -> Seq(Bytes)]
    <3>1. << >> \in Seq(Bytes) /\ \A i \in Inodes : d[i] \in Seq(Bytes) /\ Hold(d, str, buf)[i] \in Seq(Bytes)
      BY <1>0, HoldType DEF Typed
    <3> QED
      BY <3>1 DEF DiskLeft
  <2>2. str2 \in [Streams -> StreamOf] /\ buf2 \in [Streams -> BufferOf]
    BY <1>0, EmptyTypes DEF Typed, StreamsLeft, BuffersLeft
  <2>3. wr2 \in [Tables -> [Fds -> BOOLEAN]]
    BY <1>a DEF FlagsLeft
  <2> QED
    BY <1>a, <2>1, <2>2, <2>3 DEF Typed
<1> HIDE DEF d2, str2, buf2, wr2
<1>6. StreamsHeld(str2, buf2, tab2)
  <2> SUFFICES ASSUME NEW s \in Streams
               PROVE  /\ BufferFits(str2[s], buf2[s])
                      /\ str2[s].ino = 0 => str2[s] = Closed /\ buf2[s] = Empty
                      /\ str2[s].ino # 0 => \E t \in Tables, fd \in Fds : tab2[t][fd].desc = s
    BY DEF StreamsHeld
  <2>1. BufferFits(str[s], buf[s]) /\ (str[s].ino = 0 => str[s] = Closed /\ buf[s] = Empty)
    BY DEF Good, StreamsHeld
  <2>2. CASE Alive(tab2, s)
    BY <1>2, <2>1, <2>2 DEF Alive
  <2>3. CASE ~Alive(tab2, s)
    BY <1>3, <2>3, EmptyTypes
  <2> QED
    BY <2>2, <2>3
<1>7. Gone(nam2, d2, str2)
  <2> SUFFICES ASSUME NEW i \in Inodes, \A p \in Paths : nam2[p] # i, \A s \in Streams : str2[s].ino # i
               PROVE  d2[i] = << >>
    BY DEF Gone
  <2>1. ~Kept(nam2, tab2, str, i)
    BY <1>2 DEF Kept
  <2> QED
    BY <1>1, <2>1
<1>8. ASSUME NEW t \in Tables, NEW fd \in Fds, tab2[t][fd].desc # 0
      PROVE  /\ tab2[t][fd].desc \in Streams
             /\ str2[tab2[t][fd].desc] = str[tab2[t][fd].desc] /\ buf2[tab2[t][fd].desc] = buf[tab2[t][fd].desc]
             /\ \E u \in Tables, gd \in Fds : tab2[t][fd] = tab[u][gd] /\ fl[t][fd] = wr[u][gd]
  <2>1. tab2[t][fd] \in EntryOf /\ tab2[t][fd] # NoEntry
    BY <1>8, <1>a, EmptyTypes
  <2>2. tab2[t][fd].desc \in Streams
    BY <1>8, <2>1 DEF EntryOf
  <2>3. Alive(tab2, tab2[t][fd].desc)
    BY <1>8 DEF Alive
  <2> QED
    BY <1>2, <1>8, <1>b, <2>1, <2>2, <2>3
<1>9. EntriesFit(str2, buf2, tab2, wr2)
  <2> SUFFICES ASSUME NEW t \in Tables, NEW fd \in Fds PROVE EntryFits(str2, buf2, tab2[t][fd], wr2[t][fd])
    BY DEF EntriesFit
  <2>1. CASE tab2[t][fd].desc = 0
    <3>1. CASE tab2[t][fd] = NoEntry
      BY <1>4, <2>1, <3>1 DEF EntryFits
    <3>2. CASE tab2[t][fd] # NoEntry
      <4>1. PICK u \in Tables, gd \in Fds : tab2[t][fd] = tab[u][gd] /\ fl[t][fd] = wr[u][gd]
        BY <1>b, <3>2
      <4>2. EntryFits(str, buf, tab[u][gd], wr[u][gd])
        BY DEF Good, EntriesFit
      <4>3. ~fl[t][fd]
        BY <2>1, <4>1, <4>2 DEF EntryFits
      <4>4. ~wr2[t][fd]
        BY <1>4, <4>3
      <4> QED
        BY <2>1, <4>4 DEF EntryFits
    <3> QED
      BY <3>1, <3>2
  <2>2. CASE tab2[t][fd].desc # 0
    <3>0. PICK e : e = tab2[t][fd]
      OBVIOUS
    <3>1. /\ e.desc \in Streams /\ str2[e.desc] = str[e.desc] /\ buf2[e.desc] = buf[e.desc]
          /\ \E u \in Tables, gd \in Fds : e = tab[u][gd] /\ fl[t][fd] = wr[u][gd]
      BY <1>8, <2>2, <3>0
    <3>2. PICK u \in Tables, gd \in Fds : e = tab[u][gd] /\ fl[t][fd] = wr[u][gd]
      BY <3>1
    <3>3. EntryFits(str, buf, e, wr[u][gd])
      BY <3>2 DEF Good, EntriesFit
    <3>4. e # NoEntry
      BY <2>2, <3>0, EmptyTypes
    <3>5. wr2[t][fd] = wr[u][gd]
      <4>1. fl[t][fd] \in BOOLEAN
        BY <1>a
      <4> QED
        BY <1>4, <3>0, <3>2, <3>4, <4>1
    <3>6. EntryFits(str2, buf2, e, wr[u][gd])
      BY <2>2, <3>0, <3>1, <3>3 DEF EntryFits
    <3> QED
      BY <3>0, <3>5, <3>6
  <2> QED
    BY <2>1, <2>2
<1>10. EntriesAgree(str2, tab2)
  <2> SUFFICES ASSUME NEW t \in Tables, NEW u \in Tables, NEW fd \in Fds, NEW gd \in Fds,
                      tab2[t][fd].desc # 0, tab2[u][gd].desc # 0
               PROVE  Agree(str2, tab2[t][fd], tab2[u][gd])
    BY DEF EntriesAgree, Agree
  <2>1. PICK e, g : e = tab2[t][fd] /\ g = tab2[u][gd]
    OBVIOUS
  <2>2. str2[e.desc] = str[e.desc] /\ \E v \in Tables, hd \in Fds : e = tab[v][hd]
    BY <1>8, <2>1
  <2>3. str2[g.desc] = str[g.desc] /\ \E v \in Tables, hd \in Fds : g = tab[v][hd]
    BY <1>8, <2>1
  <2>4. Agree(str, e, g)
    BY <2>2, <2>3 DEF Good, EntriesAgree
  <2> QED
    BY <2>1, <2>2, <2>3, <2>4 DEF Agree
<1> QED
  BY <1>5, <1>6, <1>7, <1>9, <1>10 DEF Good, d2, str2, buf2, wr2

(* Closing FILEs and dropping files shows only in the files dropped. *)
LEMMA AdoptHold ==
  ASSUME NEW nam, NEW d, NEW str, NEW buf, NEW tab, NEW wr, Good(nam, d, str, buf, tab, wr),
         NEW nam2, NEW tab2, NEW wr2,
         Good(nam2, DiskLeft(nam2, tab2, str, d, Hold(d, str, buf)), StreamsLeft(tab2, str), BuffersLeft(tab2, buf),
              tab2, wr2)
  PROVE  Hold(DiskLeft(nam2, tab2, str, d, Hold(d, str, buf)), StreamsLeft(tab2, str), BuffersLeft(tab2, buf))
           = HeldLeft(nam2, tab2, str, Hold(d, str, buf))
<1> DEFINE d2 == DiskLeft(nam2, tab2, str, d, Hold(d, str, buf))
           str2 == StreamsLeft(tab2, str)
           buf2 == BuffersLeft(tab2, buf)
           h == Hold(d, str, buf)
           h2 == Hold(d2, str2, buf2)
<1>0. Typed(nam, d, str, buf, tab, wr) /\ Typed(nam2, d2, str2, buf2, tab2, wr2)
  BY DEF Good
<1>1. \A i \in Inodes : d2[i] = IF ~Kept(nam2, tab2, str, i) THEN << >>
                                ELSE IF Dying(tab2, str, i) THEN h[i] ELSE d[i]
  BY DEF DiskLeft
<1>2. \A s \in Streams : Alive(tab2, s) => str2[s] = str[s] /\ buf2[s] = buf[s]
  BY DEF StreamsLeft, BuffersLeft
<1>3. \A s \in Streams : ~Alive(tab2, s) => str2[s] = Closed /\ buf2[s] = Empty
  BY DEF StreamsLeft, BuffersLeft
<1> HIDE DEF d2, str2, buf2
<1>4. ASSUME NEW i \in Inodes, NEW x \in Waiting(str2, buf2, i)
      PROVE  x \in Streams /\ Alive(tab2, x) /\ str[x].ino = i /\ x \in Waiting(str, buf, i)
  <2>1. x \in Streams /\ str2[x].ino = i /\ buf2[x].pend # << >>
    BY <1>4 DEF Waiting
  <2>2. Alive(tab2, x)
    BY <1>3, <2>1, EmptyTypes
  <2>3. str[x].ino = i /\ buf[x].pend # << >>
    BY <1>2, <2>1, <2>2
  <2> QED
    BY <2>1, <2>2, <2>3 DEF Waiting
<1>5. ASSUME NEW i \in Inodes PROVE h2[i] = IF Kept(nam2, tab2, str, i) THEN h[i] ELSE << >>
  <2>1. CASE ~Kept(nam2, tab2, str, i)
    <3>1. Waiting(str2, buf2, i) = {}
      BY <1>4, <1>5, <2>1 DEF Kept
    <3> QED
      BY <1>1, <1>5, <2>1, <3>1, HoldNone
  <2>2. CASE Kept(nam2, tab2, str, i) /\ Dying(tab2, str, i)
    <3>1. PICK s \in Streams : ~Alive(tab2, s) /\ str[s].ino = i
      BY <2>2 DEF Dying
    <3>2. str[s].ino # 0
      BY <1>5, <3>1, FileBounds
    <3>3. Waiting(str, buf, i) \subseteq {s}
      BY <3>1, <3>2, OnePending
    <3>4. Waiting(str2, buf2, i) = {}
      <4> SUFFICES ASSUME NEW x \in Waiting(str2, buf2, i) PROVE FALSE
        OBVIOUS
      <4>1. Alive(tab2, x) /\ x \in Waiting(str, buf, i)
        BY <1>4, <1>5
      <4> QED
        BY <3>1, <3>3, <4>1
    <3> QED
      BY <1>1, <1>5, <2>2, <3>4, HoldNone
  <2>3. CASE Kept(nam2, tab2, str, i) /\ ~Dying(tab2, str, i)
    <3>1. \A x \in Waiting(str, buf, i) : x \in Streams /\ Alive(tab2, x)
      BY <2>3 DEF Dying, Waiting
    <3>2. \A x \in Waiting(str, buf, i) : str2[x] = str[x] /\ buf2[x] = buf[x]
      BY <1>2, <3>1
    <3>3. Waiting(str, buf, i) \subseteq Waiting(str2, buf2, i)
      BY <3>2 DEF Waiting
    <3>4. Waiting(str2, buf2, i) = Waiting(str, buf, i)
      BY <1>4, <1>5, <3>3
    <3>5. d2[i] = d[i]
      BY <1>1, <1>5, <2>3
    <3>6. SameOf(i, d, str, buf, d2, str2, buf2)
      BY <1>0, <3>2, <3>4, <3>5 DEF SameOf, Typed
    <3>7. h2[i] = h[i]
      BY <1>5, <3>6, HoldSame
    <3> QED
      BY <2>3, <3>7
  <2> QED
    BY <2>1, <2>2, <2>3
<1>6. h2 = [i \in Inodes |-> h2[i]]
  BY DEF Hold
<1> HIDE DEF h, h2
<1>7. h2 = HeldLeft(nam2, tab2, str, h)
  <2>1. HeldLeft(nam2, tab2, str, h) = [i \in Inodes |-> IF Kept(nam2, tab2, str, i) THEN h[i] ELSE << >>]
    BY DEF HeldLeft
  <2> QED
    BY <1>5, <1>6, <2>1, Zenon
<1> QED
  BY <1>7 DEF h, h2, d2, str2, buf2

(* The promise's Keeps, field by field. *)
LEMMA KeepsIs ==
  ASSUME NEW tab, NEW nam, NEW con, NEW des
  PROVE  Posix!Keeps(tab, nam, con, des)
           <=> /\ table' = tab /\ names' = nam
               /\ stream' = StreamsLeft(tab, des)
               /\ Contents' = HeldLeft(nam, tab, des, con)
<1> DEFINE used == {tab[t][fd].desc : t \in Tables, fd \in Fds}
           live == [s \in Streams |-> IF s \in used THEN des[s] ELSE Closed]
           keep(i) == (\E p \in Paths : nam[p] = i) \/ (\E s \in Streams : live[s].ino = i)
<1>1. Posix!Keeps(tab, nam, con, des)
        <=> /\ table' = tab /\ names' = nam /\ stream' = live
            /\ Contents' = [i \in Inodes |-> IF keep(i) THEN con[i] ELSE << >>]
  BY DEF Posix!Keeps, Posix!Free, Closed
<1>2. \A s : s \in used <=> Alive(tab, s)
  BY DEF Alive
<1> HIDE DEF used
<1>3. live = StreamsLeft(tab, des)
  BY <1>2 DEF StreamsLeft
<1>4. \A s \in Streams : live[s] = IF Alive(tab, s) THEN des[s] ELSE Closed
  BY <1>2
<1> HIDE DEF live
<1>5. \A i \in Inodes : keep(i) <=> Kept(nam, tab, des, i)
  <2> SUFFICES ASSUME NEW i \in Inodes PROVE keep(i) <=> Kept(nam, tab, des, i)
    OBVIOUS
  <2>1. i # 0 /\ Closed.ino = 0
    BY FileBounds, EmptyTypes
  <2>2. \A s \in Streams : (live[s].ino = i) <=> (Alive(tab, s) /\ des[s].ino = i)
    BY <1>4, <2>1
  <2> QED
    BY <2>2 DEF Kept
<1> HIDE DEF keep
<1>6. [i \in Inodes |-> IF keep(i) THEN con[i] ELSE << >>] = HeldLeft(nam, tab, des, con)
  BY <1>5 DEF HeldLeft
<1> QED
  BY <1>1, <1>3, <1>6, Zenon

(* Adopt is what PosixFiles calls Keeps. *)
LEMMA AdoptKeeps ==
  ASSUME FilesInv,
         NEW nam2, NEW tab2, NEW fl, Derived(nam2, tab2, fl, table, wrote),
         Adopt(tab2, fl, nam2, disk, stream, buffer)
  PROVE  FilesInv' /\ Posix!Keeps(tab2, nam2, Contents, stream)
<1>1. Good(names, disk, stream, buffer, table, wrote)
  BY DEF FilesInv
<1>2. Contents = Hold(disk, stream, buffer) /\ Contents' = Hold(disk', stream', buffer')
  BY ContentsAreHeld
<1>3. /\ table' = tab2 /\ names' = nam2 /\ wrote' = FlagsLeft(tab2, fl)
      /\ stream' = StreamsLeft(tab2, stream) /\ buffer' = BuffersLeft(tab2, buffer)
      /\ disk' = DiskLeft(nam2, tab2, stream, disk, Hold(disk, stream, buffer))
  BY <1>2, AdoptIs
<1>4. Good(nam2, DiskLeft(nam2, tab2, stream, disk, Hold(disk, stream, buffer)),
           StreamsLeft(tab2, stream), BuffersLeft(tab2, buffer), tab2, FlagsLeft(tab2, fl))
  BY <1>1, AdoptGood
<1>5. FilesInv'
  BY <1>3, <1>4 DEF FilesInv
<1>6. Contents' = HeldLeft(nam2, tab2, stream, Contents)
  <2>1. Hold(DiskLeft(nam2, tab2, stream, disk, Hold(disk, stream, buffer)),
             StreamsLeft(tab2, stream), BuffersLeft(tab2, buffer))
          = HeldLeft(nam2, tab2, stream, Hold(disk, stream, buffer))
    BY <1>1, <1>4, AdoptHold
  <2> QED
    BY <1>2, <1>3, <2>1
<1> QED
  BY <1>3, <1>5, <1>6, KeepsIs

-----------------------------------------------------------------------------
(* The calls that copy or give up descriptors, remove and rename.          *)

(* The promise's names for the same values. *)
LEMMA PosixNames ==
  /\ Posix!NoEntry = NoEntry /\ Posix!StdOut = StdOut /\ Posix!Free = Closed
  /\ \A e : Posix!Err(e) = Err(e)
BY DEF Posix!NoEntry, NoEntry, Posix!StdOut, StdOut, Posix!Free, Closed, Posix!Err, Err

(* The types of the variables. *)
LEMMA InvTypes ==
  ASSUME FilesInv
  PROVE  /\ names \in [Paths -> Inodes \cup {0}] /\ table \in [Tables -> [Fds -> EntryOf]]
         /\ wrote \in [Tables -> [Fds -> BOOLEAN]]
         /\ stream \in [Streams -> StreamOf] /\ buffer \in [Streams -> BufferOf]
         /\ disk \in [Inodes -> Seq(Bytes)]
BY DEF FilesInv, Good, Typed

(* A step that only answers is a step of the promise. *)
LEMMA IdleIs ==
  ASSUME FilesInv, Idle
  PROVE  FilesInv' /\ Posix!Nothing
<1>1. UNCHANGED <<names, disk, stream, buffer, table, wrote>>
  BY DEF Idle
<1>2. Contents' = Contents
  BY <1>1, ContentsAreHeld
<1> QED
  BY <1>1, <1>2 DEF FilesInv, Posix!Nothing

(* Closing a descriptor. *)
LEMMA CloseKeeps ==
  ASSUME FilesInv, NEW t \in Tables, NEW fd \in Fds, Close(t, fd)
  PROVE  FilesInv' /\ Posix!Descriptors(t, fd)
<1> DEFINE tab2 == [table EXCEPT ![t][fd] = NoEntry]
<1>1. table[t][fd] # NoEntry /\ reply' = <<"ok">> /\ Adopt(tab2, wrote, names, disk, stream, buffer)
  BY DEF Close, Valid
<1>2. tab2 \in [Tables -> [Fds -> EntryOf]]
  BY InvTypes, EmptyTypes
<1>3. \A u \in Tables, gd \in Fds : tab2[u][gd] = NoEntry \/ tab2[u][gd] = table[u][gd]
  BY InvTypes
<1> HIDE DEF tab2
<1>4. Derived(names, tab2, wrote, table, wrote)
  BY <1>2, <1>3, InvTypes DEF Derived
<1>5. FilesInv' /\ Posix!Keeps(tab2, names, Contents, stream)
  BY <1>1, <1>4, AdoptKeeps
<1>6. Posix!Close(t, fd)
  BY <1>1, <1>5, PosixNames DEF Posix!Close, tab2
<1> QED
  BY <1>1, <1>5, <1>6 DEF Posix!Descriptors

(* Names given up and passed on. *)
LEMMA RemoveKeeps ==
  ASSUME FilesInv, NEW p \in Paths, Remove(p)
  PROVE  FilesInv' /\ Posix!Remove(p) /\ reply'[1] \in {"ok", "err"}
<1>1. CASE names[p] = 0 /\ Refuse("ENOENT")
  <2>1. reply' = Err("ENOENT") /\ Idle /\ reply'[1] = "err"
    BY <1>1 DEF Refuse, Err
  <2> QED
    BY <1>1, <2>1, IdleIs, PosixNames DEF Posix!Remove
<1>2. CASE names[p] # 0 /\ reply' = <<"ok">> /\ Adopt(table, wrote, [names EXCEPT ![p] = 0], disk, stream, buffer)
  <2>1. Derived([names EXCEPT ![p] = 0], table, wrote, table, wrote)
    BY InvTypes DEF Derived
  <2>2. FilesInv' /\ Posix!Keeps(table, [names EXCEPT ![p] = 0], Contents, stream)
    BY <1>2, <2>1, AdoptKeeps
  <2> QED
    BY <1>2, <2>2 DEF Posix!Remove
<1> QED
  BY <1>1, <1>2 DEF Remove

(* rename. *)
LEMMA RenameKeeps ==
  ASSUME FilesInv, NEW p \in Paths, NEW q \in Paths, Rename(p, q)
  PROVE  FilesInv' /\ Posix!Rename(p, q) /\ reply'[1] \in {"ok", "err"}
<1> DEFINE nam2 == [names EXCEPT ![p] = 0, ![q] = names[p]]
<1>1. CASE names[p] = 0 /\ Refuse("ENOENT")
  <2>1. reply' = Err("ENOENT") /\ Idle /\ reply'[1] = "err"
    BY <1>1 DEF Refuse, Err
  <2> QED
    BY <1>1, <2>1, IdleIs, PosixNames DEF Posix!Rename
<1>2. CASE names[p] # 0 /\ reply' = <<"ok">> /\ Adopt(table, wrote, nam2, disk, stream, buffer)
  <2>0. nam2 \in [Paths -> Inodes \cup {0}]
    BY InvTypes
  <2> HIDE DEF nam2
  <2>1. Derived(nam2, table, wrote, table, wrote)
    BY <2>0, InvTypes DEF Derived
  <2>2. FilesInv' /\ Posix!Keeps(table, nam2, Contents, stream)
    BY <1>2, <2>1, AdoptKeeps
  <2> QED
    BY <1>2, <2>2 DEF Posix!Rename, nam2
<1> QED
  BY <1>1, <1>2 DEF Rename

(* Descriptors copied. *)
LEMMA LowestIs ==
  ASSUME NEW S, S \subseteq Nat, S # {}
  PROVE  Lowest(S) \in S
<1>1. PICK x \in S : \A y \in S : ~(<<y, x>> \in OpToRel(<, Nat))
  BY NatLessThanWellFounded, WFMin
<1>2. \A y \in S : x <= y
  <2> SUFFICES ASSUME NEW y \in S PROVE x <= y
    OBVIOUS
  <2>1. x \in Nat /\ y \in Nat
    OBVIOUS
  <2>2. ~(y < x)
    BY <1>1, <2>1 DEF OpToRel
  <2> QED
    BY <2>1, <2>2
<1> QED
  BY <1>2 DEF Lowest

(* dup, dup2 and F_DUPFD. *)
LEMMA DupKeeps ==
  ASSUME FilesInv, NEW t \in Tables, NEW fd \in Fds, NEW to \in Fds \cup {0}, Dup(t, fd, to)
  PROVE  FilesInv' /\ Posix!Descriptors(t, fd)
<1>1. PICK target : target = IF to = 0 THEN Lowest(FreeFds(table, t)) ELSE to
  OBVIOUS
<1>2. CASE ~Valid(t, fd) /\ Refuse("EBADF")
  <2>1. reply' = Err("EBADF") /\ Idle /\ reply'[1] = "err" /\ table[t][fd] = NoEntry
    BY <1>2 DEF Refuse, Err, Valid
  <2>2. Posix!Dup(t, fd, 1)
    BY <2>1, IdleIs, PosixNames DEF Posix!Dup
  <2> QED
    BY <2>1, <2>2, IdleIs, FileBounds DEF Posix!Descriptors
<1>3. CASE /\ Valid(t, fd) /\ reply' = <<"fd", target>> /\ (to = 0 => FreeFds(table, t) # {})
           /\ Adopt([table EXCEPT ![t][target] = table[t][fd]], [wrote EXCEPT ![t][target] = wrote[t][fd]],
                    names, disk, stream, buffer)
  <2>1. target \in Fds
    <3>1. FreeFds(table, t) \subseteq Nat /\ FreeFds(table, t) \subseteq Fds
      BY FileBounds DEF FreeFds
    <3>2. CASE to = 0
      BY <1>1, <1>3, <3>1, <3>2, LowestIs
    <3> QED
      BY <1>1, <3>2
  <2> DEFINE tab2 == [table EXCEPT ![t][target] = table[t][fd]]
             fl == [wrote EXCEPT ![t][target] = wrote[t][fd]]
  <2>2. tab2 \in [Tables -> [Fds -> EntryOf]] /\ fl \in [Tables -> [Fds -> BOOLEAN]]
    BY <2>1, InvTypes
  <2>3. ASSUME NEW u \in Tables, NEW gd \in Fds
        PROVE  \E v \in Tables, hd \in Fds : tab2[u][gd] = table[v][hd] /\ fl[u][gd] = wrote[v][hd]
    <3>1. CASE u = t /\ gd = target
      <4>1. tab2[u][gd] = table[t][fd] /\ fl[u][gd] = wrote[t][fd]
        BY <2>1, <3>1, InvTypes
      <4> QED
        BY <4>1
    <3>2. CASE ~(u = t /\ gd = target)
      <4>1. tab2[u][gd] = table[u][gd] /\ fl[u][gd] = wrote[u][gd]
        BY <2>3, <3>2, InvTypes
      <4> QED
        BY <2>3, <4>1
    <3> QED
      BY <3>1, <3>2
  <2> HIDE DEF tab2, fl
  <2>4. Derived(names, tab2, fl, table, wrote)
    BY <2>2, <2>3, InvTypes DEF Derived
  <2>5. FilesInv' /\ Posix!Keeps(tab2, names, Contents, stream)
    BY <1>3, <2>4, AdoptKeeps DEF tab2, fl
  <2>6. Posix!Dup(t, fd, target)
    BY <1>3, <2>5, PosixNames DEF Posix!Dup, tab2, Valid
  <2>7. reply'[1] = "fd"
    BY <1>3
  <2> QED
    BY <2>1, <2>5, <2>6, <2>7 DEF Posix!Descriptors
<1> QED
  BY <1>1, <1>2, <1>3 DEF Dup

(* A descriptor handed to another process. *)
LEMMA InstallKeeps ==
  ASSUME FilesInv, NEW t \in Tables, NEW fd \in Fds, NEW u \in Tables, Install(t, fd, u)
  PROVE  FilesInv' /\ Posix!Processes
<1> DEFINE tab2 == [table EXCEPT ![u] = [g \in Fds |-> IF g = 1 THEN table[t][fd] ELSE NoEntry]]
           fl == [wrote EXCEPT ![u] = [g \in Fds |-> g = 1 /\ wrote[t][fd]]]
<1>1. reply' = <<"ok">> /\ Adopt(tab2, fl, names, disk, stream, buffer)
  BY DEF Install
<1>2. tab2 \in [Tables -> [Fds -> EntryOf]] /\ fl \in [Tables -> [Fds -> BOOLEAN]]
  BY InvTypes, EmptyTypes
<1>3. ASSUME NEW v \in Tables, NEW gd \in Fds
      PROVE  \/ tab2[v][gd] = NoEntry
             \/ \E w \in Tables, hd \in Fds : tab2[v][gd] = table[w][hd] /\ fl[v][gd] = wrote[w][hd]
  <2>1. CASE v # u
    <3>1. tab2[v][gd] = table[v][gd] /\ fl[v][gd] = wrote[v][gd]
      BY <1>3, <2>1, InvTypes
    <3> QED
      BY <1>3, <3>1
  <2>2. CASE v = u /\ gd = 1
    <3>1. tab2[v][gd] = table[t][fd]
      BY <1>3, <2>2, InvTypes
    <3>2. fl[v][gd] = wrote[t][fd]
      BY <1>3, <2>2, InvTypes
    <3> QED
      BY <3>1, <3>2
  <2>3. CASE v = u /\ gd # 1
    BY <1>3, <2>3, InvTypes
  <2> QED
    BY <2>1, <2>2, <2>3
<1> HIDE DEF tab2, fl
<1>4. Derived(names, tab2, fl, table, wrote)
  BY <1>2, <1>3, InvTypes DEF Derived
<1>5. FilesInv' /\ Posix!Keeps(tab2, names, Contents, stream)
  BY <1>1, <1>4, AdoptKeeps
<1>6. Posix!Install(t, fd, u)
  BY <1>1, <1>5, PosixNames DEF Posix!Install, Posix!Become, tab2
<1> QED
  BY <1>1, <1>5, <1>6 DEF Posix!Processes

(* exit: the descriptors of a process are closed. *)
LEMMA ExitKeeps ==
  ASSUME FilesInv, NEW t \in Tables, Exit(t)
  PROVE  FilesInv' /\ Posix!Processes
<1> DEFINE tab2 == [table EXCEPT ![t] = [fd \in Fds |-> NoEntry]]
<1>1. reply' = <<"ok">> /\ Adopt(tab2, wrote, names, disk, stream, buffer)
  BY DEF Exit
<1>2. tab2 \in [Tables -> [Fds -> EntryOf]]
  BY InvTypes, EmptyTypes
<1>3. \A u \in Tables, gd \in Fds : tab2[u][gd] = NoEntry \/ tab2[u][gd] = table[u][gd]
  BY InvTypes
<1> HIDE DEF tab2
<1>4. Derived(names, tab2, wrote, table, wrote)
  BY <1>2, <1>3, InvTypes DEF Derived
<1>5. FilesInv' /\ Posix!Keeps(tab2, names, Contents, stream)
  BY <1>1, <1>4, AdoptKeeps
<1>6. Posix!Exit(t)
  BY <1>1, <1>5, PosixNames DEF Posix!Exit, Posix!Become, tab2
<1> QED
  BY <1>1, <1>5, <1>6 DEF Posix!Processes

(* fork closes nothing, so that it is an Adopt too. *)
LEMMA ForkKeeps ==
  ASSUME FilesInv, NEW t \in Tables, NEW u \in Tables, Fork(t, u)
  PROVE  FilesInv' /\ Posix!Processes
<1> DEFINE tab2 == [table EXCEPT ![u] = table[t]]
           fl == [wrote EXCEPT ![u] = wrote[t]]
<1>1. /\ reply' = <<"ok">> /\ table' = tab2 /\ wrote' = fl
      /\ UNCHANGED <<names, disk, stream, buffer>>
      /\ u # t /\ \A gd \in Fds : table[u][gd] = NoEntry
  BY DEF Fork, Running, Valid
<1>2. tab2 \in [Tables -> [Fds -> EntryOf]] /\ fl \in [Tables -> [Fds -> BOOLEAN]]
  BY InvTypes
<1>3. ASSUME NEW v \in Tables, NEW gd \in Fds
      PROVE  \E w \in Tables, hd \in Fds : tab2[v][gd] = table[w][hd] /\ fl[v][gd] = wrote[w][hd]
  <2>1. CASE v # u
    <3>1. tab2[v][gd] = table[v][gd] /\ fl[v][gd] = wrote[v][gd]
      BY <1>3, <2>1, InvTypes
    <3> QED
      BY <1>3, <3>1
  <2>2. CASE v = u
    <3>1. tab2[v][gd] = table[t][gd] /\ fl[v][gd] = wrote[t][gd]
      BY <1>3, <2>2, InvTypes
    <3> QED
      BY <1>3, <3>1
  <2> QED
    BY <2>1, <2>2
<1>4. \A v \in Tables, gd \in Fds : v # u => tab2[v][gd] = table[v][gd]
  BY InvTypes
<1> HIDE DEF tab2, fl
<1>5. Derived(names, tab2, fl, table, wrote)
  BY <1>2, <1>3, InvTypes DEF Derived
<1>6. Good(names, disk, stream, buffer, table, wrote)
  BY DEF FilesInv
<1>7. \A s \in Streams : ~Alive(tab2, s) => stream[s] = Closed /\ buffer[s] = Empty
  <2> SUFFICES ASSUME NEW s \in Streams, ~Alive(tab2, s) PROVE stream[s] = Closed /\ buffer[s] = Empty
    OBVIOUS
  <2>1. ASSUME NEW v \in Tables, NEW gd \in Fds, table[v][gd].desc = s PROVE FALSE
    <3>1. v # u
      BY <1>1, <2>1, EmptyTypes, StreamsArePositive
    <3>2. tab2[v][gd].desc = s
      BY <1>4, <2>1, <3>1
    <3> QED
      BY <2>1, <3>2 DEF Alive
  <2> QED
    BY <1>6, <2>1 DEF Good, StreamsHeld
<1>8. stream = StreamsLeft(tab2, stream) /\ buffer = BuffersLeft(tab2, buffer)
  BY <1>7, InvTypes DEF StreamsLeft, BuffersLeft
<1>9. \A i \in Inodes : disk[i] = IF ~Kept(names, tab2, stream, i) THEN << >>
                                  ELSE IF Dying(tab2, stream, i) THEN Contents[i] ELSE disk[i]
  <2> SUFFICES ASSUME NEW i \in Inodes
               PROVE  ~Dying(tab2, stream, i) /\ (~Kept(names, tab2, stream, i) => disk[i] = << >>)
    OBVIOUS
  <2>1. ~Dying(tab2, stream, i)
    BY <1>7, EmptyTypes, FileBounds DEF Dying
  <2>2. ASSUME ~Kept(names, tab2, stream, i) PROVE disk[i] = << >>
    <3>1. (\A p \in Paths : names[p] # i) /\ (\A s \in Streams : stream[s].ino # i)
      BY <2>1, <2>2 DEF Kept, Dying
    <3> QED
      BY <1>6, <3>1 DEF Good, Gone
  <2> QED
    BY <2>1, <2>2
<1>10. disk = DiskLeft(names, tab2, stream, disk, Contents)
  BY <1>9, InvTypes DEF DiskLeft
<1>11. fl = FlagsLeft(tab2, fl)
  <2>1. ASSUME NEW v \in Tables, NEW gd \in Fds PROVE fl[v][gd] = (fl[v][gd] /\ tab2[v][gd] # NoEntry)
    <3>1. PICK w \in Tables, hd \in Fds : tab2[v][gd] = table[w][hd] /\ fl[v][gd] = wrote[w][hd]
      BY <1>3, <2>1
    <3>2. table[w][hd] = NoEntry => ~wrote[w][hd]
      BY <1>6, EmptyTypes DEF Good, EntriesFit, EntryFits
    <3>3. fl[v][gd] \in BOOLEAN
      BY <1>2, <2>1
    <3> QED
      BY <3>1, <3>2, <3>3
  <2> QED
    BY <1>2, <2>1 DEF FlagsLeft
<1>12. Adopt(tab2, fl, names, disk, stream, buffer)
  BY <1>1, <1>8, <1>10, <1>11, AdoptIs
<1>13. FilesInv' /\ Posix!Keeps(tab2, names, Contents, stream)
  BY <1>5, <1>12, AdoptKeeps
<1>14. Posix!Fork(t, u)
  BY <1>1, <1>13 DEF Posix!Fork, Posix!Become, tab2
<1> QED
  BY <1>1, <1>13, <1>14 DEF Posix!Processes

-----------------------------------------------------------------------------
(* The calls that read, write, seek and measure.                           *)

(* ContextReady for the variables. *)
LEMMA ContextKnown ==
  ASSUME FilesInv, NEW t \in Tables, NEW fd \in Fds, FileFd(t, fd)
  PROVE  LET s == table[t][fd].desc
             c == Context(t, fd)
         IN  /\ c = ContextOf(disk, stream, buffer, table, wrote, t, fd)
             /\ s \in Streams /\ s # 0 /\ stream[s] \in StreamOf /\ stream[s].ino \in Inodes
             /\ Ready(c) /\ c.d = disk /\ c.f = stream[s] /\ c.b = buffer[s] /\ c.e = table[t][fd]
             /\ Contents[stream[s].ino] = View(c)
<1>1. Good(names, disk, stream, buffer, table, wrote) /\ table[t][fd].desc # 0
  BY DEF FilesInv, FileFd
<1>2. Context(t, fd) = ContextOf(disk, stream, buffer, table, wrote, t, fd)
  BY DEF Context, ContextOf
<1>3. Contents = Hold(disk, stream, buffer)
  BY ContentsAreHeld
<1> QED
  BY <1>1, <1>2, <1>3, ContextReady, InvTypes

(* A call through a descriptor that turns no shared FILE round. *)
TurnsAlone(t, fd, r) ==
  \/ r.b.dir \in {"none", buffer[table[t][fd].desc].dir}
  \/ OneWay(t, fd)

(* A call on one FILE: the invariant is kept, and one file and one FILE    *)
(* change.                                                                 *)
LEMMA ThroughKeeps ==
  ASSUME FilesInv, NEW t \in Tables, NEW fd \in Fds, FileFd(t, fd),
         NEW r, Follows(Context(t, fd), r), DirectionFits(r.e, r.b, r.lw), TurnsAlone(t, fd, r), Through(t, fd, r)
  PROVE  /\ FilesInv'
         /\ Contents' = [Contents EXCEPT ![stream[table[t][fd].desc].ino] = View(r)]
         /\ stream' = [stream EXCEPT ![table[t][fd].desc] = r.f]
         /\ UNCHANGED <<names, table>> /\ reply' = r.ret
<1> PICK s : s = table[t][fd].desc
  OBVIOUS
<1>1. Good(names, disk, stream, buffer, table, wrote)
  BY DEF FilesInv
<1>2. s \in Streams /\ s # 0 /\ Follows(ContextOf(disk, stream, buffer, table, wrote, t, fd), r)
  BY ContextKnown
<1>3. /\ disk' = r.d /\ stream' = [stream EXCEPT ![s] = r.f] /\ buffer' = [buffer EXCEPT ![s] = r.b]
      /\ wrote' = [wrote EXCEPT ![t][fd] = r.lw] /\ reply' = r.ret /\ UNCHANGED <<names, table>>
  BY DEF Through
<1>4. \/ r.b.dir \in {"none", buffer[s].dir}
      \/ ~(table[t][fd].readable /\ table[t][fd].writable)
      \/ \A u \in Tables, gd \in Fds : table[u][gd].desc = s => u = t /\ gd = fd
  <2>1. CASE r.b.dir \in {"none", buffer[s].dir}
    BY <2>1
  <2>2. CASE OneWay(t, fd)
    <3>1. ASSUME Refs(s, table) = {<<t, fd>>}, NEW u \in Tables, NEW gd \in Fds, table[u][gd].desc = s
          PROVE  u = t /\ gd = fd
      <4>1. <<u, gd>> \in Refs(s, table)
        BY <3>1 DEF Refs
      <4> QED
        BY <3>1, <4>1
    <3> QED
      BY <2>2, <3>1 DEF OneWay
  <2> QED
    BY <2>1, <2>2 DEF TurnsAlone
<1>5. Good(names, r.d, [stream EXCEPT ![s] = r.f], [buffer EXCEPT ![s] = r.b], table, [wrote EXCEPT ![t][fd] = r.lw])
  BY <1>1, <1>2, <1>4, ThroughGood
<1>6. FilesInv'
  BY <1>3, <1>5 DEF FilesInv
<1>7. Hold(r.d, [stream EXCEPT ![s] = r.f], [buffer EXCEPT ![s] = r.b])
        = [Hold(disk, stream, buffer) EXCEPT ![stream[s].ino] = View(r)]
  <2>1. PICK nam, d, str, buf, tab, wr, wr2 :
          /\ nam = names /\ d = disk /\ str = stream /\ buf = buffer /\ tab = table /\ wr = wrote
          /\ wr2 = [wrote EXCEPT ![t][fd] = r.lw]
    OBVIOUS
  <2>2. Steps(nam, d, str, buf, tab, wr, wr2, t, fd, s, r)
    BY <1>1, <1>2, <1>5, <2>1 DEF Steps
  <2>3. Hold(r.d, [str EXCEPT ![s] = r.f], [buf EXCEPT ![s] = r.b])
          = [Hold(d, str, buf) EXCEPT ![str[s].ino] = View(r)]
    BY <2>2, ThroughHold
  <2> QED
    BY <2>1, <2>3
<1>8. Contents' = [Contents EXCEPT ![stream[s].ino] = View(r)]
  BY <1>3, <1>7, ContentsAreHeld
<1> QED
  BY <1>3, <1>6, <1>8

(* A call that changes neither what the file holds nor where the descriptor stands. *)
LEMMA NothingSeen ==
  ASSUME FilesInv, NEW t \in Tables, NEW fd \in Fds, FileFd(t, fd),
         NEW r, Looks(Context(t, fd), r), r.f = stream[table[t][fd].desc], TurnsAlone(t, fd, r), Through(t, fd, r)
  PROVE  FilesInv' /\ Posix!Nothing /\ reply' = r.ret
<1> PICK s : s = table[t][fd].desc
  OBVIOUS
<1>1. Follows(Context(t, fd), r) /\ DirectionFits(r.e, r.b, r.lw) /\ View(r) = View(Context(t, fd))
  BY DEF Looks
<1>2. /\ FilesInv' /\ Contents' = [Contents EXCEPT ![stream[s].ino] = View(r)]
      /\ stream' = [stream EXCEPT ![s] = r.f] /\ UNCHANGED <<names, table>> /\ reply' = r.ret
  BY <1>1, ThroughKeeps
<1>3. Contents[stream[s].ino] = View(r) /\ stream[s].ino \in Inodes /\ s \in Streams
  BY <1>1, ContextKnown
<1>4. Contents = [i \in Inodes |-> Contents[i]]
  BY ContentsAreHeld DEF Hold
<1>5. Contents' = Contents
  BY <1>2, <1>3, <1>4
<1>6. stream' = stream
  BY <1>2, <1>3, InvTypes
<1> QED
  BY <1>2, <1>5, <1>6 DEF Posix!Nothing

(* ... or only where it stands. *)
LEMMA PlaceSeen ==
  ASSUME FilesInv, NEW t \in Tables, NEW fd \in Fds, FileFd(t, fd),
         NEW r, Looks(Context(t, fd), r), TurnsAlone(t, fd, r), Through(t, fd, r)
  PROVE  /\ FilesInv' /\ Contents' = Contents /\ UNCHANGED <<names, table>> /\ reply' = r.ret
         /\ stream' = [stream EXCEPT ![table[t][fd].desc].pos = r.f.pos]
<1> PICK s : s = table[t][fd].desc
  OBVIOUS
<1>1. Follows(Context(t, fd), r) /\ DirectionFits(r.e, r.b, r.lw) /\ View(r) = View(Context(t, fd))
  BY DEF Looks
<1>2. /\ FilesInv' /\ Contents' = [Contents EXCEPT ![stream[s].ino] = View(r)]
      /\ stream' = [stream EXCEPT ![s] = r.f] /\ UNCHANGED <<names, table>> /\ reply' = r.ret
  BY <1>1, ThroughKeeps
<1>3. /\ Contents[stream[s].ino] = View(r) /\ stream[s].ino \in Inodes /\ s \in Streams
      /\ stream[s] \in StreamOf /\ Context(t, fd).f = stream[s]
  BY <1>1, ContextKnown
<1>4. Contents = [i \in Inodes |-> Contents[i]]
  BY ContentsAreHeld DEF Hold
<1>5. Contents' = Contents
  BY <1>2, <1>3, <1>4
<1>6. r.f = [stream[s] EXCEPT !.pos = r.f.pos]
  <2>1. r.f \in StreamOf /\ r.f.ino = stream[s].ino /\ r.f.append = stream[s].append
    BY <1>1, <1>3 DEF Follows, IsContext
  <2> QED
    BY <1>3, <2>1 DEF StreamOf
<1>7. stream' = [stream EXCEPT ![s].pos = r.f.pos]
  BY <1>2, <1>3, <1>6, InvTypes
<1> QED
  BY <1>2, <1>5, <1>7

(* The promise's part of a file is the code's. *)
LEMMA ChunkIs ==
  ASSUME NEW i, NEW at, NEW n
  PROVE  Posix!Chunk(i, at, n) = Part(Contents[i], at, n)
BY DEF Posix!Chunk, Part, Posix!Least, Lowest

(* So is what the guest sees of it, *)
LEMMA GuestSees ==
  ASSUME NEW e, NEW s
  PROVE  Posix!ToGuest(e, s) = Seen(e, s)
<1>1. Posix!Joined(s) = Collapse(s)
  BY DEF Posix!Joined, Collapse
<1> QED
  BY <1>1, Zenon DEF Posix!ToGuest, Seen

(* what an overlay leaves, *)
LEMMA PatchedIs ==
  ASSUME NEW i, Contents[i] \in Seq(Bytes), NEW at \in Nat, NEW s \in Seq(Bytes)
  PROVE  Posix!Patched(i, at, s) = Overlay(Contents[i], at, s)
<1> PICK v \in Seq(Bytes) : v = Contents[i]
  OBVIOUS
<1>1. Len(s) \in Nat /\ Len(v) \in Nat
  OBVIOUS
<1> DEFINE size == IF at + Len(s) > Len(v) THEN at + Len(s) ELSE Len(v)
<1>2. \A k \in 1..size : k \in (at + 1)..(at + Len(s)) <=> k > at /\ k <= at + Len(s)
  BY <1>1
<1>3. Posix!Patched(i, at, s)
        = [k \in 1..size |-> IF k \in (at + 1)..(at + Len(s)) THEN s[k - at] ELSE IF k <= Len(v) THEN v[k] ELSE "nul"]
  BY DEF Posix!Patched
<1>4. Overlay(v, at, s)
        = [k \in 1..size |-> IF k > at /\ k <= at + Len(s) THEN s[k - at] ELSE IF k <= Len(v) THEN v[k] ELSE "nul"]
  BY DEF Overlay
<1> HIDE DEF size
<1> QED
  BY <1>2, <1>3, <1>4

(* and what goes to the disk. *)
LEMMA GoesOnDisk ==
  ASSUME NEW e \in EntryOf, NEW b \in Bytes
  PROVE  Posix!OnDisk(e, <<b>>) = Data(e, <<b>>)
<1>1. (<<b>> = <<"lf">>) <=> (Len(<<b>>) = 1 /\ <<b>>[1] = "lf")
  OBVIOUS
<1> QED
  BY <1>1 DEF Posix!OnDisk, Data, Expand, EntryOf

(* A transfer the descriptor is not open for. *)
LEMMA RefusedIs ==
  ASSUME FilesInv, NEW t \in Tables, NEW fd \in Fds, FileFd(t, fd), OneWay(t, fd),
         NEW r, Looks(Context(t, fd), r), r.f = stream[table[t][fd].desc], Through(t, fd, r)
  PROVE  FilesInv' /\ Posix!Nothing /\ reply' = r.ret
BY NothingSeen DEF TurnsAlone

(* read. *)
LEMMA ReadKeeps ==
  ASSUME FilesInv, NEW t \in Tables, NEW fd \in Fds, FileFd(t, fd), OneWay(t, fd),
         NEW n \in Nat, Through(t, fd, Read(Context(t, fd), n))
  PROVE  FilesInv' /\ Posix!Read(t, fd, n, Posix!At(t, fd), FALSE) /\ reply'[1] \in {"read", "err"}
<1> PICK s : s = table[t][fd].desc
  OBVIOUS
<1> PICK c : c = Context(t, fd)
  OBVIOUS
<1> PICK r : r = Read(c, n)
  OBVIOUS
<1> PICK i : i = stream[s].ino
  OBVIOUS
<1>1. s # 0 /\ Ready(c) /\ c.f = stream[s] /\ c.e = table[t][fd] /\ Contents[i] = View(c)
  BY ContextKnown
<1> PICK got : got = Part(View(c), c.f.pos, n)
  OBVIOUS
<1>2. /\ Looks(c, r)
      /\ ~c.e.readable => r.f = c.f /\ r.ret = Err("EBADF")
      /\ c.e.readable => r.f.pos = c.f.pos + Len(got) /\ r.ret = <<"read", Seen(c.e, got)>>
  BY <1>1, ReadIs
<1>3. CASE ~c.e.readable
  <2>1. FilesInv' /\ Posix!Nothing /\ reply' = Err("EBADF")
    BY <1>1, <1>2, <1>3, RefusedIs
  <2>2. reply'[1] = "err"
    BY <2>1 DEF Err
  <2> QED
    BY <1>1, <1>3, <2>1, <2>2, PosixNames DEF Posix!Read
<1>4. CASE c.e.readable
  <2>1. /\ FilesInv' /\ Contents' = Contents /\ UNCHANGED <<names, table>> /\ reply' = r.ret
        /\ stream' = [stream EXCEPT ![s].pos = r.f.pos]
    BY <1>2, PlaceSeen DEF TurnsAlone
  <2>2. got = Posix!Chunk(i, Posix!At(t, fd), n)
    BY <1>1, ChunkIs DEF Posix!At
  <2>3. reply' = <<"read", Posix!ToGuest(table[t][fd], got)>> /\ reply'[1] = "read"
    BY <1>1, <1>2, <1>4, <2>1, GuestSees
  <2>4. stream' = [stream EXCEPT ![s].pos = Posix!At(t, fd) + Len(got)]
    BY <1>1, <1>2, <1>4, <2>1 DEF Posix!At
  <2> QED
    BY <1>1, <1>4, <2>1, <2>2, <2>3, <2>4 DEF Posix!Read
<1> QED
  BY <1>3, <1>4

(* pread. *)
LEMMA PreadKeeps ==
  ASSUME FilesInv, NEW t \in Tables, NEW fd \in Fds, FileFd(t, fd), OneWay(t, fd),
         NEW n \in Nat, NEW off \in Nat, Through(t, fd, Pread(Context(t, fd), n, off))
  PROVE  FilesInv' /\ Posix!Read(t, fd, n, off, TRUE) /\ reply'[1] \in {"read", "err"}
<1> PICK s : s = table[t][fd].desc
  OBVIOUS
<1> PICK c : c = Context(t, fd)
  OBVIOUS
<1> PICK r : r = Pread(c, n, off)
  OBVIOUS
<1> PICK i : i = stream[s].ino
  OBVIOUS
<1>1. s # 0 /\ Ready(c) /\ c.f = stream[s] /\ c.e = table[t][fd] /\ Contents[i] = View(c)
  BY ContextKnown
<1> PICK got : got = Part(View(c), off, n)
  OBVIOUS
<1>2. /\ Looks(c, r) /\ r.f = c.f
      /\ ~c.e.readable => r.ret = Err("EBADF")
      /\ c.e.readable => r.ret = <<"read", Seen(c.e, got)>>
  BY <1>1, PreadIs
<1>3. FilesInv' /\ Posix!Nothing /\ reply' = r.ret
  BY <1>1, <1>2, RefusedIs
<1>4. CASE ~c.e.readable
  <2>1. reply' = Err("EBADF") /\ reply'[1] = "err"
    BY <1>2, <1>3, <1>4 DEF Err
  <2> QED
    BY <1>1, <1>3, <1>4, <2>1, PosixNames DEF Posix!Read
<1>5. CASE c.e.readable
  <2>1. got = Posix!Chunk(i, off, n)
    BY <1>1, ChunkIs
  <2>2. reply' = <<"read", Posix!ToGuest(table[t][fd], got)>> /\ reply'[1] = "read"
    BY <1>1, <1>2, <1>3, <1>5, GuestSees
  <2> QED
    BY <1>1, <1>3, <1>5, <2>1, <2>2 DEF Posix!Read, Posix!Nothing
<1> QED
  BY <1>4, <1>5

(* What a write leaves in the file. *)
Puts(t, fd, at, b, r) ==
  /\ t \in Tables /\ fd \in Fds /\ FileFd(t, fd) /\ OneWay(t, fd) /\ at \in Nat /\ b \in Bytes
  /\ Written(Context(t, fd), r, at, Data(table[t][fd], <<b>>)) /\ Through(t, fd, r)

(* The promise of it. *)
PutsIt(t, fd, at, b, r) ==
  LET e == table[t][fd]
      i == stream[e.desc].ino
      from == IF stream[e.desc].append THEN Len(Contents[i]) ELSE at
  IN  /\ FilesInv' /\ UNCHANGED <<names, table>> /\ reply' = r.ret
      /\ Contents' = [Contents EXCEPT ![i] = Posix!Patched(i, from, Posix!OnDisk(e, <<b>>))]
      /\ stream' = [stream EXCEPT ![e.desc].pos = r.f.pos]

(* Bytes put by the code are put as promised. *)
LEMMA WrittenIs ==
  ASSUME FilesInv, NEW t, NEW fd, NEW at, NEW b, NEW r, Puts(t, fd, at, b, r)
  PROVE  PutsIt(t, fd, at, b, r)
<1> PICK e : e = table[t][fd]
  OBVIOUS
<1> PICK s : s = e.desc
  OBVIOUS
<1> PICK c : c = Context(t, fd)
  OBVIOUS
<1> PICK i : i = stream[s].ino
  OBVIOUS
<1>0. /\ t \in Tables /\ fd \in Fds /\ FileFd(t, fd) /\ OneWay(t, fd) /\ at \in Nat /\ b \in Bytes
      /\ Written(c, r, at, Data(e, <<b>>)) /\ Through(t, fd, r)
  BY DEF Puts
<1>1. /\ s # 0 /\ Ready(c) /\ c.f = stream[s] /\ c.e = e /\ Contents[i] = View(c) /\ stream[s] \in StreamOf
  BY <1>0, ContextKnown
<1>2. View(c) \in Seq(Bytes) /\ Len(View(c)) \in Nat /\ c.f.append \in BOOLEAN
  BY <1>1, ContextTypes DEF Ready
<1> PICK from : from = IF stream[s].append THEN Len(Contents[i]) ELSE at
  OBVIOUS
<1>3. from \in Nat
  BY <1>0, <1>1, <1>2
<1>4. Follows(c, r) /\ DirectionFits(r.e, r.b, r.lw) /\ View(r) = Overlay(View(c), from, Data(e, <<b>>))
  BY <1>0, <1>1 DEF Written
<1>5. /\ FilesInv' /\ Contents' = [Contents EXCEPT ![i] = View(r)]
      /\ stream' = [stream EXCEPT ![s] = r.f] /\ UNCHANGED <<names, table>> /\ reply' = r.ret
  <2>1. Follows(Context(t, fd), r) /\ TurnsAlone(t, fd, r) /\ DirectionFits(r.e, r.b, r.lw)
    BY <1>0, <1>4 DEF TurnsAlone
  <2>2. /\ FilesInv' /\ Contents' = [Contents EXCEPT ![stream[table[t][fd].desc].ino] = View(r)]
        /\ stream' = [stream EXCEPT ![table[t][fd].desc] = r.f] /\ UNCHANGED <<names, table>> /\ reply' = r.ret
    BY <1>0, <2>1, ThroughKeeps
  <2> QED
    BY <2>2
<1>6. stream' = [stream EXCEPT ![s].pos = r.f.pos]
  <2>1. s \in Streams /\ r.f \in StreamOf /\ r.f.ino = stream[s].ino /\ r.f.append = stream[s].append
    BY <1>0, <1>1, <1>4, ContextKnown DEF Follows, IsContext
  <2>2. r.f = [stream[s] EXCEPT !.pos = r.f.pos]
    BY <1>1, <2>1 DEF StreamOf
  <2> QED
    BY <1>5, <2>1, <2>2, InvTypes
<1>7. e \in EntryOf
  BY <1>0, InvTypes
<1>8. <<b>> \in Seq(Bytes) /\ <<b>> # << >>
  BY <1>0
<1>9. Data(e, <<b>>) = Posix!OnDisk(e, <<b>>) /\ Data(e, <<b>>) \in Seq(Bytes)
  BY <1>7, <1>8, <1>0, GoesOnDisk, DataIs
<1>10. View(r) = Posix!Patched(i, from, Posix!OnDisk(e, <<b>>))
  BY <1>1, <1>2, <1>3, <1>4, <1>9, <1>0, PatchedIs
<1> QED
  BY <1>5, <1>6, <1>10 DEF PutsIt

(* write. *)
LEMMA WriteKeeps ==
  ASSUME FilesInv, NEW t \in Tables, NEW fd \in Fds, FileFd(t, fd), OneWay(t, fd),
         NEW b \in Bytes, Through(t, fd, Write(Context(t, fd), <<b>>))
  PROVE  FilesInv' /\ Posix!Write(t, fd, <<b>>, Posix!At(t, fd), FALSE) /\ reply'[1] \in {"wrote", "err"}
<1> PICK e : e = table[t][fd]
  OBVIOUS
<1> PICK s : s = e.desc
  OBVIOUS
<1> PICK c : c = Context(t, fd)
  OBVIOUS
<1> PICK r : r = Write(c, <<b>>)
  OBVIOUS
<1> PICK i : i = stream[s].ino
  OBVIOUS
<1>1. s # 0 /\ Ready(c) /\ c.f = stream[s] /\ c.e = e /\ Contents[i] = View(c)
  BY ContextKnown
<1>2. <<b>> \in Seq(Bytes) /\ <<b>> # << >> /\ c.f.pos \in Nat /\ e \in EntryOf
  BY <1>1, ContextTypes DEF Ready
<1>3. /\ ~e.writable => Looks(c, r) /\ r.f = c.f /\ r.ret = Err("EBADF")
      /\ e.writable => /\ Written(c, r, c.f.pos, Data(e, <<b>>))
                       /\ r.f.pos = Place(c) + Len(Data(e, <<b>>))
                       /\ r.ret = <<"wrote", Len(<<b>>)>>
  BY <1>1, <1>2, WriteIs
<1>4. CASE ~e.writable
  <2>1. FilesInv' /\ Posix!Nothing /\ reply' = Err("EBADF")
    BY <1>1, <1>3, <1>4, RefusedIs
  <2>2. reply'[1] = "err"
    BY <2>1 DEF Err
  <2> QED
    BY <1>1, <1>4, <2>1, <2>2, PosixNames DEF Posix!Write
<1>5. CASE e.writable
  <2> PICK from : from = IF stream[s].append THEN Len(Contents[i]) ELSE stream[s].pos
    OBVIOUS
  <2>1. /\ FilesInv' /\ UNCHANGED <<names, table>> /\ reply' = r.ret
        /\ Contents' = [Contents EXCEPT ![i] = Posix!Patched(i, from, Posix!OnDisk(e, <<b>>))]
        /\ stream' = [stream EXCEPT ![s].pos = r.f.pos]
    <3> PICK at \in Nat : at = stream[s].pos
      BY <1>1, <1>2
    <3>1. Puts(t, fd, at, b, r)
      BY <1>1, <1>2, <1>3, <1>5 DEF Puts
    <3>2. PutsIt(t, fd, at, b, r)
      BY <3>1, WrittenIs
    <3> QED
      BY <3>2 DEF PutsIt
  <2>2. r.f.pos = from + Len(Posix!OnDisk(e, <<b>>))
    BY <1>1, <1>2, <1>3, <1>5, GoesOnDisk DEF Place
  <2>3. reply' = <<"wrote", Len(<<b>>)>> /\ reply'[1] = "wrote"
    BY <1>3, <1>5, <2>1
  <2> QED
    BY <1>1, <1>5, <2>1, <2>2, <2>3 DEF Posix!Write, Posix!At
<1> QED
  BY <1>4, <1>5

(* pwrite. *)
LEMMA PwriteKeeps ==
  ASSUME FilesInv, NEW t \in Tables, NEW fd \in Fds, FileFd(t, fd), OneWay(t, fd),
         NEW b \in Bytes, NEW off \in Nat, Through(t, fd, Pwrite(Context(t, fd), <<b>>, off))
  PROVE  FilesInv' /\ Posix!Write(t, fd, <<b>>, off, TRUE) /\ reply'[1] \in {"wrote", "err"}
<1> PICK e : e = table[t][fd]
  OBVIOUS
<1> PICK s : s = e.desc
  OBVIOUS
<1> PICK c : c = Context(t, fd)
  OBVIOUS
<1> PICK r : r = Pwrite(c, <<b>>, off)
  OBVIOUS
<1> PICK i : i = stream[s].ino
  OBVIOUS
<1>1. /\ s # 0 /\ s \in Streams /\ Ready(c) /\ c.f = stream[s] /\ c.e = e /\ Contents[i] = View(c)
      /\ stream[s] \in StreamOf
  BY ContextKnown
<1>2. <<b>> \in Seq(Bytes) /\ <<b>> # << >> /\ e \in EntryOf
  BY <1>1, ContextTypes DEF Ready
<1>3. /\ r.f = c.f /\ Follows(c, r) /\ DirectionFits(r.e, r.b, r.lw)
      /\ ~e.writable => View(r) = View(c) /\ r.ret = Err("EBADF")
      /\ e.writable => Written(c, r, off, Data(e, <<b>>)) /\ r.ret = <<"wrote", Len(<<b>>)>>
  <2>1. /\ r.f = c.f /\ r.b.dir = "none" /\ Follows(c, r) /\ DirectionFits(r.e, r.b, r.lw)
        /\ ~c.e.writable => View(r) = View(c) /\ r.ret = Err("EBADF")
        /\ c.e.writable => Written(c, r, off, Data(c.e, <<b>>)) /\ r.ret = <<"wrote", Len(<<b>>)>>
    BY <1>1, <1>2, PwriteIs
  <2> QED
    BY <1>1, <2>1
<1>4. CASE ~e.writable
  <2>1. FilesInv' /\ Posix!Nothing /\ reply' = Err("EBADF")
    BY <1>1, <1>3, <1>4, RefusedIs DEF Looks
  <2>2. reply'[1] = "err"
    BY <2>1 DEF Err
  <2> QED
    BY <1>1, <1>4, <2>1, <2>2, PosixNames DEF Posix!Write
<1>5. CASE e.writable
  <2> PICK from : from = IF stream[s].append THEN Len(Contents[i]) ELSE off
    OBVIOUS
  <2>1. /\ FilesInv' /\ UNCHANGED <<names, table>> /\ reply' = r.ret
        /\ Contents' = [Contents EXCEPT ![i] = Posix!Patched(i, from, Posix!OnDisk(e, <<b>>))]
        /\ stream' = [stream EXCEPT ![s].pos = r.f.pos]
    <3>1. Puts(t, fd, off, b, r)
      BY <1>1, <1>3, <1>5 DEF Puts
    <3>2. PutsIt(t, fd, off, b, r)
      BY <3>1, WrittenIs
    <3> QED
      BY <3>2 DEF PutsIt
  <2>2. stream' = stream
    <3>1. stream[s] = [stream[s] EXCEPT !.pos = stream[s].pos]
      BY <1>1 DEF StreamOf
    <3> QED
      BY <1>1, <1>3, <2>1, <3>1, InvTypes
  <2>3. reply' = <<"wrote", Len(<<b>>)>> /\ reply'[1] = "wrote"
    BY <1>3, <1>5, <2>1
  <2> QED
    BY <1>1, <1>5, <2>1, <2>2, <2>3 DEF Posix!Write
<1> QED
  BY <1>4, <1>5

(* All reads and writes. *)
LEMMA TransferKeeps ==
  ASSUME FilesInv, NEW t \in Tables, NEW fd \in Fds, Crossing = FALSE, Transfer(t, fd)
  PROVE  FilesInv' /\ Posix!Transfer(t, fd) /\ table[t][fd].desc # 0
<1>1. FileFd(t, fd) /\ OneWay(t, fd) /\ table[t][fd].desc # 0
  BY DEF Transfer, FileFd
<1>2. (1..MaxLen \subseteq 0..MaxLen) /\ MaxLen \in 0..MaxLen /\ MaxLen \in Nat /\ (0..1 \subseteq 0..MaxLen)
  BY FileBounds
<1>3. Texts \subseteq Bytes
  BY FileBounds
<1>4. CASE \E n \in 1..MaxLen : Through(t, fd, Read(Context(t, fd), n))
  <2>1. PICK n \in 1..MaxLen : Through(t, fd, Read(Context(t, fd), n))
    BY <1>4
  <2>2. n \in Nat
    OBVIOUS
  <2>3. FilesInv' /\ Posix!Read(t, fd, n, Posix!At(t, fd), FALSE) /\ reply'[1] \in {"read", "err"}
    BY <1>1, <2>1, <2>2, ReadKeeps
  <2> QED
    BY <1>1, <1>2, <2>3 DEF Posix!Transfer
<1>5. CASE \E b \in Texts : Through(t, fd, Write(Context(t, fd), <<b>>))
  <2>1. PICK b \in Texts : Through(t, fd, Write(Context(t, fd), <<b>>))
    BY <1>5
  <2>2. FilesInv' /\ Posix!Write(t, fd, <<b>>, Posix!At(t, fd), FALSE) /\ reply'[1] \in {"wrote", "err"}
    BY <1>1, <1>3, <2>1, WriteKeeps
  <2> QED
    BY <1>1, <2>2 DEF Posix!Transfer
<1>6. CASE \E off \in 0..1 : Through(t, fd, Pread(Context(t, fd), MaxLen, off))
  <2>1. PICK off \in 0..1 : Through(t, fd, Pread(Context(t, fd), MaxLen, off))
    BY <1>6
  <2>2. FilesInv' /\ Posix!Read(t, fd, MaxLen, off, TRUE) /\ reply'[1] \in {"read", "err"}
    <3>1. off \in Nat
      OBVIOUS
    <3> QED
      BY <1>1, <1>2, <2>1, <3>1, PreadKeeps
  <2>3. off \in 0..MaxLen
    BY <1>2
  <2> QED
    BY <1>1, <1>2, <2>2, <2>3 DEF Posix!Transfer
<1>7. CASE \E b \in Texts, off \in 0..1 : Through(t, fd, Pwrite(Context(t, fd), <<b>>, off))
  <2>1. PICK b \in Texts, off \in 0..1 : Through(t, fd, Pwrite(Context(t, fd), <<b>>, off))
    BY <1>7
  <2>2. FilesInv' /\ Posix!Write(t, fd, <<b>>, off, TRUE) /\ reply'[1] \in {"wrote", "err"}
    <3>1. off \in Nat /\ b \in Bytes
      BY <1>3
    <3> QED
      BY <1>1, <2>1, <3>1, PwriteKeeps
  <2>3. off \in 0..MaxLen
    BY <1>2
  <2> QED
    BY <1>1, <2>2, <2>3 DEF Posix!Transfer
<1> QED
  BY <1>4, <1>5, <1>6, <1>7 DEF Transfer

(* lseek. *)
LEMMA SeekKeeps ==
  ASSUME FilesInv, NEW t \in Tables, NEW fd \in Fds, FileFd(t, fd),
         NEW whence \in {"set", "cur", "end"}, NEW off \in {-1, 0, 1}, Through(t, fd, Seek(Context(t, fd), whence, off))
  PROVE  FilesInv' /\ Posix!Placing(t, fd)
<1> PICK s : s = table[t][fd].desc
  OBVIOUS
<1> PICK c : c = Context(t, fd)
  OBVIOUS
<1> PICK r : r = Seek(c, whence, off)
  OBVIOUS
<1> PICK i : i = stream[s].ino
  OBVIOUS
<1>1. s # 0 /\ Ready(c) /\ c.f = stream[s] /\ c.b = buffer[s] /\ c.e = table[t][fd] /\ Contents[i] = View(c)
  BY ContextKnown
<1> PICK base : base = From(c, whence)
  OBVIOUS
<1>2. off \in Int
  OBVIOUS
<1>3. /\ Looks(c, r) /\ r.b.dir \in {"none", c.b.dir} /\ base \in Nat
      /\ base + off < 0 => r.f = c.f /\ r.ret = Err("EINVAL")
      /\ base + off >= 0 => r.f.pos = base + off /\ r.ret = <<"at", base + off>>
  BY <1>1, <1>2, SeekIs
<1>4. base \in Posix!Base(t, fd)
  BY <1>1 DEF From, Posix!Base, Posix!At
<1>5. TurnsAlone(t, fd, r)
  BY <1>1, <1>3 DEF TurnsAlone
<1>6. CASE base + off < 0
  <2>1. FilesInv' /\ Posix!Nothing /\ reply' = Err("EINVAL")
    BY <1>1, <1>3, <1>5, <1>6, NothingSeen
  <2>2. Posix!Seek(t, fd, base, off)
    BY <1>1, <1>6, <2>1, PosixNames DEF Posix!Seek
  <2>3. reply'[1] = "err"
    BY <2>1 DEF Err
  <2> QED
    BY <1>4, <2>1, <2>2, <2>3 DEF Posix!Placing
<1>7. CASE base + off >= 0
  <2>1. /\ FilesInv' /\ Contents' = Contents /\ UNCHANGED <<names, table>> /\ reply' = r.ret
        /\ stream' = [stream EXCEPT ![s].pos = r.f.pos]
    BY <1>3, <1>5, PlaceSeen
  <2>2. Posix!Seek(t, fd, base, off) /\ reply'[1] = "at"
    <3>1. r.f.pos = base + off /\ reply' = <<"at", base + off>> /\ reply'[1] = "at" /\ ~(base + off < 0)
      BY <1>2, <1>3, <1>7, <2>1
    <3>2. stream' = [stream EXCEPT ![table[t][fd].desc].pos = base + off]
      BY <2>1, <3>1
    <3> QED
      BY <1>1, <2>1, <3>1, <3>2 DEF Posix!Seek
  <2> QED
    BY <1>4, <2>1, <2>2 DEF Posix!Placing
<1> QED
  BY <1>2, <1>3, <1>6, <1>7

(* All that moves or flushes. *)
LEMMA PositionKeeps ==
  ASSUME FilesInv, NEW t \in Tables, NEW fd \in Fds, Position(t, fd)
  PROVE  FilesInv' /\ Posix!Placing(t, fd) /\ table[t][fd].desc # 0
<1>1. FileFd(t, fd) /\ table[t][fd].desc # 0
  BY DEF Position, FileFd
<1>2. CASE \E to \in {<<"set", 0>>, <<"set", 1>>, <<"cur", -1>>, <<"end", 0>>} :
             Through(t, fd, Seek(Context(t, fd), to[1], to[2]))
  <2>1. PICK to \in {<<"set", 0>>, <<"set", 1>>, <<"cur", -1>>, <<"end", 0>>} :
               Through(t, fd, Seek(Context(t, fd), to[1], to[2]))
    BY <1>2
  <2>2. to[1] \in {"set", "cur", "end"} /\ to[2] \in {-1, 0, 1}
    OBVIOUS
  <2> QED
    BY <1>1, <2>1, <2>2, SeekKeeps
<1>3. CASE Through(t, fd, [Flushed(Context(t, fd)) EXCEPT !.ret = <<"ok">>])
  <2> PICK s : s = table[t][fd].desc
    OBVIOUS
  <2> PICK c : c = Context(t, fd)
    OBVIOUS
  <2> PICK r : r = [Flushed(c) EXCEPT !.ret = <<"ok">>]
    OBVIOUS
  <2>1. Ready(c) /\ c.f = stream[s] /\ c.b = buffer[s]
    BY <1>1, ContextKnown
  <2>2. Looks(c, r) /\ r.f = c.f /\ r.ret = <<"ok">> /\ r.b.dir \in {"none", c.b.dir}
    BY <2>1, FlushIs
  <2>3. FilesInv' /\ Posix!Nothing /\ reply' = <<"ok">>
    <3>1. TurnsAlone(t, fd, r)
      BY <2>1, <2>2 DEF TurnsAlone
    <3> QED
      BY <1>1, <1>3, <2>1, <2>2, <3>1, NothingSeen
  <2> QED
    BY <1>1, <2>3 DEF Posix!Placing
<1> QED
  BY <1>2, <1>3 DEF Position

(* ftruncate. *)
LEMMA TruncateKeeps ==
  ASSUME FilesInv, NEW t \in Tables, NEW fd \in Fds, FileFd(t, fd),
         Through(t, fd, Truncate(Context(t, fd), Context(t, fd).f.pos))
  PROVE  FilesInv' /\ Posix!Truncate(t, fd) /\ reply'[1] \in {"ok", "err"}
<1> PICK e : e = table[t][fd]
  OBVIOUS
<1> PICK s : s = e.desc
  OBVIOUS
<1> PICK c : c = Context(t, fd)
  OBVIOUS
<1> PICK r : r = Truncate(c, c.f.pos)
  OBVIOUS
<1> PICK i : i = stream[s].ino
  OBVIOUS
<1>1. /\ s # 0 /\ s \in Streams /\ Ready(c) /\ c.f = stream[s] /\ c.b = buffer[s] /\ c.e = e
      /\ Contents[i] = View(c) /\ stream[s] \in StreamOf
  BY ContextKnown
<1>2. /\ Follows(c, r) /\ DirectionFits(r.e, r.b, r.lw) /\ r.f = c.f /\ r.b.dir \in {"none", c.b.dir}
      /\ ~e.writable => View(r) = View(c) /\ r.ret = Err("EINVAL")
      /\ e.writable => View(r) = Cut(View(c), c.f.pos) /\ r.ret = <<"ok">>
  <2>1. /\ Follows(c, r) /\ DirectionFits(r.e, r.b, r.lw) /\ r.f = c.f /\ r.b.dir \in {"none", c.b.dir}
        /\ ~c.e.writable => View(r) = View(c) /\ r.ret = Err("EINVAL")
        /\ c.e.writable => View(r) = Cut(View(c), c.f.pos) /\ r.ret = <<"ok">>
    BY <1>1, TruncateIs
  <2> QED
    BY <1>1, <2>1
<1>3. TurnsAlone(t, fd, r)
  BY <1>1, <1>2 DEF TurnsAlone
<1>4. CASE ~e.writable
  <2>1. Looks(c, r) /\ r.f = stream[s]
    BY <1>1, <1>2, <1>4 DEF Looks
  <2>2. FilesInv' /\ Posix!Nothing /\ reply' = Err("EINVAL")
    BY <1>2, <1>3, <1>4, <2>1, NothingSeen
  <2>3. reply'[1] = "err"
    BY <2>2 DEF Err
  <2> QED
    BY <1>1, <1>4, <2>2, <2>3, PosixNames DEF Posix!Truncate
<1>5. CASE e.writable
  <2>1. /\ FilesInv' /\ Contents' = [Contents EXCEPT ![i] = View(r)]
        /\ stream' = [stream EXCEPT ![s] = r.f] /\ UNCHANGED <<names, table>> /\ reply' = r.ret
    BY <1>2, <1>3, ThroughKeeps
  <2>2. stream' = stream
    BY <1>1, <1>2, <2>1, InvTypes
  <2>3. View(c) \in Seq(Bytes) /\ c.f.pos \in Nat
    BY <1>1, ContextTypes DEF Ready
  <2>4. View(r) = Posix!Ending(View(c), c.f.pos)
    BY <1>2, <1>5, <2>3, CutIs
  <2>5. Contents' = [Contents EXCEPT ![i] = Posix!Ending(Contents[i], stream[s].pos)]
    BY <1>1, <2>1, <2>4
  <2>6. reply' = <<"ok">> /\ reply'[1] = "ok"
    BY <1>2, <1>5, <2>1
  <2> QED
    BY <1>1, <1>5, <2>1, <2>2, <2>5, <2>6 DEF Posix!Truncate
<1> QED
  BY <1>4, <1>5

(* fstat. *)
LEMMA MeasureKeeps ==
  ASSUME FilesInv, NEW t \in Tables, NEW fd \in Fds, FileFd(t, fd), Through(t, fd, Measure(Context(t, fd)))
  PROVE  FilesInv' /\ Posix!Size(t, fd) /\ reply'[1] \in {"size", "err"}
<1> PICK e : e = table[t][fd]
  OBVIOUS
<1> PICK s : s = e.desc
  OBVIOUS
<1> PICK c : c = Context(t, fd)
  OBVIOUS
<1> PICK r : r = Measure(c)
  OBVIOUS
<1> PICK i : i = stream[s].ino
  OBVIOUS
<1>1. s # 0 /\ Ready(c) /\ c.f = stream[s] /\ c.b = buffer[s] /\ c.e = e /\ Contents[i] = View(c)
  BY ContextKnown
<1>2. /\ Looks(c, r) /\ r.f = c.f
      /\ names[e.path] = 0 => r.ret = Err("ENOENT") /\ r.b = c.b
      /\ names[e.path] # 0 => r.ret = <<"size", Len(View(c))>> /\ r.b.dir = "none"
  BY <1>1, MeasureIs
<1>3. TurnsAlone(t, fd, r)
  BY <1>1, <1>2 DEF TurnsAlone
<1>4. FilesInv' /\ Posix!Nothing /\ reply' = r.ret
  BY <1>1, <1>2, <1>3, NothingSeen
<1>5. reply' = IF names[e.path] = 0 THEN Err("ENOENT") ELSE <<"size", Len(Contents[i])>>
  BY <1>1, <1>2, <1>4
<1>6. reply'[1] \in {"size", "err"}
  BY <1>5 DEF Err
<1> QED
  BY <1>1, <1>4, <1>5, <1>6, PosixNames DEF Posix!Size

(* ftruncate and fstat. *)
LEMMA SizingKeeps ==
  ASSUME FilesInv, NEW t \in Tables, NEW fd \in Fds, Sizing(t, fd)
  PROVE  FilesInv' /\ Posix!Placing(t, fd) /\ table[t][fd].desc # 0
<1>1. FileFd(t, fd) /\ table[t][fd].desc # 0
  BY DEF Sizing, FileFd
<1>2. CASE Through(t, fd, Truncate(Context(t, fd), Context(t, fd).f.pos))
  BY <1>1, <1>2, TruncateKeeps DEF Posix!Placing
<1>3. CASE Through(t, fd, Measure(Context(t, fd)))
  BY <1>1, <1>3, MeasureKeeps DEF Posix!Placing
<1> QED
  BY <1>2, <1>3 DEF Sizing

(* Descriptor 1 before anything is put there. *)
LEMMA ConsoleKeeps ==
  ASSUME FilesInv, NEW t \in Tables, NEW fd \in Fds, OnStdOut(t, fd)
  PROVE  FilesInv' /\ Posix!Console(t, fd)
<1>1. FilesInv' /\ Posix!Nothing
  BY IdleIs DEF OnStdOut
<1> QED
  BY <1>1, PosixNames DEF OnStdOut, Posix!Console

-----------------------------------------------------------------------------
(* open.                                                                   *)

(* A file no descriptor may write has no bytes waiting for it. *)
LEMMA NothingWaits ==
  ASSUME NEW nam, NEW d, NEW str, NEW buf, NEW tab, NEW wr, Good(nam, d, str, buf, tab, wr), NEW i \in Inodes,
         \A t \in Tables, fd \in Fds : tab[t][fd].desc # 0 /\ str[tab[t][fd].desc].ino = i => ~tab[t][fd].writable
  PROVE  Waiting(str, buf, i) = {}
<1> SUFFICES ASSUME NEW x \in Waiting(str, buf, i) PROVE FALSE
  OBVIOUS
<1>1. x \in Streams /\ str[x].ino = i /\ buf[x].pend # << >> /\ i # 0 /\ x # 0
  BY StreamsArePositive, FileBounds DEF Waiting
<1>2. buf[x].dir = "write"
  BY <1>1 DEF Good, StreamsHeld, BufferFits
<1>3. PICK t \in Tables, fd \in Fds : tab[t][fd].desc = x
  BY <1>1 DEF Good, StreamsHeld
<1>4. tab[t][fd].writable
  BY <1>1, <1>2, <1>3 DEF Good, EntriesFit, EntryFits, DirectionFits
<1> QED
  BY <1>1, <1>3, <1>4

(* Nothing is open or kept that nobody uses. *)
LEMMA NothingToClose ==
  ASSUME NEW nam, NEW d, NEW str, NEW buf, NEW tab, NEW wr, Good(nam, d, str, buf, tab, wr)
  PROVE  str = StreamsLeft(tab, str) /\ Hold(d, str, buf) = HeldLeft(nam, tab, str, Hold(d, str, buf))
<1>1. \A s \in Streams : ~Alive(tab, s) => str[s] = Closed /\ buf[s] = Empty
  BY DEF Good, StreamsHeld, Alive
<1>2. str \in [Streams -> StreamOf]
  BY DEF Good, Typed
<1>3. str = StreamsLeft(tab, str)
  BY <1>1, <1>2 DEF StreamsLeft
<1>4. ASSUME NEW i \in Inodes, ~Kept(nam, tab, str, i) PROVE Hold(d, str, buf)[i] = << >>
  <2>1. ASSUME NEW s \in Streams PROVE str[s].ino # i
    <3>1. CASE Alive(tab, s)
      BY <1>4, <2>1, <3>1 DEF Kept
    <3>2. CASE ~Alive(tab, s)
      BY <1>1, <1>4, <2>1, <3>2, EmptyTypes, FileBounds
    <3> QED
      BY <3>1, <3>2
  <2>2. d[i] = << >>
    BY <1>4, <2>1 DEF Kept, Good, Gone
  <2>3. Waiting(str, buf, i) = {}
    BY <2>1 DEF Waiting
  <2> QED
    BY <1>4, <2>2, <2>3, HoldNone
<1> PICK h : h = Hold(d, str, buf)
  OBVIOUS
<1>5. h = [i \in Inodes |-> h[i]]
  BY DEF Hold
<1>6. h = HeldLeft(nam, tab, str, h)
  <2>1. \A i \in Inodes : h[i] = IF Kept(nam, tab, str, i) THEN h[i] ELSE << >>
    BY <1>4
  <2> QED
    BY <1>5, <2>1, Zenon DEF HeldLeft
<1> QED
  BY <1>3, <1>6

(* A state with the invariant is closed under Keeps. *)
LEMMA KeepsItself ==
  ASSUME FilesInv'
  PROVE  Posix!Keeps(table', names', Contents', stream')
<1> PICK nam, d, str, buf, tab, wr : /\ nam = names' /\ d = disk' /\ str = stream' /\ buf = buffer'
                                     /\ tab = table' /\ wr = wrote'
  OBVIOUS
<1>1. Good(nam, d, str, buf, tab, wr)
  BY DEF FilesInv
<1>2. str = StreamsLeft(tab, str) /\ Hold(d, str, buf) = HeldLeft(nam, tab, str, Hold(d, str, buf))
  BY <1>1, NothingToClose
<1> PICK con : con = Contents'
  OBVIOUS
<1>3. con = Hold(d, str, buf)
  BY ContentsAreHeld
<1>4. Posix!Keeps(tab, nam, con, str)
  BY <1>2, <1>3, KeepsIs
<1> QED
  BY <1>4

(* What open leaves. *)
Named(nam, path, i) == [nam EXCEPT ![path] = i]
Emptied(d, i, empties) == [d EXCEPT ![i] = IF empties THEN << >> ELSE @]
WithStream(str, s, i, f, at) == [str EXCEPT ![s] = [ino |-> i, append |-> f.append, pos |-> at]]
WithEntry(tab, t, fd, e) == [tab EXCEPT ![t][fd] = e]

(* A file nobody knows of. *)
Fresh(nam, str, i) == (\A p \in Paths : nam[p] # i) /\ (\A x \in Streams : str[x].ino # i)
(* No descriptor of the file may write; if the new one may, there is       *)
(* none.                                                                   *)
Unwritten(str, tab, i, writes) ==
  \A u \in Tables, gd \in Fds :
    tab[u][gd].desc # 0 /\ str[tab[u][gd].desc].ino = i => ~tab[u][gd].writable /\ ~writes

(* fd is opened as FILE s on file i. *)
Opens(nam, d, str, buf, tab, wr, t, fd, path, f, s, i, at, empties) ==
  /\ Good(nam, d, str, buf, tab, wr)
  /\ t \in Tables /\ fd \in Fds /\ path \in Paths /\ f \in OpenFlags /\ (f.append => f.write)
  /\ s \in Streams /\ str[s].ino = 0 /\ tab[t][fd] = NoEntry
  /\ i \in Inodes /\ at \in Nat /\ empties \in BOOLEAN
  /\ nam[path] = i \/ (nam[path] = 0 /\ Fresh(nam, str, i))
  /\ Unwritten(str, tab, i, f.write)

(* What open records of the flags it is given. *)
LEMMA EntryForHas ==
  ASSUME NEW s \in Streams, NEW path \in Paths, NEW f \in OpenFlags, f.append => f.write
  PROVE  /\ EntryFor(s, path, f) \in EntryOf
         /\ EntryFor(s, path, f).desc = s /\ EntryFor(s, path, f).path = path
         /\ EntryFor(s, path, f).readable = f.read /\ EntryFor(s, path, f).writable = f.write
<1> DEFINE e == [NoEntry EXCEPT !.desc = s, !.path = path, !.readable = f.read,
                                !.writable = f.write, !.append = f.append, !.text = ~f.binary]
<1>1. /\ f.read \in BOOLEAN /\ f.write \in BOOLEAN /\ f.append \in BOOLEAN /\ f.binary \in BOOLEAN
  BY DEF OpenFlags
<1>2. e \in EntryOf /\ e.desc = s /\ e.path = path /\ e.readable = f.read /\ e.writable = f.write
  BY <1>1 DEF EntryOf, NoEntry
<1>3. EntryFor(s, path, f) = e
  <2>1. (f.write \/ f.append) = f.write
    BY <1>1
  <2> QED
    BY <2>1, Zenon DEF EntryFor
<1> QED
  BY <1>2, <1>3

(* Opening keeps the invariant. *)
LEMMA OpenedGood ==
  ASSUME NEW nam, NEW d, NEW str, NEW buf, NEW tab, NEW wr, NEW t, NEW fd, NEW path, NEW f, NEW s, NEW i, NEW at,
         NEW empties, Opens(nam, d, str, buf, tab, wr, t, fd, path, f, s, i, at, empties)
  PROVE  Good(Named(nam, path, i), Emptied(d, i, empties), WithStream(str, s, i, f, at), buf,
              WithEntry(tab, t, fd, EntryFor(s, path, f)), wr)
<1>0. /\ Good(nam, d, str, buf, tab, wr)
      /\ t \in Tables /\ fd \in Fds /\ path \in Paths /\ f \in OpenFlags /\ (f.append => f.write)
      /\ s \in Streams /\ str[s].ino = 0 /\ tab[t][fd] = NoEntry
      /\ i \in Inodes /\ at \in Nat /\ empties \in BOOLEAN
      /\ nam[path] = i \/ (nam[path] = 0 /\ Fresh(nam, str, i))
      /\ Unwritten(str, tab, i, f.write)
  BY DEF Opens
<1> PICK e : e = EntryFor(s, path, f)
  OBVIOUS
<1> PICK new : new = [ino |-> i, append |-> f.append, pos |-> at]
  OBVIOUS
<1>1. e \in EntryOf /\ e.desc = s /\ e.path = path /\ e.readable = f.read /\ e.writable = f.write
  BY <1>0, EntryForHas
<1>2. new \in StreamOf /\ new.ino = i /\ new.append = f.append /\ new.pos = at /\ i # 0 /\ s # 0
  BY <1>0, FileBounds, StreamsArePositive DEF StreamOf, OpenFlags
<1> DEFINE nam2 == Named(nam, path, i)
           d2 == Emptied(d, i, empties)
           str2 == WithStream(str, s, i, f, at)
           tab2 == WithEntry(tab, t, fd, e)
<1>3. Typed(nam, d, str, buf, tab, wr)
  BY <1>0 DEF Good
<1>4. Typed(nam2, d2, str2, buf, tab2, wr)
  <2>1. nam2 \in [Paths -> Inodes \cup {0}]
    BY <1>0, <1>3 DEF Typed, Named
  <2>2. d2 \in [Inodes -> Seq(Bytes)]
    <3>1. << >> \in Seq(Bytes)
      OBVIOUS
    <3> QED
      BY <1>3, <3>1 DEF Typed, Emptied
  <2>3. str2 \in [Streams -> StreamOf]
    BY <1>0, <1>2, <1>3 DEF Typed, WithStream
  <2>4. tab2 \in [Tables -> [Fds -> EntryOf]]
    BY <1>1, <1>3 DEF Typed, WithEntry
  <2> QED
    BY <1>3, <2>1, <2>2, <2>3, <2>4 DEF Typed
<1>5. str2[s] = new /\ \A x \in Streams : x # s => str2[x] = str[x]
  BY <1>0, <1>3 DEF Typed, WithStream
<1>6. tab2[t][fd] = e /\ \A u \in Tables, gd \in Fds : ~(u = t /\ gd = fd) => tab2[u][gd] = tab[u][gd]
  BY <1>0, <1>3 DEF Typed, WithEntry
<1>7. nam2[path] = i /\ \A p \in Paths : p # path => nam2[p] = nam[p]
  BY <1>0, <1>3 DEF Typed, Named
<1>8. \A j \in Inodes : j # i => d2[j] = d[j]
  BY <1>3 DEF Typed, Emptied
<1> HIDE DEF nam2, d2, str2, tab2
<1>9. ASSUME NEW u \in Tables, NEW gd \in Fds, tab[u][gd].desc # 0
      PROVE  tab[u][gd].desc \in Streams /\ tab[u][gd].desc # s /\ ~(u = t /\ gd = fd)
  <2>1. tab[u][gd].desc \in Streams
    <3>1. tab[u][gd] \in EntryOf
      BY <1>3, <1>9 DEF Typed
    <3> QED
      BY <1>9, <3>1 DEF EntryOf
  <2>2. str[tab[u][gd].desc].ino # 0
    BY <1>0, <1>9 DEF Good, EntriesFit, EntryFits
  <2> QED
    BY <1>0, <1>9, <2>1, <2>2, EmptyTypes
<1>10. buf[s] = Empty
  BY <1>0 DEF Good, StreamsHeld
<1>11. StreamsHeld(str2, buf, tab2)
  <2> SUFFICES ASSUME NEW x \in Streams
               PROVE  /\ BufferFits(str2[x], buf[x])
                      /\ str2[x].ino = 0 => str2[x] = Closed /\ buf[x] = Empty
                      /\ str2[x].ino # 0 => \E u \in Tables, gd \in Fds : tab2[u][gd].desc = x
    BY DEF StreamsHeld
  <2>1. CASE x = s
    <3>1. BufferFits(new, Empty)
      <4>1. Empty.pend = << >> /\ Empty.misused = FALSE /\ Len(<< >>) = 0
        BY DEF Empty
      <4> QED
        BY <1>0, <1>2, <4>1 DEF BufferFits
    <3>2. tab2[t][fd].desc = x
      BY <1>1, <1>6, <2>1
    <3> QED
      BY <1>0, <1>2, <1>5, <1>10, <2>1, <3>1, <3>2
  <2>2. CASE x # s
    <3>1. /\ BufferFits(str[x], buf[x])
          /\ str[x].ino = 0 => str[x] = Closed /\ buf[x] = Empty
          /\ str[x].ino # 0 => \E u \in Tables, gd \in Fds : tab[u][gd].desc = x
      BY <1>0 DEF Good, StreamsHeld
    <3>2. ASSUME str[x].ino # 0 PROVE \E u \in Tables, gd \in Fds : tab2[u][gd].desc = x
      <4>1. PICK u \in Tables, gd \in Fds : tab[u][gd].desc = x
        BY <3>1, <3>2
      <4>2. tab2[u][gd] = tab[u][gd]
        BY <1>6, <1>9, <4>1, StreamsArePositive
      <4> QED
        BY <4>1, <4>2
    <3> QED
      BY <1>5, <2>2, <3>1, <3>2
  <2> QED
    BY <2>1, <2>2
<1>12. Gone(nam2, d2, str2)
  <2> SUFFICES ASSUME NEW j \in Inodes, \A p \in Paths : nam2[p] # j, \A x \in Streams : str2[x].ino # j
               PROVE  d2[j] = << >>
    BY DEF Gone
  <2>1. j # i
    BY <1>0, <1>7
  <2>2. j # 0
    BY FileBounds
  <2>3. \A p \in Paths : nam[p] # j
    BY <1>0, <1>7, <2>1, <2>2
  <2>4. \A x \in Streams : str[x].ino # j
    BY <1>0, <1>5, <2>2
  <2>5. d[j] = << >>
    BY <1>0, <2>3, <2>4 DEF Good, Gone
  <2> QED
    BY <1>8, <2>1, <2>5
<1>13. EntriesFit(str2, buf, tab2, wr)
  <2> SUFFICES ASSUME NEW u \in Tables, NEW gd \in Fds PROVE EntryFits(str2, buf, tab2[u][gd], wr[u][gd])
    BY DEF EntriesFit
  <2>1. EntryFits(str, buf, tab[u][gd], wr[u][gd])
    BY <1>0 DEF Good, EntriesFit
  <2>2. CASE u = t /\ gd = fd
    <3>1. ~wr[u][gd]
      BY <1>0, <2>1, <2>2, EmptyTypes DEF EntryFits
    <3>2. DirectionFits(e, Empty, wr[u][gd])
      BY <3>1, EmptyTypes DEF DirectionFits
    <3> QED
      BY <1>0, <1>1, <1>2, <1>5, <1>6, <1>10, <2>2, <3>1, <3>2 DEF EntryFits
  <2>3. CASE ~(u = t /\ gd = fd)
    <3>1. tab2[u][gd] = tab[u][gd]
      BY <1>6, <2>3
    <3>2. tab[u][gd].desc # 0 => str2[tab[u][gd].desc] = str[tab[u][gd].desc]
      BY <1>5, <1>9
    <3> QED
      BY <2>1, <3>1, <3>2 DEF EntryFits
  <2> QED
    BY <2>2, <2>3
<1>14. EntriesAgree(str2, tab2)
  <2> SUFFICES ASSUME NEW u \in Tables, NEW v \in Tables, NEW gd \in Fds, NEW hd \in Fds,
                      tab2[u][gd].desc # 0, tab2[v][hd].desc # 0
               PROVE  Agree(str2, tab2[u][gd], tab2[v][hd])
    BY DEF EntriesAgree, Agree
  <2>1. CASE u = t /\ gd = fd /\ v = t /\ hd = fd
    BY <2>1 DEF Agree
  <2>2. CASE ~(u = t /\ gd = fd) /\ ~(v = t /\ hd = fd)
    <3>1. PICK g, h : g = tab[u][gd] /\ h = tab[v][hd]
      OBVIOUS
    <3>2. g = tab2[u][gd] /\ h = tab2[v][hd] /\ Agree(str, g, h)
      BY <1>0, <1>6, <2>2, <3>1 DEF Good, EntriesAgree
    <3>3. str2[g.desc] = str[g.desc] /\ str2[h.desc] = str[h.desc]
      <4>1. /\ tab[u][gd].desc # 0 /\ tab[v][hd].desc # 0
        BY <3>1, <3>2
      <4>2. /\ g.desc \in Streams /\ g.desc # s /\ h.desc \in Streams /\ h.desc # s
        BY <1>9, <3>1, <4>1
      <4> QED
        BY <1>5, <4>2
    <3>4. Agree(str2, g, h)
      BY <3>2, <3>3 DEF Agree
    <3> QED
      BY <3>2, <3>4
  <2>3. CASE u = t /\ gd = fd /\ ~(v = t /\ hd = fd)
    <3>1. PICK h : h = tab[v][hd]
      OBVIOUS
    <3>2. h = tab2[v][hd] /\ e = tab2[u][gd]
      BY <1>6, <2>3, <3>1
    <3>3. h.desc # 0 /\ h.desc \in Streams /\ h.desc # s
      BY <1>9, <3>1, <3>2
    <3>4. str2[h.desc] = str[h.desc]
      BY <1>5, <3>3
    <3>5. str[h.desc].ino = i => ~f.write
      BY <1>0, <3>1, <3>3 DEF Unwritten
    <3>6. Agree(str2, e, h)
      BY <1>1, <1>2, <1>5, <3>3, <3>4, <3>5 DEF Agree
    <3> QED
      BY <3>2, <3>6
  <2>4. CASE ~(u = t /\ gd = fd) /\ v = t /\ hd = fd
    <3>1. PICK h : h = tab[u][gd]
      OBVIOUS
    <3>2. h = tab2[u][gd] /\ e = tab2[v][hd]
      BY <1>6, <2>4, <3>1
    <3>3. h.desc # 0 /\ h.desc \in Streams /\ h.desc # s
      BY <1>9, <3>1, <3>2
    <3>4. str2[h.desc] = str[h.desc]
      BY <1>5, <3>3
    <3>5. str[h.desc].ino = i => ~h.writable
      BY <1>0, <3>1, <3>3 DEF Unwritten
    <3>6. Agree(str2, h, e)
      BY <1>1, <1>2, <1>5, <3>3, <3>4, <3>5 DEF Agree
    <3> QED
      BY <3>2, <3>6
  <2> QED
    BY <2>1, <2>2, <2>3, <2>4
<1> QED
  BY <1>4, <1>11, <1>12, <1>13, <1>14 DEF Good, nam2, d2, str2, tab2

(* What the files hold after it, and before. *)
LEMMA OpenedHold ==
  ASSUME NEW nam, NEW d, NEW str, NEW buf, NEW tab, NEW wr, NEW t, NEW fd, NEW path, NEW f, NEW s, NEW i, NEW at,
         NEW empties, Opens(nam, d, str, buf, tab, wr, t, fd, path, f, s, i, at, empties),
         empties => f.write \/ nam[path] = 0
  PROVE  /\ f.write => Hold(d, str, buf)[i] = d[i]
         /\ nam[path] = 0 => Hold(d, str, buf)[i] = << >>
         /\ Hold(Emptied(d, i, empties), WithStream(str, s, i, f, at), buf) = Emptied(Hold(d, str, buf), i, empties)
<1>0. /\ Good(nam, d, str, buf, tab, wr)
      /\ s \in Streams /\ str[s].ino = 0
      /\ i \in Inodes /\ at \in Nat /\ empties \in BOOLEAN /\ f \in OpenFlags
      /\ nam[path] = i \/ (nam[path] = 0 /\ Fresh(nam, str, i))
      /\ Unwritten(str, tab, i, f.write)
      /\ i # 0
  BY FileBounds DEF Opens
<1>1. Typed(nam, d, str, buf, tab, wr)
  BY <1>0 DEF Good
<1> DEFINE d2 == Emptied(d, i, empties)
           str2 == WithStream(str, s, i, f, at)
           h == Hold(d, str, buf)
           h2 == Hold(d2, str2, buf)
<1>2. str2[s].ino = i /\ \A x \in Streams : x # s => str2[x] = str[x]
  BY <1>0, <1>1 DEF Typed, WithStream
<1>3. d2[i] = (IF empties THEN << >> ELSE d[i]) /\ \A j \in Inodes : j # i => d2[j] = d[j]
  BY <1>0, <1>1 DEF Typed, Emptied
<1>4. d2 \in [Inodes -> Seq(Bytes)]
  <2>1. << >> \in Seq(Bytes)
    OBVIOUS
  <2> QED
    BY <1>1, <2>1 DEF Typed, Emptied
<1>5. buf[s].pend = << >>
  BY <1>0, EmptyTypes DEF Good, StreamsHeld
<1> HIDE DEF d2, str2
<1>6. ASSUME NEW j \in Inodes PROVE Waiting(str2, buf, j) = Waiting(str, buf, j)
  BY <1>2, <1>5 DEF Waiting
<1>7. f.write => Waiting(str, buf, i) = {}
  <2> SUFFICES ASSUME f.write PROVE Waiting(str, buf, i) = {}
    OBVIOUS
  <2>1. \A u \in Tables, gd \in Fds : tab[u][gd].desc # 0 /\ str[tab[u][gd].desc].ino = i => ~tab[u][gd].writable
    BY <1>0 DEF Unwritten
  <2> QED
    BY <1>0, <2>1, NothingWaits
<1>8. nam[path] = 0 => Waiting(str, buf, i) = {} /\ d[i] = << >>
  BY <1>0 DEF Fresh, Waiting, Good, Gone
<1>9. ASSUME NEW j \in Inodes, d2[j] = d[j] PROVE h2[j] = h[j]
  <2>1. \A x \in Waiting(str, buf, j) : str2[x] = str[x]
    BY <1>2, <1>5 DEF Waiting
  <2>2. SameOf(j, d, str, buf, d2, str2, buf)
    BY <1>1, <1>4, <1>6, <1>9, <2>1 DEF SameOf, Typed
  <2> QED
    BY <1>9, <2>2, HoldSame
<1>10. f.write => h[i] = d[i]
  BY <1>0, <1>7, HoldNone
<1>11. nam[path] = 0 => h[i] = << >>
  BY <1>0, <1>8, HoldNone
<1>12. h2[i] = IF empties THEN << >> ELSE h[i]
  <2>1. CASE ~empties
    BY <1>0, <1>3, <1>9, <2>1
  <2>2. CASE empties
    <3>1. Waiting(str2, buf, i) = {}
      BY <1>0, <1>6, <1>7, <1>8, <2>2
    <3> QED
      BY <1>0, <1>3, <2>2, <3>1, HoldNone
  <2> QED
    BY <1>0, <2>1, <2>2
<1>13. \A j \in Inodes : j # i => h2[j] = h[j]
  BY <1>3, <1>9
<1>14. h = [j \in Inodes |-> h[j]] /\ h2 = [j \in Inodes |-> h2[j]]
  BY DEF Hold
<1> HIDE DEF h, h2
<1>15. h2 = Emptied(h, i, empties)
  BY <1>0, <1>12, <1>13, <1>14 DEF Emptied
<1> QED
  BY <1>10, <1>11, <1>15 DEF h, h2, d2, str2

(* The promise's free descriptors are the code's. *)
LEMMA PosixFreeFds ==
  ASSUME NEW t
  PROVE  Posix!FreeFds(t) = FreeFds(table, t) /\ \A S : Posix!Least(S) = Lowest(S)
BY PosixNames DEF Posix!FreeFds, FreeFds, Posix!Least, Lowest

(* open. *)
LEMMA OpenKeeps ==
  ASSUME FilesInv, SpellingsAsAsked, NEW t \in Tables, NEW path \in Paths, NEW f \in Spellings, Open(t, path, f)
  PROVE  FilesInv' /\ Posix!Opening
<1> PICK mode : mode = HostMode(f)
  OBVIOUS
<1> PICK i : i = IF names[path] # 0 THEN names[path] ELSE Lowest(FreeInodes)
  OBVIOUS
<1>1. /\ f \in OpenFlags /\ (f.append => f.write)
      /\ Makes(mode) <=> f.create
      /\ (f.write /\ f.truncate) => Empties(mode)
      /\ Empties(mode) => (f.write /\ f.truncate) \/ (f.create /\ f.exclusive)
  BY DEF SpellingsAsAsked
<1>2. FreeFds(table, t) # {} /\ FreeStreams # {}
  BY DEF Open
<1>3. CASE f.exclusive /\ f.create /\ names[path] # 0 /\ Refuse("EEXIST")
  <2>1. FilesInv' /\ Posix!Nothing /\ reply' = Err("EEXIST") /\ reply'[1] = "err"
    BY <1>3, IdleIs DEF Refuse, Err
  <2>2. Posix!Open(t, path, f)
    BY <1>3, <2>1, PosixNames DEF Posix!Open
  <2> QED
    BY <2>1, <2>2 DEF Posix!Opening
<1>4. CASE names[path] = 0 /\ ~Makes(mode) /\ Refuse("ENOENT")
  <2>1. FilesInv' /\ Posix!Nothing /\ reply' = Err("ENOENT") /\ reply'[1] = "err"
    BY <1>4, IdleIs DEF Refuse, Err
  <2>2. Posix!Open(t, path, f)
    BY <1>1, <1>4, <2>1, PosixNames DEF Posix!Open
  <2> QED
    BY <2>1, <2>2 DEF Posix!Opening
<1> PICK s : s = Lowest(FreeStreams)
  OBVIOUS
<1> PICK fd : fd = Lowest(FreeFds(table, t))
  OBVIOUS
<1> PICK empties : empties = (f.write /\ f.truncate)
  OBVIOUS
<1>5. CASE /\ ~(f.exclusive /\ f.create /\ names[path] # 0)
           /\ IF names[path] # 0 THEN OneWriter(i, f.write \/ f.append) ELSE Makes(mode) /\ FreeInodes # {}
           /\ \E at \in Starts(f, i) :
                /\ stream' = [stream EXCEPT ![s] = [ino |-> i, append |-> f.append, pos |-> at]]
                /\ table' = [table EXCEPT ![t][fd] = EntryFor(s, path, f)]
                /\ reply' = <<"fd", fd>>
           /\ names' = [names EXCEPT ![path] = i]
           /\ disk' = [disk EXCEPT ![i] = IF Empties(mode) THEN << >> ELSE @]
           /\ UNCHANGED <<buffer, wrote>>
  <2> PICK at \in Starts(f, i) :
        /\ stream' = [stream EXCEPT ![s] = [ino |-> i, append |-> f.append, pos |-> at]]
        /\ table' = [table EXCEPT ![t][fd] = EntryFor(s, path, f)]
        /\ reply' = <<"fd", fd>>
    BY <1>5
  <2>1. s \in Streams /\ stream[s].ino = 0 /\ s # 0
    <3>1. FreeStreams \subseteq Nat /\ FreeStreams \subseteq Streams
      BY StreamsArePositive DEF FreeStreams
    <3>2. s \in FreeStreams
      BY <1>2, <3>1, LowestIs
    <3> QED
      BY <3>2, StreamsArePositive DEF FreeStreams
  <2>2. fd \in Fds /\ table[t][fd] = NoEntry
    <3>1. FreeFds(table, t) \subseteq Nat
      BY FileBounds DEF FreeFds
    <3>2. fd \in FreeFds(table, t)
      BY <1>2, <3>1, LowestIs
    <3> QED
      BY <3>2 DEF FreeFds
  <2>3. /\ i \in Inodes /\ Unwritten(stream, table, i, f.write)
        /\ names[path] = i \/ (names[path] = 0 /\ Fresh(names, stream, i))
    <3>1. CASE names[path] # 0
      <4>1. i = names[path] /\ i \in Inodes
        BY <3>1, InvTypes
      <4>2. OneWriter(i, f.write)
        <5>1. (f.write \/ f.append) = f.write
          BY <1>1 DEF OpenFlags
        <5> QED
          BY <1>5, <3>1, <5>1
      <4>3. Unwritten(stream, table, i, f.write)
        <5> SUFFICES ASSUME NEW u \in Tables, NEW gd \in Fds, table[u][gd].desc # 0,
                            stream[table[u][gd].desc].ino = i
                     PROVE  ~table[u][gd].writable /\ ~f.write
          BY DEF Unwritten
        <5>1. <<u, gd>> \in Tables \X Fds /\ <<u, gd>>[1] = u /\ <<u, gd>>[2] = gd
          OBVIOUS
        <5> QED
          BY <4>2, <5>1 DEF OneWriter
      <4> QED
        BY <4>1, <4>3
    <3>2. CASE names[path] = 0
      <4>1. FreeInodes \subseteq Nat /\ FreeInodes # {}
        BY <1>5, <3>2, FileBounds DEF FreeInodes
      <4>2. i \in FreeInodes
        BY <3>2, <4>1, LowestIs
      <4>3. i \in Inodes /\ Fresh(names, stream, i)
        BY <4>2 DEF FreeInodes, Fresh
      <4>4. Unwritten(stream, table, i, f.write)
        <5> SUFFICES ASSUME NEW u \in Tables, NEW gd \in Fds, table[u][gd].desc # 0
                     PROVE  stream[table[u][gd].desc].ino # i
          BY DEF Unwritten
        <5>1. table[u][gd] \in EntryOf
          BY InvTypes
        <5>2. table[u][gd].desc \in Streams
          BY <5>1 DEF EntryOf
        <5> QED
          BY <4>3, <5>2 DEF Fresh
      <4> QED
        BY <3>2, <4>3, <4>4
    <3> QED
      BY <3>1, <3>2
  <2>4. at \in Nat /\ disk[i] \in Seq(Bytes) /\ empties \in BOOLEAN /\ f.write \in BOOLEAN
    <3>1. disk[i] \in Seq(Bytes)
      BY <2>3, InvTypes
    <3>2. Len(disk[i]) \in Nat
      BY <3>1
    <3> QED
      BY <1>1, <3>1, <3>2 DEF Starts, OpenFlags
  <2>5. Good(names, disk, stream, buffer, table, wrote)
    BY DEF FilesInv
  <2> PICK nam, d, str, buf, tab, wr : /\ nam = names /\ d = disk /\ str = stream /\ buf = buffer
                                       /\ tab = table /\ wr = wrote
    OBVIOUS
  <2>6. Opens(nam, d, str, buf, tab, wr, t, fd, path, f, s, i, at, empties)
    BY <1>1, <2>1, <2>2, <2>3, <2>4, <2>5 DEF Opens
  <2>7. nam[path] = 0 => d[i] = << >>
    BY <2>3, <2>5, FileBounds DEF Good, Gone, Fresh
  <2>8. Emptied(d, i, Empties(mode)) = Emptied(d, i, empties)
    <3>1. CASE Empties(mode) = empties
      BY <3>1
    <3>2. CASE Empties(mode) # empties
      <4>1. nam[path] = 0 /\ Empties(mode) /\ ~empties
        <5>1. Empties(mode) \in BOOLEAN
          BY DEF Empties
        <5>2. Empties(mode) /\ ~empties
          BY <1>1, <2>4, <3>2, <5>1
        <5> QED
          BY <1>1, <1>5, <5>2
      <4>2. d[i] = << >>
        BY <2>7, <4>1
      <4> QED
        BY <4>1, <4>2 DEF Emptied
    <3> QED
      BY <3>1, <3>2
  <2>9. /\ names' = Named(nam, path, i) /\ disk' = Emptied(d, i, empties) /\ buffer' = buf /\ wrote' = wr
        /\ stream' = WithStream(str, s, i, f, at) /\ table' = WithEntry(tab, t, fd, EntryFor(s, path, f))
    BY <1>5, <2>8 DEF Named, Emptied, WithStream, WithEntry
  <2>10. FilesInv'
    <3>1. Good(Named(nam, path, i), Emptied(d, i, empties), WithStream(str, s, i, f, at), buf,
               WithEntry(tab, t, fd, EntryFor(s, path, f)), wr)
      BY <2>6, OpenedGood
    <3> QED
      BY <2>9, <3>1 DEF FilesInv
  <2>11. /\ f.write => Contents[i] = disk[i]
         /\ Contents' = Emptied(Contents, i, empties)
    <3>1. /\ f.write => Hold(d, str, buf)[i] = d[i]
          /\ Hold(Emptied(d, i, empties), WithStream(str, s, i, f, at), buf) = Emptied(Hold(d, str, buf), i, empties)
      <4>1. empties => f.write \/ nam[path] = 0
        OBVIOUS
      <4> QED
        BY <2>6, <4>1, OpenedHold
    <3> QED
      BY <2>9, <3>1, ContentsAreHeld
  <2>12. Posix!Keeps(WithEntry(table, t, fd, EntryFor(s, path, f)), Named(names, path, i),
                     Emptied(Contents, i, empties), WithStream(stream, s, i, f, at))
    <3>1. Posix!Keeps(table', names', Contents', stream')
      BY <2>10, KeepsItself
    <3> QED
      BY <2>9, <2>11, <3>1
  <2> PICK e : e = EntryFor(s, path, f)
    OBVIOUS
  <2>13. /\ e.desc = s /\ table'[t][fd] = e /\ names'[path] = i
         /\ e = [NoEntry EXCEPT !.desc = s, !.path = path, !.readable = f.read,
                                !.writable = f.write, !.append = f.append, !.text = ~f.binary]
    <3>1. e.desc = s
      BY <1>1, <2>1, EntryForHas
    <3>2. table'[t][fd] = e /\ names'[path] = i
      BY <2>2, <2>9, InvTypes DEF WithEntry, Named
    <3>3. e = [NoEntry EXCEPT !.desc = s, !.path = path, !.readable = f.read,
                              !.writable = f.write, !.append = f.append, !.text = ~f.binary]
      <4>1. (f.write \/ f.append) = f.write
        BY <1>1 DEF OpenFlags
      <4> QED
        BY <4>1, Zenon DEF EntryFor
    <3> QED
      BY <3>1, <3>2, <3>3
  <2>14. stream[s] = Closed
    BY <2>1, <2>5 DEF Good, StreamsHeld
  <2>15. at \in (IF f.append THEN {0, Len(Contents[i])} ELSE {0})
    BY <1>1, <2>11 DEF Starts
  <2>16. IF names[path] # 0 THEN ~(f.create /\ f.exclusive) /\ names' = names
         ELSE f.create /\ (\A p \in Paths : names[p] # names'[path]) /\ (\A x \in Streams : stream[x].ino # names'[path])
    <3>1. CASE names[path] # 0
      <4>1. names[path] = i
        BY <2>3, <3>1
      <4>2. names' = names
        BY <2>9, <4>1, InvTypes DEF Named
      <4> QED
        BY <1>5, <3>1, <4>2
    <3>2. CASE names[path] = 0
      <4>1. Fresh(names, stream, i)
        BY <2>3, <3>2, FileBounds
      <4> QED
        BY <1>1, <1>5, <2>13, <3>2, <4>1 DEF Fresh
    <3> QED
      BY <3>1, <3>2
  <2>17. Posix!Keeps([table EXCEPT ![t][fd] = e], [names EXCEPT ![path] = i],
                     [Contents EXCEPT ![i] = IF f.write /\ f.truncate THEN << >> ELSE @],
                     [stream EXCEPT ![e.desc] = [ino |-> i, append |-> f.append, pos |-> at]])
    BY <2>12, <2>13 DEF WithEntry, Named, Emptied, WithStream
  <2>18. Posix!Open(t, path, f)
    <3>1. fd = Posix!Least(Posix!FreeFds(t)) /\ Posix!FreeFds(t) # {}
      BY <1>2, PosixFreeFds
    <3>2. /\ i # 0 /\ stream[e.desc] = Posix!Free /\ table'[t][fd].desc = s /\ reply' = <<"fd", fd>>
      BY <2>3, <2>13, <2>14, PosixNames, FileBounds
    <3>3. [NoEntry EXCEPT !.desc = table'[t][fd].desc, !.path = path, !.readable = f.read,
                          !.writable = f.write, !.append = f.append, !.text = ~f.binary] = e
      BY <2>13, <3>2
    <3>4. \E at2 \in (IF f.append THEN {0, Len(Contents[i])} ELSE {0}) :
            Posix!Keeps([table EXCEPT ![t][fd] = e], [names EXCEPT ![path] = i],
                        [Contents EXCEPT ![i] = IF f.write /\ f.truncate THEN << >> ELSE @],
                        [stream EXCEPT ![e.desc] = [ino |-> i, append |-> f.append, pos |-> at2]])
      BY <2>15, <2>17
    <3> QED
      BY <2>13, <2>16, <3>1, <3>2, <3>3, <3>4, PosixNames DEF Posix!Open
  <2> QED
    BY <2>10, <2>18 DEF Posix!Opening
<1> QED
  BY <1>3, <1>4, <1>5 DEF Open

-----------------------------------------------------------------------------
(* A load of saved state: the descriptors come back, each with a FILE of   *)
(* its own, at the place it was saved with.                                *)

(* The descriptors a load brings back are numbered from 1, in order. *)
LEMMA NumberIs ==
  ASSUME NEW A \in SUBSET Fds, Cardinality(A) <= Cardinality(Streams)
  PROVE  /\ \A fd \in A : Cardinality({g \in A : g <= fd}) \in Streams
         /\ \A f, g \in A : Cardinality({h \in A : h <= f}) = Cardinality({h \in A : h <= g}) => f = g
<1>1. IsFiniteSet(A) /\ Cardinality(A) \in Nat /\ Cardinality(Streams) \in Nat /\ Streams = 1..Cardinality(Streams)
  BY FileBounds, FS_Subset, FS_CardinalityType
<1> DEFINE upto(fd) == {g \in A : g <= fd}
<1>2. ASSUME NEW fd \in A
      PROVE  IsFiniteSet(upto(fd)) /\ Cardinality(upto(fd)) \in Nat /\ Cardinality(upto(fd)) <= Cardinality(A) /\ fd \in upto(fd)
  <2>1. fd \in Nat
    BY FileBounds
  <2>2. upto(fd) \in SUBSET A /\ fd \in upto(fd)
    BY <2>1
  <2> QED
    BY <1>1, <2>2, FS_Subset, FS_CardinalityType
<1>3. ASSUME NEW fd \in A PROVE Cardinality(upto(fd)) \in Streams
  <2>1. Cardinality(upto(fd)) # 0
    BY <1>2, <1>3, FS_EmptySet
  <2> HIDE DEF upto
  <2> QED
    BY <1>1, <1>2, <1>3, <2>1
<1>4. ASSUME NEW f \in A, NEW g \in A, f < g PROVE Cardinality(upto(f)) # Cardinality(upto(g))
  <2>0. f \in Nat /\ g \in Nat
    BY FileBounds
  <2>1. upto(f) \in SUBSET upto(g)
    <3>1. \A h \in A : h \in Nat
      BY FileBounds
    <3> SUFFICES ASSUME NEW h \in A, h <= f PROVE h <= g
      OBVIOUS
    <3> QED
      BY <1>4, <2>0, <3>1
  <2>2. g \notin upto(f)
    BY <1>4, <2>0
  <2>3. g \in upto(g) /\ IsFiniteSet(upto(g))
    BY <1>2, <1>4
  <2> HIDE DEF upto
  <2> QED
    BY <2>1, <2>2, <2>3, FS_Subset
<1>5. ASSUME NEW f \in A, NEW g \in A, Cardinality(upto(f)) = Cardinality(upto(g)) PROVE f = g
  <2>1. f \in Nat /\ g \in Nat
    BY FileBounds
  <2> QED
    BY <1>4, <1>5, <2>1
<1> QED
  BY <1>3, <1>5

(* What the new process has: w numbers the descriptors A that come back. *)
Back(A, w, tab, fd) == IF fd \in A THEN [tab[1][fd] EXCEPT !.desc = w[fd]] ELSE IF fd = 1 THEN StdOut ELSE NoEntry
BackTable(A, w, tab) == [tab EXCEPT ![1] = [fd \in Fds |-> Back(A, w, tab, fd)]]
BackStream(nam, tab, str, fd) ==
  [ino |-> nam[tab[1][fd].path], append |-> tab[1][fd].append, pos |-> str[tab[1][fd].desc].pos]
BackStreams(A, w, nam, tab, str) ==
  [s \in Streams |-> IF \E fd \in A : w[fd] = s THEN BackStream(nam, tab, str, CHOOSE fd \in A : w[fd] = s) ELSE Closed]
AllEmpty == [s \in Streams |-> Empty]
NoFlags == [t \in Tables |-> [fd \in Fds |-> FALSE]]

(* The descriptors A can be brought back as the FILEs w. *)
Resumes(nam, d, str, buf, tab, wr, A, w) ==
  /\ Good(nam, d, str, buf, tab, wr)
  /\ A \subseteq Fds /\ w \in [A -> Streams] /\ \A f, g \in A : w[f] = w[g] => f = g
  /\ \A fd \in A : tab[1][fd].desc # 0 /\ nam[tab[1][fd].path] # 0
  /\ \A t \in Tables, fd \in Fds : t # 1 => tab[t][fd] = NoEntry
  /\ \A f, g \in A : f # g /\ tab[1][f].writable => nam[tab[1][f].path] # nam[tab[1][g].path]

(* A load keeps the invariant and flushes every buffer. *)
LEMMA ResumedGood ==
  ASSUME NEW nam, NEW d, NEW str, NEW buf, NEW tab, NEW wr, NEW A, NEW w,
         Resumes(nam, d, str, buf, tab, wr, A, w), NEW con \in [Inodes -> Seq(Bytes)]
  PROVE  LET tab2 == BackTable(A, w, tab)
             str2 == BackStreams(A, w, nam, tab, str)
         IN  /\ Good(nam, HeldLeft(nam, tab2, str2, con), str2, AllEmpty, tab2, NoFlags)
             /\ Hold(HeldLeft(nam, tab2, str2, con), str2, AllEmpty) = HeldLeft(nam, tab2, str2, con)
             /\ StreamsLeft(tab2, str2) = str2 /\ BuffersLeft(tab2, AllEmpty) = AllEmpty
             /\ FlagsLeft(tab2, NoFlags) = NoFlags
<1>0. /\ Good(nam, d, str, buf, tab, wr)
      /\ A \subseteq Fds /\ w \in [A -> Streams] /\ \A f, g \in A : w[f] = w[g] => f = g
      /\ \A fd \in A : tab[1][fd].desc # 0 /\ nam[tab[1][fd].path] # 0
      /\ \A t \in Tables, fd \in Fds : t # 1 => tab[t][fd] = NoEntry
      /\ \A f, g \in A : f # g /\ tab[1][f].writable => nam[tab[1][f].path] # nam[tab[1][g].path]
      /\ 1 \in Tables
  BY FileBounds DEF Resumes
<1> DEFINE tab2 == BackTable(A, w, tab)
           str2 == BackStreams(A, w, nam, tab, str)
           d2 == HeldLeft(nam, tab2, str2, con)
<1>1. Typed(nam, d, str, buf, tab, wr)
  BY <1>0 DEF Good
<1>2. StdOut \in EntryOf /\ StdOut.desc = 0
  BY DEF StdOut, NoEntry, EntryOf
<1>3. ASSUME NEW fd \in A
      PROVE  /\ fd \in Fds /\ tab[1][fd] \in EntryOf /\ tab[1][fd].desc \in Streams /\ tab[1][fd].path \in Paths
             /\ nam[tab[1][fd].path] \in Inodes /\ str[tab[1][fd].desc] \in StreamOf /\ w[fd] \in Streams /\ w[fd] # 0
  <2>1. fd \in Fds /\ tab[1][fd] \in EntryOf /\ w[fd] \in Streams
    BY <1>0, <1>1, <1>3 DEF Typed
  <2>2. tab[1][fd].desc \in Streams
    BY <1>0, <1>3, <2>1 DEF EntryOf
  <2>3. tab[1][fd].path \in Paths
    BY <1>0, <1>3, <2>1 DEF Good, EntriesFit, EntryFits
  <2> QED
    BY <1>0, <1>1, <1>3, <2>1, <2>2, <2>3, StreamsArePositive DEF Typed
<1>4. ASSUME NEW fd \in A
      PROVE  LET e == [tab[1][fd] EXCEPT !.desc = w[fd]]
             IN  /\ e \in EntryOf /\ e.desc = w[fd] /\ e.path = tab[1][fd].path /\ e.writable = tab[1][fd].writable
                 /\ BackStream(nam, tab, str, fd) \in StreamOf
                 /\ BackStream(nam, tab, str, fd).ino = nam[tab[1][fd].path]
  <2>1. PICK e \in EntryOf, f \in StreamOf, x \in Streams, i \in Inodes :
          e = tab[1][fd] /\ f = str[e.desc] /\ x = w[fd] /\ i = nam[e.path]
    BY <1>3, <1>4
  <2>2. [e EXCEPT !.desc = x] \in EntryOf /\ [e EXCEPT !.desc = x].desc = x /\ [e EXCEPT !.desc = x].path = e.path
        /\ [e EXCEPT !.desc = x].writable = e.writable
    BY DEF EntryOf
  <2>3. BackStream(nam, tab, str, fd) = [ino |-> i, append |-> e.append, pos |-> f.pos]
    BY <2>1 DEF BackStream
  <2>4. e.append \in BOOLEAN /\ f.pos \in Nat
    BY DEF EntryOf, StreamOf
  <2> QED
    BY <2>1, <2>2, <2>3, <2>4 DEF StreamOf
<1>5. ASSUME NEW s \in Streams
      PROVE  /\ (\E fd \in A : w[fd] = s) => \E fd \in A : w[fd] = s /\ str2[s] = BackStream(nam, tab, str, fd)
             /\ ~(\E fd \in A : w[fd] = s) => str2[s] = Closed
  BY <1>5 DEF BackStreams
<1>6. \A fd \in A : str2[w[fd]] = BackStream(nam, tab, str, fd)
  BY <1>0, <1>3, <1>5
<1>7. /\ \A fd \in Fds : tab2[1][fd] = Back(A, w, tab, fd)
      /\ \A t \in Tables, fd \in Fds : t # 1 => tab2[t][fd] = NoEntry
  BY <1>0, <1>1 DEF BackTable, Typed
<1>8. tab2 \in [Tables -> [Fds -> EntryOf]]
  <2>1. ASSUME NEW fd \in Fds PROVE Back(A, w, tab, fd) \in EntryOf
    BY <1>2, <1>4, EmptyTypes DEF Back
  <2> QED
    BY <1>1, <2>1 DEF BackTable, Typed
<1>9. str2 \in [Streams -> StreamOf]
  <2>1. \A s \in Streams : str2[s] \in StreamOf
    BY <1>4, <1>5, EmptyTypes
  <2> QED
    BY <2>1 DEF BackStreams
<1>10. \A t \in Tables, fd \in Fds : tab2[t][fd].desc # 0 => /\ t = 1 /\ fd \in A
                                                            /\ tab2[t][fd] = [tab[1][fd] EXCEPT !.desc = w[fd]]
  BY <1>2, <1>7, EmptyTypes DEF Back
<1>11. \A fd \in A : tab2[1][fd].desc = w[fd]
  BY <1>3, <1>4, <1>7 DEF Back
<1> HIDE DEF tab2, str2
<1>12. \A s \in Streams : Alive(tab2, s) <=> \E fd \in A : w[fd] = s
  <2> SUFFICES ASSUME NEW s \in Streams PROVE Alive(tab2, s) <=> \E fd \in A : w[fd] = s
    OBVIOUS
  <2>1. ASSUME Alive(tab2, s) PROVE \E fd \in A : w[fd] = s
    <3>1. PICK t \in Tables, fd \in Fds : tab2[t][fd].desc = s
      BY <2>1 DEF Alive
    <3>2. t = 1 /\ fd \in A
      BY <1>10, <3>1, StreamsArePositive
    <3> QED
      BY <1>11, <3>1, <3>2
  <2>2. ASSUME NEW fd \in A, w[fd] = s PROVE Alive(tab2, s)
    BY <1>0, <1>3, <1>11, <2>2 DEF Alive
  <2> QED
    BY <2>1, <2>2
<1>13. AllEmpty \in [Streams -> BufferOf] /\ NoFlags \in [Tables -> [Fds -> BOOLEAN]]
  BY EmptyTypes DEF AllEmpty, NoFlags
<1>14. d2 \in [Inodes -> Seq(Bytes)] /\ \A i \in Inodes : ~Kept(nam, tab2, str2, i) => d2[i] = << >>
  <2>1. << >> \in Seq(Bytes)
    OBVIOUS
  <2> QED
    BY <2>1 DEF HeldLeft
<1> HIDE DEF d2
<1>15. Typed(nam, d2, str2, AllEmpty, tab2, NoFlags)
  BY <1>1, <1>8, <1>9, <1>13, <1>14 DEF Typed
<1>16. \A s \in Streams : AllEmpty[s] = Empty
  BY DEF AllEmpty
<1>17. StreamsHeld(str2, AllEmpty, tab2)
  <2> SUFFICES ASSUME NEW s \in Streams
               PROVE  /\ BufferFits(str2[s], Empty)
                      /\ str2[s].ino = 0 => str2[s] = Closed
                      /\ str2[s].ino # 0 => \E t \in Tables, fd \in Fds : tab2[t][fd].desc = s
    BY <1>16 DEF StreamsHeld
  <2>1. BufferFits(str2[s], Empty)
    <3>1. Empty.pend = << >> /\ Empty.misused = FALSE /\ Len(<< >>) = 0
      BY DEF Empty
    <3>2. str2[s].pos \in Nat
      BY <1>9 DEF StreamOf
    <3> QED
      BY <3>1, <3>2 DEF BufferFits
  <2>2. CASE Alive(tab2, s)
    <3>1. PICK fd \in A : w[fd] = s /\ str2[s] = BackStream(nam, tab, str, fd)
      BY <1>5, <1>12, <2>2
    <3>2. str2[s].ino # 0
      <4>1. BackStream(nam, tab, str, fd).ino = nam[tab[1][fd].path]
        BY <1>4
      <4>2. nam[tab[1][fd].path] # 0
        BY <1>0
      <4> QED
        BY <3>1, <4>1, <4>2
    <3> QED
      BY <2>1, <2>2, <3>2 DEF Alive
  <2>3. CASE ~Alive(tab2, s)
    BY <1>5, <1>12, <2>1, <2>3, EmptyTypes
  <2> QED
    BY <2>2, <2>3
<1>18. Gone(nam, d2, str2)
  BY <1>14 DEF Gone, Kept
<1>19. ASSUME NEW fd \in A, NEW e, e = [tab[1][fd] EXCEPT !.desc = w[fd]]
       PROVE  e.desc = w[fd] /\ e.path = tab[1][fd].path /\ e.path \in Paths /\ e.writable = tab[1][fd].writable
              /\ str2[e.desc].ino = nam[tab[1][fd].path] /\ str2[e.desc].ino # 0
  BY <1>0, <1>3, <1>4, <1>6, <1>19
<1>20. EntriesFit(str2, AllEmpty, tab2, NoFlags)
  <2> SUFFICES ASSUME NEW t \in Tables, NEW fd \in Fds PROVE EntryFits(str2, AllEmpty, tab2[t][fd], NoFlags[t][fd])
    BY DEF EntriesFit
  <2>1. ~NoFlags[t][fd]
    BY DEF NoFlags
  <2>2. CASE tab2[t][fd].desc = 0
    BY <2>1, <2>2 DEF EntryFits
  <2>3. CASE tab2[t][fd].desc # 0
    <3> PICK e : e = tab2[t][fd]
      OBVIOUS
    <3>1. fd \in A /\ e = [tab[1][fd] EXCEPT !.desc = w[fd]]
      BY <1>10, <2>3
    <3>2. e.desc \in Streams /\ e.path \in Paths /\ str2[e.desc].ino # 0
      BY <1>3, <1>19, <3>1
    <3>3. AllEmpty[e.desc] = Empty
      BY <1>16, <3>2
    <3>4. DirectionFits(e, Empty, NoFlags[t][fd])
      BY <2>1, EmptyTypes DEF DirectionFits
    <3> QED
      BY <2>3, <3>2, <3>3, <3>4 DEF EntryFits
  <2> QED
    BY <2>2, <2>3
<1>21. EntriesAgree(str2, tab2)
  <2> SUFFICES ASSUME NEW t \in Tables, NEW u \in Tables, NEW fd \in Fds, NEW gd \in Fds,
                      tab2[t][fd].desc # 0, tab2[u][gd].desc # 0
               PROVE  Agree(str2, tab2[t][fd], tab2[u][gd])
    BY DEF EntriesAgree, Agree
  <2>1. PICK e, g : e = tab2[t][fd] /\ g = tab2[u][gd]
    OBVIOUS
  <2>2. /\ fd \in A /\ e = [tab[1][fd] EXCEPT !.desc = w[fd]]
        /\ gd \in A /\ g = [tab[1][gd] EXCEPT !.desc = w[gd]]
    BY <1>10, <2>1
  <2>3. e.desc = w[fd] /\ e.writable = tab[1][fd].writable /\ str2[e.desc].ino = nam[tab[1][fd].path]
    BY <1>19, <2>2
  <2>4. g.desc = w[gd] /\ str2[g.desc].ino = nam[tab[1][gd].path]
    BY <1>19, <2>2
  <2>5. w[fd] = w[gd] => fd = gd
    BY <1>0, <2>2
  <2>6. fd # gd /\ tab[1][fd].writable => nam[tab[1][fd].path] # nam[tab[1][gd].path]
    BY <1>0, <2>2
  <2>7. fd = gd => e = g
    BY <2>2
  <2> HIDE <2>2
  <2>8. Agree(str2, e, g)
    BY <2>3, <2>4, <2>5, <2>6, <2>7 DEF Agree
  <2> QED
    BY <2>1, <2>8
<1>22. Good(nam, d2, str2, AllEmpty, tab2, NoFlags)
  BY <1>15, <1>17, <1>18, <1>20, <1>21 DEF Good
<1>23. Hold(d2, str2, AllEmpty) = d2
  <2>1. \A i \in Inodes : Waiting(str2, AllEmpty, i) = {}
    BY <1>16, EmptyTypes DEF Waiting
  <2>2. \A i \in Inodes : Hold(d2, str2, AllEmpty)[i] = d2[i]
    BY <2>1, HoldNone
  <2>3. PICK h : h = Hold(d2, str2, AllEmpty)
    OBVIOUS
  <2>4. h = [i \in Inodes |-> h[i]] /\ d2 = [i \in Inodes |-> d2[i]]
    BY <1>14, <2>3 DEF Hold
  <2> QED
    BY <2>2, <2>3, <2>4
<1>24. StreamsLeft(tab2, str2) = str2 /\ BuffersLeft(tab2, AllEmpty) = AllEmpty /\ FlagsLeft(tab2, NoFlags) = NoFlags
  <2>1. StreamsLeft(tab2, str2) = str2
    BY <1>22, NothingToClose
  <2>2. BuffersLeft(tab2, AllEmpty) = AllEmpty
    BY <1>16 DEF BuffersLeft, AllEmpty
  <2>3. FlagsLeft(tab2, NoFlags) = NoFlags
    BY DEF FlagsLeft, NoFlags
  <2> QED
    BY <2>1, <2>2, <2>3
<1> QED
  BY <1>22, <1>23, <1>24 DEF d2, tab2, str2

(* That is what a load does, *)
LEMMA ResumeIs ==
  ASSUME FilesInv, Resume, NEW A, A = {fd \in Fds : Rejoined(fd)},
         NEW w, w = [fd \in A |-> Cardinality({g \in A : g <= fd})]
  PROVE  /\ Resumes(names, disk, stream, buffer, table, wrote, A, w)
         /\ reply' = <<"ok">>
         /\ Adopt(BackTable(A, w, table), NoFlags, names, Contents, BackStreams(A, w, names, table, stream), AllEmpty)
<1> DEFINE own(fd) == Cardinality({g \in A : g <= fd})
           entry(fd) == IF fd \in A THEN [table[1][fd] EXCEPT !.desc = own(fd)]
                        ELSE IF fd = 1 THEN StdOut ELSE NoEntry
           rejoin(s) == LET e == table[1][CHOOSE fd \in A : own(fd) = s]
                        IN  [ino |-> names[e.path], append |-> e.append, pos |-> stream[e.desc].pos]
<1>1. /\ \A t \in Tables : t # 1 => ~Running(t)
      /\ Cardinality(A) <= Cardinality(Streams)
      /\ \A f, g \in A : f # g /\ (table[1][f].writable \/ table[1][g].writable)
                             => names[table[1][f].path] # names[table[1][g].path]
      /\ reply' = <<"ok">>
      /\ Adopt([table EXCEPT ![1] = [fd \in Fds |-> entry(fd)]], [t \in Tables |-> [fd \in Fds |-> FALSE]],
               names, Contents, [s \in Streams |-> IF \E fd \in A : own(fd) = s THEN rejoin(s) ELSE Closed],
               [s \in Streams |-> Empty])
  BY Zenon DEF Resume
<1>2. A \subseteq Fds /\ \A fd \in A : table[1][fd].desc # 0 /\ names[table[1][fd].path] # 0
  BY DEF Rejoined, FileFd
<1>3. /\ \A fd \in A : own(fd) \in Streams
      /\ \A f, g \in A : own(f) = own(g) => f = g
  BY <1>1, <1>2, NumberIs
<1>4. \A fd \in A : w[fd] = own(fd)
  OBVIOUS
<1>5. w \in [A -> Streams]
  BY <1>3
<1> HIDE DEF own
<1>6. \A f, g \in A : w[f] = w[g] => f = g
  BY <1>3, <1>4
<1>7. \A t \in Tables, fd \in Fds : t # 1 => table[t][fd] = NoEntry
  BY <1>1 DEF Running, Valid
<1>8. Resumes(names, disk, stream, buffer, table, wrote, A, w)
  BY <1>1, <1>2, <1>5, <1>6, <1>7 DEF Resumes, FilesInv
<1>9. [table EXCEPT ![1] = [fd \in Fds |-> entry(fd)]] = BackTable(A, w, table)
  <2>1. \A fd \in Fds : entry(fd) = Back(A, w, table, fd)
    BY <1>4 DEF Back
  <2> HIDE DEF entry
  <2>2. [fd \in Fds |-> entry(fd)] = [fd \in Fds |-> Back(A, w, table, fd)]
    BY <2>1
  <2> QED
    BY <2>2 DEF BackTable
<1>10. [s \in Streams |-> IF \E fd \in A : own(fd) = s THEN rejoin(s) ELSE Closed]
         = BackStreams(A, w, names, table, stream)
  <2>1. ASSUME NEW s \in Streams
        PROVE  (IF \E fd \in A : own(fd) = s THEN rejoin(s) ELSE Closed)
                 = (IF \E fd \in A : w[fd] = s THEN BackStream(names, table, stream, CHOOSE fd \in A : w[fd] = s) ELSE Closed)
    <3>1. CASE \E fd \in A : own(fd) = s
      <4>1. PICK x \in A : own(x) = s
        BY <3>1
      <4>2. (CHOOSE fd \in A : own(fd) = s) = x
        BY <1>3, <4>1
      <4>3. (CHOOSE fd \in A : w[fd] = s) = x
        BY <1>4, <1>6, <4>1
      <4>4. rejoin(s) = BackStream(names, table, stream, x)
        BY <4>2 DEF BackStream
      <4> QED
        BY <1>4, <4>1, <4>3, <4>4
    <3>2. CASE ~\E fd \in A : own(fd) = s
      BY <1>4, <3>2
    <3> QED
      BY <3>1, <3>2
  <2> HIDE DEF rejoin
  <2> QED
    BY <2>1 DEF BackStreams
<1>11. Adopt(BackTable(A, w, table), NoFlags, names, Contents, BackStreams(A, w, names, table, stream), AllEmpty)
  BY <1>1, <1>9, <1>10, Zenon DEF NoFlags, AllEmpty
<1> QED
  BY <1>1, <1>8, <1>11

(* and it is what is promised of it. *)
LEMMA ResumeKeeps ==
  ASSUME FilesInv, Resume
  PROVE  FilesInv' /\ Posix!Processes
<1> PICK A : A = {fd \in Fds : Rejoined(fd)}
  OBVIOUS
<1> PICK w : w = [fd \in A |-> Cardinality({g \in A : g <= fd})]
  OBVIOUS
<1>1. /\ Resumes(names, disk, stream, buffer, table, wrote, A, w)
      /\ reply' = <<"ok">>
      /\ Adopt(BackTable(A, w, table), NoFlags, names, Contents, BackStreams(A, w, names, table, stream), AllEmpty)
  BY ResumeIs
<1> PICK nam, d, str, buf, tab, wr, con : /\ nam = names /\ d = disk /\ str = stream /\ buf = buffer
                                          /\ tab = table /\ wr = wrote /\ con = Contents
  OBVIOUS
<1> DEFINE tab2 == BackTable(A, w, tab)
           str2 == BackStreams(A, w, nam, tab, str)
           d2 == HeldLeft(nam, tab2, str2, con)
<1>2. con \in [Inodes -> Seq(Bytes)]
  <2>1. con = Hold(d, str, buf) /\ Good(nam, d, str, buf, tab, wr)
    BY ContentsAreHeld DEF FilesInv
  <2>2. \A i \in Inodes : con[i] \in Seq(Bytes)
    BY <2>1, HoldType
  <2>3. con = [i \in Inodes |-> con[i]]
    BY <2>1 DEF Hold
  <2> QED
    BY <2>2, <2>3
<1>3. /\ Good(nam, d2, str2, AllEmpty, tab2, NoFlags)
      /\ Hold(d2, str2, AllEmpty) = d2
      /\ StreamsLeft(tab2, str2) = str2 /\ BuffersLeft(tab2, AllEmpty) = AllEmpty
      /\ FlagsLeft(tab2, NoFlags) = NoFlags
  <2>1. Resumes(nam, d, str, buf, tab, wr, A, w)
    BY <1>1
  <2> QED
    BY <1>2, <2>1, ResumedGood
<1>4. DiskLeft(nam, tab2, str2, con, con) = d2
  <2> HIDE DEF tab2, str2
  <2> QED
    BY DEF DiskLeft, HeldLeft
<1>5. Adopt(tab2, NoFlags, nam, con, str2, AllEmpty)
  BY <1>1
<1> HIDE DEF tab2, str2, d2
<1>6. /\ table' = tab2 /\ names' = nam /\ wrote' = FlagsLeft(tab2, NoFlags)
      /\ stream' = StreamsLeft(tab2, str2) /\ buffer' = BuffersLeft(tab2, AllEmpty)
      /\ disk' = DiskLeft(nam, tab2, str2, con, Contents)
  BY <1>5, AdoptIs
<1>7. /\ table' = tab2 /\ names' = nam /\ wrote' = NoFlags /\ stream' = str2 /\ buffer' = AllEmpty /\ disk' = d2
  BY <1>3, <1>4, <1>6
<1>8. FilesInv'
  BY <1>3, <1>7 DEF FilesInv
<1>9. Contents' = d2
  BY <1>3, <1>7, ContentsAreHeld
<1>10. Posix!Keeps(tab2, nam, con, str2)
  BY <1>3, <1>7, <1>9, KeepsIs DEF d2
<1>11. A = {fd \in Fds : fd > 2 /\ table[1][fd].desc # 0 /\ names[table[1][fd].path] # 0}
  BY DEF Rejoined, FileFd
<1>12. w \in [A -> Streams] /\ \A f, g \in A : f # g => w[f] # w[g]
  BY <1>1 DEF Resumes
<1>13. Posix!Resume
  <2>1. tab2 = [table EXCEPT ![1] = [fd \in Fds |-> IF fd \in A THEN [table[1][fd] EXCEPT !.desc = w[fd]]
                                                    ELSE IF fd = 1 THEN StdOut ELSE NoEntry]]
    BY Zenon DEF tab2, BackTable, Back
  <2>2. str2 = [s \in Streams |-> IF \E fd \in A : w[fd] = s
                                  THEN LET e == table[1][CHOOSE fd \in A : w[fd] = s]
                                       IN  [ino |-> names[e.path], append |-> e.append, pos |-> stream[e.desc].pos]
                                  ELSE Closed]
    BY Zenon DEF str2, BackStreams, BackStream
  <2>3. Posix!Keeps([table EXCEPT ![1] = [fd \in Fds |-> IF fd \in A THEN [table[1][fd] EXCEPT !.desc = w[fd]]
                                                         ELSE IF fd = 1 THEN Posix!StdOut ELSE Posix!NoEntry]],
                    names, Contents,
                    [s \in Streams |-> IF \E fd \in A : w[fd] = s
                                       THEN LET e == table[1][CHOOSE fd \in A : w[fd] = s]
                                            IN  [ino |-> names[e.path], append |-> e.append, pos |-> stream[e.desc].pos]
                                       ELSE Posix!Free])
    BY <1>10, <2>1, <2>2, PosixNames
  <2> QED
    BY <1>1, <1>11, <1>12, <2>3, Zenon DEF Posix!Resume
<1> QED
  BY <1>1, <1>8, <1>13 DEF Posix!Processes

-----------------------------------------------------------------------------
(* Every step, and the theorems.                                           *)

(* A buffer handed to the host. *)
Spilled(buf, s) == [buf EXCEPT ![s].pend = << >>]

(* The host may hand bytes on at any time: nobody can tell. *)
LEMMA SpillGood ==
  ASSUME NEW nam, NEW d, NEW str, NEW buf, NEW tab, NEW wr, Good(nam, d, str, buf, tab, wr),
         NEW s \in Streams, buf[s].pend # << >>
  PROVE  LET d2 == Settled(d, str[s], buf[s])
             buf2 == Spilled(buf, s)
         IN  Good(nam, d2, str, buf2, tab, wr) /\ Hold(d2, str, buf2) = Hold(d, str, buf)
<1>1. Typed(nam, d, str, buf, tab, wr)
  BY DEF Good
<1>2. str[s].ino # 0
  BY EmptyTypes DEF Good, StreamsHeld
<1>a. Waiting(str, buf, str[s].ino) \subseteq {s}
  BY <1>2, OnePending
<1> PICK t \in Tables, fd \in Fds : tab[t][fd].desc = s
  BY <1>2 DEF Good, StreamsHeld
<1> PICK f \in StreamOf : f = str[s]
  BY <1>1 DEF Typed
<1> PICK b \in BufferOf : b = buf[s]
  BY <1>1 DEF Typed
<1> PICK i \in Inodes : i = f.ino
  BY <1>2 DEF StreamOf
<1> DEFINE c == ContextOf(d, str, buf, tab, wr, t, fd)
           d2 == Settled(d, f, b)
           b2 == [b EXCEPT !.pend = << >>]
           buf2 == [buf EXCEPT ![s] = b2]
<1>3. Ready(c) /\ c.d = d /\ c.f = f /\ c.b = b /\ Hold(d, str, buf)[i] = View(c)
  <2>1. tab[t][fd].desc # 0
    BY StreamsArePositive
  <2> QED
    BY <2>1, ContextReady
<1>4. View(c) \in Seq(Bytes) /\ d2 = [d EXCEPT ![i] = View(c)]
  <2>1. IsContext(c)
    BY <1>3 DEF Ready
  <2>2. View(c) \in Seq(Bytes) /\ Settled(c.d, c.f, c.b) = [c.d EXCEPT ![c.f.ino] = View(c)]
    BY <2>1, ViewIs
  <2> HIDE DEF c
  <2> QED
    BY <1>3, <2>2
<1> HIDE DEF c
<1>5. d2 \in [Inodes -> Seq(Bytes)] /\ d2[i] = View(c) /\ \A j \in Inodes : j # i => d2[j] = d[j]
  BY <1>1, <1>4 DEF Typed
<1>6. b2 \in BufferOf /\ b2.pend = << >> /\ b2.dir = b.dir /\ b2.misused = b.misused
  <2>1. << >> \in Seq(Bytes)
    OBVIOUS
  <2> QED
    BY <2>1 DEF BufferOf
<1> HIDE DEF b2
<1>7. buf2 \in [Streams -> BufferOf] /\ buf2[s] = b2 /\ \A x \in Streams : x # s => buf2[x] = buf[x]
  BY <1>1, <1>6 DEF Typed
<1> HIDE DEF d2, buf2
<1>8. Typed(nam, d2, str, buf2, tab, wr)
  BY <1>1, <1>5, <1>7 DEF Typed
<1>9. StreamsHeld(str, buf2, tab)
  <2> SUFFICES ASSUME NEW x \in Streams
               PROVE  /\ BufferFits(str[x], buf2[x])
                      /\ str[x].ino = 0 => str[x] = Closed /\ buf2[x] = Empty
                      /\ str[x].ino # 0 => \E u \in Tables, gd \in Fds : tab[u][gd].desc = x
    BY DEF StreamsHeld
  <2>1. /\ BufferFits(str[x], buf[x])
        /\ str[x].ino = 0 => str[x] = Closed /\ buf[x] = Empty
        /\ str[x].ino # 0 => \E u \in Tables, gd \in Fds : tab[u][gd].desc = x
    BY DEF Good, StreamsHeld
  <2>2. CASE x = s
    <3>1. BufferFits(f, b2)
      <4>1. Len(<< >>) = 0 /\ f.pos \in Nat
        BY DEF StreamOf
      <4> QED
        BY <1>6, <2>1, <2>2, <4>1 DEF BufferFits
    <3> QED
      BY <1>2, <1>7, <2>1, <2>2, <3>1
  <2>3. CASE x # s
    BY <1>7, <2>1, <2>3
  <2> QED
    BY <2>2, <2>3
<1>10. Gone(nam, d2, str)
  BY <1>5 DEF Gone, Good
<1>11. EntriesFit(str, buf2, tab, wr)
  <2> SUFFICES ASSUME NEW u \in Tables, NEW gd \in Fds PROVE EntryFits(str, buf2, tab[u][gd], wr[u][gd])
    BY DEF EntriesFit
  <2> PICK e : e = tab[u][gd]
    OBVIOUS
  <2>1. EntryFits(str, buf, e, wr[u][gd]) /\ e \in EntryOf
    BY <1>1 DEF Good, EntriesFit, Typed
  <2>2. e.desc # 0 => e.desc \in Streams
    BY <2>1 DEF EntryOf
  <2>3. e.desc # 0 => buf2[e.desc].dir = buf[e.desc].dir
    BY <1>6, <1>7, <2>2
  <2> QED
    BY <2>1, <2>3 DEF EntryFits, DirectionFits
<1>12. Good(nam, d2, str, buf2, tab, wr)
  BY <1>8, <1>9, <1>10, <1>11 DEF Good
<1>13. Hold(d2, str, buf2)[i] = Hold(d, str, buf)[i]
  <2>1. Waiting(str, buf, i) \subseteq {s}
    BY <1>a
  <2>2. Waiting(str, buf2, i) = {}
    BY <1>6, <1>7, <2>1 DEF Waiting
  <2> QED
    BY <1>3, <1>5, <2>2, HoldNone
<1>14. ASSUME NEW j \in Inodes, j # i PROVE Hold(d2, str, buf2)[j] = Hold(d, str, buf)[j]
  <2>1. Waiting(str, buf2, j) = Waiting(str, buf, j)
    BY <1>7, <1>14 DEF Waiting
  <2>2. \A x \in Waiting(str, buf, j) : buf2[x] = buf[x]
    BY <1>7, <1>14 DEF Waiting
  <2>3. SameOf(j, d, str, buf, d2, str, buf2)
    BY <1>1, <1>5, <1>14, <2>1, <2>2 DEF SameOf, Typed
  <2> QED
    BY <1>14, <2>3, HoldSame
<1>15. Hold(d2, str, buf2) = Hold(d, str, buf)
  <2>1. PICK h, h2 : h = Hold(d, str, buf) /\ h2 = Hold(d2, str, buf2)
    OBVIOUS
  <2>2. h = [j \in Inodes |-> h[j]] /\ h2 = [j \in Inodes |-> h2[j]]
    BY <2>1 DEF Hold
  <2> QED
    BY <1>13, <1>14, <2>1, <2>2
<1>16. Spilled(buf, s) = buf2
  BY DEF buf2, b2, Spilled
<1> QED
  BY <1>12, <1>15, <1>16 DEF d2

(* No step of the promise's. *)
LEMMA SpillKeeps ==
  ASSUME FilesInv, NEW s \in Streams, Spill(s)
  PROVE  FilesInv' /\ UNCHANGED Posix!vars
<1>1. /\ buffer[s].pend # << >> /\ disk' = Settled(disk, stream[s], buffer[s])
      /\ buffer' = [buffer EXCEPT ![s].pend = << >>]
      /\ UNCHANGED <<names, stream, table, wrote, reply>>
  BY DEF Spill
<1> PICK nam, d, str, buf, tab, wr : /\ nam = names /\ d = disk /\ str = stream /\ buf = buffer
                                     /\ tab = table /\ wr = wrote
  OBVIOUS
<1> PICK d2, buf2 : d2 = Settled(d, str[s], buf[s]) /\ buf2 = Spilled(buf, s)
  OBVIOUS
<1>0. buffer' = buf2
  BY <1>1 DEF Spilled
<1>2. Good(nam, d2, str, buf2, tab, wr) /\ Hold(d2, str, buf2) = Hold(d, str, buf)
  BY <1>1, SpillGood DEF FilesInv
<1>3. FilesInv'
  BY <1>0, <1>1, <1>2 DEF FilesInv
<1>4. Contents' = Contents
  BY <1>0, <1>1, <1>2, ContentsAreHeld
<1> QED
  BY <1>1, <1>3, <1>4 DEF Posix!vars

(* The start. *)
LEMMA InitIsGood ==
  ASSUME Init
  PROVE  FilesInv /\ Posix!Init
<1>1. /\ names \in [Paths -> {0, 1}] /\ \A p, q \in Paths : p # q => names[p] = 0 \/ names[q] = 0
      /\ disk = [i \in Inodes |-> IF \E p \in Paths : names[p] = i THEN <<"x">> ELSE << >>]
      /\ stream = [s \in Streams |-> Closed] /\ buffer = [s \in Streams |-> Empty]
      /\ wrote = [t \in Tables |-> [fd \in Fds |-> FALSE]]
      /\ table = [t \in Tables |-> [fd \in Fds |-> IF t = 1 /\ fd = 1 THEN StdOut ELSE NoEntry]]
      /\ reply = <<"ok">>
  BY DEF Init
<1>2. StdOut \in EntryOf /\ StdOut.desc = 0
  BY DEF StdOut, NoEntry, EntryOf
<1>3. Typed(names, disk, stream, buffer, table, wrote)
  <2>1. names \in [Paths -> Inodes \cup {0}]
    BY <1>1, FileBounds
  <2>2. disk \in [Inodes -> Seq(Bytes)]
    <3>1. << >> \in Seq(Bytes) /\ <<"x">> \in Seq(Bytes)
      BY DEF Bytes
    <3> QED
      BY <1>1, <3>1
  <2>3. stream \in [Streams -> StreamOf] /\ buffer \in [Streams -> BufferOf]
    BY <1>1, EmptyTypes
  <2>4. table \in [Tables -> [Fds -> EntryOf]]
    BY <1>1, <1>2, EmptyTypes
  <2>5. wrote \in [Tables -> [Fds -> BOOLEAN]]
    BY <1>1
  <2> QED
    BY <2>1, <2>2, <2>3, <2>4, <2>5 DEF Typed
<1>4. \A t \in Tables, fd \in Fds : table[t][fd].desc = 0 /\ ~wrote[t][fd]
  BY <1>1, <1>2, EmptyTypes
<1>5. \A s \in Streams : stream[s] = Closed /\ buffer[s] = Empty
  BY <1>1
<1>6. StreamsHeld(stream, buffer, table)
  BY <1>5, EmptyTypes DEF StreamsHeld
<1>7. Gone(names, disk, stream)
  BY <1>1 DEF Gone
<1>8. EntriesFit(stream, buffer, table, wrote)
  BY <1>4 DEF EntriesFit, EntryFits
<1>9. EntriesAgree(stream, table)
  BY <1>4 DEF EntriesAgree, Agree
<1>10. FilesInv
  BY <1>3, <1>6, <1>7, <1>8, <1>9 DEF FilesInv, Good
<1>11. Contents = disk
  <2>1. \A i \in Inodes : Waiting(stream, buffer, i) = {}
    BY <1>5, EmptyTypes DEF Waiting
  <2>2. \A i \in Inodes : Hold(disk, stream, buffer)[i] = disk[i]
    BY <2>1, HoldNone
  <2>3. PICK h : h = Hold(disk, stream, buffer)
    OBVIOUS
  <2>4. h = [i \in Inodes |-> h[i]] /\ disk = [i \in Inodes |-> disk[i]]
    BY <1>3, <2>3 DEF Hold, Typed
  <2> QED
    BY <2>2, <2>3, <2>4, ContentsAreHeld
<1>12. Posix!Init
  BY <1>1, <1>11, PosixNames DEF Posix!Init
<1> QED
  BY <1>10, <1>12

(* Every step. *)
LEMMA NextKeeps ==
  ASSUME FilesInv, SpellingsAsAsked, Crossing = FALSE, [Next]_vars
  PROVE  FilesInv' /\ [Posix!Next]_(Posix!vars)
<1>1. CASE UNCHANGED vars
  <2>1. UNCHANGED <<names, disk, stream, buffer, table, wrote, reply>>
    BY <1>1 DEF vars
  <2>2. Contents' = Contents
    BY <2>1, ContentsAreHeld
  <2>3. FilesInv'
    BY <2>1 DEF FilesInv
  <2> QED
    BY <2>1, <2>2, <2>3 DEF Posix!vars
<1>2. ASSUME NEW t \in Tables, NEW p \in Paths, NEW f \in Spellings, Open(t, p, f) PROVE FilesInv' /\ Posix!Next
  BY <1>2, OpenKeeps DEF Posix!Next
<1>3. ASSUME NEW t \in Tables, NEW fd \in Fds, Close(t, fd) PROVE FilesInv' /\ Posix!Next
  BY <1>3, CloseKeeps DEF Posix!Next
<1>4. ASSUME NEW t \in Tables, NEW fd \in Fds, Transfer(t, fd) PROVE FilesInv' /\ Posix!Next
  BY <1>4, TransferKeeps DEF Posix!Next
<1>5. ASSUME NEW t \in Tables, NEW fd \in Fds, Position(t, fd) PROVE FilesInv' /\ Posix!Next
  BY <1>5, PositionKeeps DEF Posix!Next
<1>6. ASSUME NEW t \in Tables, NEW fd \in Fds, Sizing(t, fd) PROVE FilesInv' /\ Posix!Next
  BY <1>6, SizingKeeps DEF Posix!Next
<1>7. ASSUME NEW t \in Tables, NEW fd \in Fds, OnStdOut(t, fd) PROVE FilesInv' /\ Posix!Next
  BY <1>7, ConsoleKeeps DEF Posix!Next
<1>8. ASSUME NEW t \in Tables, NEW fd \in Fds, NEW to \in Fds \cup {0}, Dup(t, fd, to) PROVE FilesInv' /\ Posix!Next
  BY <1>8, DupKeeps DEF Posix!Next
<1>9. ASSUME NEW t \in Tables, NEW u \in Tables, Fork(t, u) PROVE FilesInv' /\ Posix!Next
  BY <1>9, ForkKeeps DEF Posix!Next
<1>10. ASSUME NEW t \in Tables, NEW u \in Tables, NEW fd \in Fds, Install(t, fd, u) PROVE FilesInv' /\ Posix!Next
  BY <1>10, InstallKeeps DEF Posix!Next
<1>11. ASSUME NEW t \in Tables, Exit(t) PROVE FilesInv' /\ Posix!Next
  BY <1>11, ExitKeeps DEF Posix!Next
<1>12. ASSUME NEW p \in Paths, Remove(p) PROVE FilesInv' /\ Posix!Next
  BY <1>12, RemoveKeeps DEF Posix!Next
<1>13. ASSUME NEW p \in Paths, NEW q \in Paths, Rename(p, q) PROVE FilesInv' /\ Posix!Next
  BY <1>13, RenameKeeps DEF Posix!Next
<1>14. ASSUME NEW s \in Streams, Spill(s) PROVE FilesInv' /\ UNCHANGED Posix!vars
  BY <1>14, SpillKeeps
<1>15. CASE Resume
  BY <1>15, ResumeKeeps DEF Posix!Next
<1>16. CASE Next
  BY <1>2, <1>3, <1>4, <1>5, <1>6, <1>7, <1>8, <1>9, <1>10, <1>11, <1>12, <1>13, <1>14, <1>15, <1>16 DEF Next
<1> QED
  BY <1>1, <1>16

(* In every reachable state a FILE is open exactly while a descriptor refers to it, has bytes *)
(* waiting only towards the disk and only if its descriptors may write, and a file that is     *)
(* written is open through one FILE: what the descriptor table of the code relies on.          *)
THEOREM FilesStayGood ==
  ASSUME SpellingsAsAsked, Crossing = FALSE
  PROVE  Spec => []FilesInv
<1>1. Init => FilesInv
  BY InitIsGood
<1>2. FilesInv /\ [Next]_vars => FilesInv'
  BY NextKeeps
<1> QED
  BY <1>1, <1>2, PTL DEF Spec

(* The guest sees files without buffers: every call of the descriptor table answers and leaves *)
(* the files as POSIX's would, what the FILEs behind it hold back included, and no transfer    *)
(* turns a FILE's direction without the seek C asks for.                                       *)
THEOREM FilesHaveNoBuffers ==
  ASSUME SpellingsAsAsked, Crossing = FALSE
  PROVE  Spec => StreamsAreSound
<1>1. Init => Posix!Init
  BY InitIsGood
<1>2. FilesInv /\ [Next]_vars => [Posix!Next]_(Posix!vars)
  BY NextKeeps
<1>3. FilesInv => DirectionIsTracked
  BY DEF FilesInv, Good, StreamsHeld, BufferFits, DirectionIsTracked
<1> QED
  BY <1>1, <1>2, <1>3, FilesStayGood, PTL DEF Spec, StreamsAreSound, FilesArePosix, Posix!Spec

=============================================================================
