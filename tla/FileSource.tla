----------------------------- MODULE FileSource -----------------------------
(***************************************************************************)
(* The paged, double-buffered file reader (FileSource.h), with its         *)
(* lifetime: construction, reads that refill a buffer, release_before on a *)
(* cut, moves between owners (FileSourceSource) and destruction.           *)
(*                                                                         *)
(* Sizes are in items.  The stream is the file's content and a position;   *)
(* fread delivers what the file still has.  An element of m_buf no fread   *)
(* has written is Garbage.                                                 *)
(***************************************************************************)
EXTENDS Integers, Sequences

CONSTANTS
  PageSize,   \* items per buffer
  Files,      \* the possible contents, sequences of items
  Objs,       \* names for FileSource objects
  None,       \* no object, or no name
  Garbage     \* an uninitialised array element

(* struct buffer and the members of FileSource; m_fp is whether the object *)
(* holds the FILE pointer.                                                 *)

Buffers ==
  [m_buf : [0..(PageSize - 1) -> Int], m_valid_count : Nat,
   m_buf_from : Nat, m_buf_to : Nat]

Sources ==
  [m_filesize : Nat, m_bufs : [{0, 1} -> Buffers], m_current_buf : {0, 1},
   m_fp : BOOLEAN]

ASSUME FileSourceAssumption ==
  /\ PageSize \in Nat \ {0}
  /\ \A f \in Files : f \in Seq(Int)
  /\ Garbage \in Int
  /\ None \notin Sources \cup Objs

VARIABLES
  file,   \* content of the file
  obj,    \* obj[o]: the FileSource object named o, or None
  fpos,   \* position of the open stream, or -1 while no stream is open
  opening, \* the object whose constructor is past its fopen, or None
  got     \* what the last get answered

vars == <<file, obj, fpos, opening, got>>

Abstract == INSTANCE InputSource WITH out <- got

Size == Len(file)

-----------------------------------------------------------------------------
(* struct buffer.                                                          *)

NewBuffer ==
  [m_buf |-> [k \in 0..(PageSize - 1) |-> Garbage],
   m_valid_count |-> 0, m_buf_from |-> 0, m_buf_to |-> 0]

\* fread of PageSize items at stream position pos: how many arrive.
Delivered(pos) ==
  IF pos >= Size THEN 0
  ELSE IF Size - pos < PageSize THEN Size - pos ELSE PageSize

\* buffer::read with the stream at pos; items beyond the delivered ones keep
\* their old value.
read(buf, pos) ==
  [m_buf |-> [k \in 0..(PageSize - 1) |->
                IF k < Delivered(pos) THEN file[pos + k + 1] ELSE buf.m_buf[k]],
   m_valid_count |-> Delivered(pos),
   m_buf_from |-> pos,
   m_buf_to |-> pos + Delivered(pos)]

clear(buf) ==
  [buf EXCEPT !.m_valid_count = 0, !.m_buf_from = 0, !.m_buf_to = 0]

in(buf, i) == i >= buf.m_buf_from /\ i < buf.m_buf_to

get_unchecked(buf, i) == buf.m_buf[i - buf.m_buf_from]

-----------------------------------------------------------------------------
(* FileSource.                                                             *)

\* The constructor's fopen.  (One that fails throws and changes nothing.)
Fopen(o) ==
  /\ obj[o] = None /\ fpos = -1 /\ opening = None
  /\ opening' = o /\ fpos' = 0
  /\ UNCHANGED <<file, obj, got>>

\* The rest of the constructor: take the size, fill buffer 0 and, if that
\* filled a whole page, buffer 1 from where the stream now stands.
Open(o) ==
  /\ opening = o /\ opening' = None
  /\ LET b0 == read(NewBuffer, 0)
         b1 == IF Delivered(0) = PageSize
               THEN read(NewBuffer, PageSize) ELSE NewBuffer
     IN  /\ obj' = [obj EXCEPT ![o] =
                      [m_filesize |-> Size,
                       m_bufs |-> [j \in {0, 1} |-> IF j = 0 THEN b0 ELSE b1],
                       m_current_buf |-> 0, m_fp |-> TRUE]]
         /\ fpos' = b0.m_buf_to + b1.m_valid_count
  /\ UNCHANGED <<file, got>>

\* file_size throws: there is no object, so its destructor never runs, and
\* the catch block closes the stream.
OpenFails(o) ==
  /\ opening = o /\ opening' = None
  /\ fpos' = -1
  /\ UNCHANGED <<file, obj, got>>

\* get(i), for i below end(): the current buffer, then the other one, else
\* the page of i is read into buffer 0 over whatever it held.
Hit(o, i, j) ==
  /\ obj[o] # None /\ i < obj[o].m_filesize
  /\ in(obj[o].m_bufs[j], i)
  /\ j # obj[o].m_current_buf =>
       ~ in(obj[o].m_bufs[obj[o].m_current_buf], i)
  /\ obj' = [obj EXCEPT ![o].m_current_buf = j]
  /\ got' = Abstract!Answer(i, get_unchecked(obj[o].m_bufs[j], i))
  /\ UNCHANGED <<file, fpos, opening>>

\* Mutant: the page is read from i on, not from its boundary, but recorded
\* as if from the boundary.
Unaligned_read_to(o, i) ==
  [read(obj[o].m_bufs[0], i) EXCEPT !.m_buf_from = i - (i % PageSize)]

\* read_to(i, 0): the buffer after seeking to the page boundary and reading.
read_to(o, i) == read(obj[o].m_bufs[0], i - (i % PageSize))

Miss(o, i) ==
  /\ obj[o] # None /\ i < obj[o].m_filesize
  /\ \A j \in {0, 1} : ~ in(obj[o].m_bufs[j], i)
  /\ LET b == read_to(o, i)
     IN  /\ obj' = [obj EXCEPT ![o].m_bufs[0] = b, ![o].m_current_buf = 0]
         /\ fpos' = b.m_buf_to
         /\ got' = Abstract!Answer(i, get_unchecked(b, i))
  /\ UNCHANGED <<file, opening>>

\* Buffers that end at or before pos are emptied; the stream stays where it is.
release_before(o, pos) ==
  /\ obj[o] # None
  /\ obj' = [obj EXCEPT ![o].m_bufs =
               [j \in {0, 1} |-> IF @[j].m_buf_to <= pos
                                 THEN clear(@[j]) ELSE @[j]]]
  /\ UNCHANGED <<file, fpos, opening, got>>

\* Mutant: the source of a move keeps its FILE pointer.
Shared_Move(o, p) ==
  /\ obj[o] # None /\ obj[p] = None
  /\ obj' = [obj EXCEPT ![p] = obj[o],
                        ![o].m_filesize = 0, ![o].m_current_buf = 0]
  /\ UNCHANGED <<file, fpos, opening, got>>

\* FileSource p(std::move(o)): o keeps its buffers but no file and no size.
Move(o, p) ==
  /\ obj[o] # None /\ obj[p] = None
  /\ obj' = [obj EXCEPT ![p] = obj[o],
                        ![o].m_fp = FALSE, ![o].m_filesize = 0,
                        ![o].m_current_buf = 0]
  /\ UNCHANGED <<file, fpos, opening, got>>

\* The destructor closes the stream it owns.
Destroy(o) ==
  /\ obj[o] # None
  /\ obj' = [obj EXCEPT ![o] = None]
  /\ fpos' = IF obj[o].m_fp THEN -1 ELSE fpos
  /\ UNCHANGED <<file, opening, got>>

Init ==
  /\ file \in Files
  /\ obj = [o \in Objs |-> None]
  /\ fpos = -1
  /\ opening = None
  /\ got = Abstract!NoRead

Next ==
  \E o \in Objs :
    \/ Fopen(o) \/ Open(o) \/ OpenFails(o)
    \/ /\ opening = None
       /\ \/ \E i \in 0..(Size - 1) : \E j \in {0, 1} : Hit(o, i, j)
          \/ \E i \in 0..(Size - 1) : Miss(o, i)
          \/ \E pos \in 0..Size : release_before(o, pos)
          \/ \E p \in Objs : Move(o, p)
          \/ Destroy(o)

Spec == Init /\ [][Next]_vars

-----------------------------------------------------------------------------
(* Properties.                                                             *)

Live(o) == obj[o] # None

\* A buffer holds the file's items for the range it claims.
Caches(buf) ==
  /\ buf.m_buf_from <= buf.m_buf_to
  /\ buf.m_buf_to <= buf.m_buf_from + PageSize
  /\ buf.m_buf_to <= Size
  /\ \A i \in 0..(Size - 1) : in(buf, i) => get_unchecked(buf, i) = file[i + 1]

\* The buffers of every object agree with the file, whatever refills,
\* releases and moves came before; an object that owns the stream knows the
\* file's size, any other has size 0 and so answers no get.
BuffersMatchFile ==
  \A o \in Objs : Live(o) =>
    /\ \A j \in {0, 1} : Caches(obj[o].m_bufs[j])
    /\ obj[o].m_filesize = IF obj[o].m_fp THEN Size ELSE 0

\* Every variable has its type.
TypeOK ==
  /\ file \in Files
  /\ obj \in [Objs -> Sources \cup {None}]
  /\ fpos \in Int
  /\ opening \in Objs \cup {None}

Owns(o) == Live(o) /\ obj[o].m_fp

\* Exactly one object, or one constructor, owns an open stream, through every
\* move, destruction and failed construction: no read through a closed FILE*,
\* no second fclose, no FILE* left open.
OneOwner ==
  /\ fpos # -1 <=> opening # None \/ \E o \in Objs : Owns(o)
  /\ \A o \in Objs : Owns(o) => opening = None
  /\ \A o, p \in Objs : Owns(o) /\ Owns(p) => o = p

\* Buffering, eviction and moves are invisible: every get answers with the
\* file's item, also at positions released before.
ImplementsInputSource == Abstract!Spec
=============================================================================
