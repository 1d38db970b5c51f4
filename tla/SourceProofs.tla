---------------------------- MODULE SourceProofs ----------------------------
(***************************************************************************)
(* FileSource implements InputSource, and a SourceMap over a FileSource    *)
(* leaves it a FileSource and reads from it the lines it would have read   *)
(* from memory: for every file, page size and set of objects.              *)
(***************************************************************************)
EXTENDS SourceMap, SequenceTheorems, FiniteSetTheorems, TLAPS

\* A page boundary is at most PageSize - 1 items before any of its items.
LEMMA PageStart ==
  ASSUME NEW i \in Nat
  PROVE  /\ i - (i % PageSize) \in Nat
         /\ i - (i % PageSize) <= i
         /\ i < i - (i % PageSize) + PageSize
  BY FileSourceAssumption

\* What fread delivers stays inside the file and fits a page.
LEMMA DeliveredBounds ==
  ASSUME file \in Files, NEW pos \in Nat, pos <= Size
  PROVE  /\ Size \in Nat
         /\ Delivered(pos) \in 0..PageSize
         /\ pos + Delivered(pos) <= Size
         /\ \A i \in 0..(Size - 1) :
              pos <= i /\ i < pos + PageSize => i < pos + Delivered(pos)
  BY FileSourceAssumption DEF Delivered, Size

\* buffer::read leaves a buffer that caches the items from pos on.
LEMMA ReadCaches ==
  ASSUME file \in Files, NEW buf \in Buffers, NEW pos \in Nat, pos <= Size
  PROVE  /\ read(buf, pos) \in Buffers
         /\ Caches(read(buf, pos))
         /\ \A i \in 0..(Size - 1) :
              pos <= i /\ i < pos + PageSize => in(read(buf, pos), i)
<1>0. /\ Size \in Nat /\ Delivered(pos) \in 0..PageSize
      /\ pos + Delivered(pos) <= Size
      /\ PageSize \in Nat \ {0} /\ file \in Seq(Int) /\ Size = Len(file)
  BY DeliveredBounds, FileSourceAssumption DEF Size
<1>1. read(buf, pos) \in Buffers
  <2>1. ASSUME NEW k \in 0..(PageSize - 1)
        PROVE  (IF k < Delivered(pos) THEN file[pos + k + 1] ELSE buf.m_buf[k])
                 \in Int
    BY <1>0 DEF Buffers
  <2> QED
    BY <2>1, <1>0 DEF read, Buffers
<1>2. Caches(read(buf, pos))
  <2> DEFINE b == read(buf, pos)
  <2>1. /\ b.m_buf_from = pos /\ b.m_buf_to = pos + Delivered(pos)
        /\ \A k \in 0..(PageSize - 1) :
             k < Delivered(pos) => b.m_buf[k] = file[pos + k + 1]
    BY DEF read
  <2>2. ASSUME NEW i \in 0..(Size - 1), in(b, i)
        PROVE  get_unchecked(b, i) = file[i + 1]
    <3>1. /\ i - pos \in 0..(PageSize - 1) /\ i - pos < Delivered(pos)
          /\ pos + (i - pos) + 1 = i + 1
      BY <2>1, <2>2, <1>0 DEF in
    <3> QED
      BY <2>1, <3>1 DEF get_unchecked
  <2> QED
    BY <2>1, <2>2, <1>0 DEF Caches
<1>3. \A i \in 0..(Size - 1) :
        pos <= i /\ i < pos + PageSize => in(read(buf, pos), i)
  BY <1>0, DeliveredBounds DEF read, in
<1> QED
  BY <1>1, <1>2, <1>3

\* An empty buffer claims nothing.
LEMMA EmptyCaches ==
  ASSUME file \in Files
  PROVE  /\ NewBuffer \in Buffers /\ Caches(NewBuffer)
         /\ \A buf \in Buffers : clear(buf) \in Buffers /\ Caches(clear(buf))
<1>0. /\ PageSize \in Nat \ {0} /\ Garbage \in Int /\ Size \in Nat
  BY FileSourceAssumption DEF Size
<1>1. ASSUME NEW buf \in Buffers, buf.m_buf_from = 0, buf.m_buf_to = 0
      PROVE  Caches(buf)
  BY <1>0, <1>1 DEF Caches, in
<1>2. NewBuffer \in Buffers /\ NewBuffer.m_buf_from = 0 /\ NewBuffer.m_buf_to = 0
  BY <1>0 DEF NewBuffer, Buffers
<1>3. ASSUME NEW buf \in Buffers
      PROVE  /\ clear(buf) \in Buffers
             /\ clear(buf).m_buf_from = 0 /\ clear(buf).m_buf_to = 0
  BY DEF clear, Buffers
<1> QED
  BY <1>1, <1>2, <1>3

-----------------------------------------------------------------------------
Inv == TypeOK /\ BuffersMatchFile /\ OneOwner

\* No object exists at first.
LEMMA InitInv == Init => Inv
  BY DEF Init, Inv, TypeOK, BuffersMatchFile, OneOwner, Owns, Live

\* A read of a live object's page: the object, the buffers before and the
\* buffer after.
LEMMA MissReads ==
  ASSUME Inv, NEW o \in Objs, NEW i \in 0..(Size - 1), Miss(o, i)
  PROVE  /\ obj[o] \in Sources /\ obj[o].m_fp
         /\ read_to(o, i) \in Buffers
         /\ Caches(read_to(o, i))
         /\ in(read_to(o, i), i)
<1>1. obj[o] \in Sources /\ obj[o].m_fp /\ Size \in Nat /\ file \in Files
  BY FileSourceAssumption
  DEF Inv, TypeOK, BuffersMatchFile, Live, Miss, Sources, Size
<1>2. obj[o].m_bufs[0] \in Buffers
  BY <1>1 DEF Sources
<1>3. /\ i - (i % PageSize) \in Nat /\ i - (i % PageSize) <= i
      /\ i < i - (i % PageSize) + PageSize
  BY PageStart, <1>1
<1> QED
  BY <1>1, <1>2, <1>3, ReadCaches DEF read_to

\* While the file stays the same, BuffersMatchFile is about obj alone.
LEMMA CachesSameFile ==
  ASSUME file' = file,
         \A o \in Objs : obj'[o] # None =>
           /\ \A j \in {0, 1} : Caches(obj'[o].m_bufs[j])
           /\ obj'[o].m_filesize = IF obj'[o].m_fp THEN Size ELSE 0
  PROVE  BuffersMatchFile'
<1> SUFFICES ASSUME NEW o \in Objs, obj'[o] # None
             PROVE  /\ \A j \in {0, 1} : Caches(obj[o].m_bufs[j])'
                    /\ obj'[o].m_filesize = IF obj'[o].m_fp THEN Size' ELSE 0
  BY DEF BuffersMatchFile, Live
<1>1. Size' = Size
  BY DEF Size
<1>2. ASSUME NEW j \in {0, 1}
      PROVE  Caches(obj[o].m_bufs[j])'
  <2>1. Caches(obj'[o].m_bufs[j])
    OBVIOUS
  <2> QED
    BY <1>1, <2>1 DEF Caches, in, get_unchecked
<1> QED
  BY <1>1, <1>2

\* Every operation preserves the invariant.
LEMMA NextInv == Inv /\ [Next]_vars => Inv'
<1> SUFFICES ASSUME Inv, [Next]_vars PROVE Inv'
  OBVIOUS
<1>0. /\ PageSize \in Nat \ {0} /\ None \notin Sources \cup Objs /\ Size \in Nat
      /\ file \in Files
  BY FileSourceAssumption DEF Inv, TypeOK, Size
<1>1. ASSUME NEW o \in Objs, Open(o) PROVE Inv'
  <2> DEFINE b0 == read(NewBuffer, 0)
             b1 == IF Delivered(0) = PageSize
                   THEN read(NewBuffer, PageSize) ELSE NewBuffer
             s  == [m_filesize |-> Size,
                    m_bufs |-> [j \in {0, 1} |-> IF j = 0 THEN b0 ELSE b1],
                    m_current_buf |-> 0, m_fp |-> TRUE]
  <2>1. b0 \in Buffers /\ Caches(b0)
    BY <1>0, ReadCaches, EmptyCaches
  <2>2. b1 \in Buffers /\ Caches(b1)
    <3>1. CASE Delivered(0) = PageSize
      BY <1>0, <3>1, ReadCaches, EmptyCaches, DeliveredBounds
    <3>2. CASE Delivered(0) # PageSize
      BY <1>0, <3>2, EmptyCaches
    <3> QED
      BY <3>1, <3>2
  <2>3. s \in Sources /\ s.m_fp /\ s.m_filesize = Size
        /\ s.m_bufs[0] = b0 /\ s.m_bufs[1] = b1
    BY <2>1, <2>2, <1>0 DEF Sources
  <2>4. b0.m_buf_to + b1.m_valid_count \in Nat
    BY <2>1, <2>2 DEF Buffers
  <2>5. /\ obj' = [obj EXCEPT ![o] = s]
        /\ fpos' = b0.m_buf_to + b1.m_valid_count
        /\ file' = file /\ opening = o /\ opening' = None
    BY <1>1 DEF Open
  <2> HIDE DEF b0, b1, s
  <2>6. \A p \in Objs : obj'[p] = IF p = o THEN s ELSE obj[p]
    BY <2>5 DEF Inv, TypeOK
  <2>7. TypeOK'
    BY <2>3, <2>4, <2>5 DEF Inv, TypeOK
  <2>8. BuffersMatchFile'
    BY SMTT(60), <2>1, <2>2, <2>3, <2>5, <2>6
    DEF Inv, BuffersMatchFile, Live, Caches, in, get_unchecked, Size
  <2>9. OneOwner'
    BY <2>3, <2>4, <2>5, <2>6, <1>0 DEF Inv, OneOwner, Owns, Live
  <2> QED
    BY <2>7, <2>8, <2>9 DEF Inv
<1>2. ASSUME NEW o \in Objs, NEW i \in 0..(Size - 1), NEW j \in {0, 1},
             Hit(o, i, j), opening = None
      PROVE  Inv'
  <2>1. /\ obj[o] # None /\ obj[o] \in Sources /\ file' = file /\ fpos' = fpos /\ opening' = opening
        /\ obj' = [obj EXCEPT ![o].m_current_buf = j]
    BY <1>2 DEF Hit, Inv, TypeOK
  <2>2. TypeOK'
    BY <2>1 DEF Inv, TypeOK, Sources
  <2>3. \A p \in Objs : /\ Live(p)' => Live(p)
                        /\ obj'[p].m_bufs = obj[p].m_bufs
                        /\ obj'[p].m_filesize = obj[p].m_filesize
                        /\ obj'[p].m_fp = obj[p].m_fp
    BY <2>1 DEF Inv, TypeOK, Live, Sources
  <2>4. \A p \in Objs : Live(p) => Live(p)'
    BY <2>1, <2>2, <1>0 DEF Inv, TypeOK, Live, Sources
  <2>5. BuffersMatchFile'
    BY SMTT(60), <2>1, <2>3
    DEF Inv, BuffersMatchFile, Caches, in, get_unchecked, Size
  <2>6. OneOwner'
    BY <2>1, <2>3, <2>4 DEF Inv, OneOwner, Owns
  <2> QED
    BY <2>2, <2>5, <2>6 DEF Inv
<1>3. ASSUME NEW o \in Objs, NEW i \in 0..(Size - 1), Miss(o, i), opening = None
      PROVE  Inv'
  <2> DEFINE b == read_to(o, i)
  <2>1. /\ obj[o] \in Sources /\ obj[o].m_fp /\ b \in Buffers /\ Caches(b)
    BY <1>3, MissReads
  <2>2. /\ obj[o] # None /\ file' = file /\ fpos' = b.m_buf_to
        /\ opening' = opening
        /\ obj' = [obj EXCEPT ![o].m_bufs[0] = b, ![o].m_current_buf = 0]
    BY <1>3 DEF Miss
  <2> HIDE DEF b
  <2> DEFINE bufs == [obj[o].m_bufs EXCEPT ![0] = b]
             s == [obj[o] EXCEPT !.m_bufs = bufs, !.m_current_buf = 0]
  <2>3. obj[o].m_bufs \in [{0, 1} -> Buffers]
    BY <2>1 DEF Sources
  <2>4. /\ bufs \in [{0, 1} -> Buffers]
        /\ bufs[0] = b /\ bufs[1] = obj[o].m_bufs[1]
    BY <2>1, <2>3
  <2>5. obj' = [obj EXCEPT ![o] = s]
    BY <2>1, <2>2 DEF Sources
  <2> HIDE DEF bufs
  <2>6. /\ s \in Sources /\ s.m_fp = obj[o].m_fp
        /\ s.m_filesize = obj[o].m_filesize /\ s.m_bufs = bufs
    BY <2>1, <2>4 DEF Sources
  <2> HIDE DEF s
  <2>7. \A p \in Objs : obj'[p] = IF p = o THEN s ELSE obj[p]
    BY <2>5 DEF Inv, TypeOK
  <2>8. TypeOK'
    <3>1. b.m_buf_to \in Int
      BY <2>1 DEF Buffers
    <3> QED
      BY <2>1, <2>2, <2>5, <2>6, <3>1 DEF Inv, TypeOK
  <2>9. BuffersMatchFile'
    <3>1. \A j \in {0, 1} : Caches(s.m_bufs[j])
      BY <2>1, <2>2, <2>4, <2>6 DEF Inv, BuffersMatchFile, Live
    <3>2. \A q \in Objs : obj'[q] # None =>
            /\ \A j \in {0, 1} : Caches(obj'[q].m_bufs[j])
            /\ obj'[q].m_filesize = IF obj'[q].m_fp THEN Size ELSE 0
      <4> TAKE q \in Objs
      <4>1. CASE q = o
        BY <4>1, <2>1, <2>2, <2>6, <2>7, <3>1 DEF Inv, BuffersMatchFile, Live
      <4>2. CASE q # o
        BY <4>2, <2>7 DEF Inv, BuffersMatchFile, Live
      <4> QED
        BY <4>1, <4>2
    <3> QED
      BY <2>2, <3>2, CachesSameFile
  <2>10. b.m_buf_to # -1 /\ fpos # -1
    BY <2>1, <2>2 DEF Buffers, Inv, OneOwner, Owns, Live
  <2>11. \A p \in Objs : /\ Live(p)' <=> Live(p)
                         /\ Live(p) => obj'[p].m_fp = obj[p].m_fp
    BY <2>1, <2>2, <2>6, <2>7, <1>0 DEF Live
  <2>12. OneOwner'
    BY <2>2, <2>10, <2>11 DEF Inv, OneOwner, Owns
  <2> QED
    BY <2>8, <2>9, <2>12 DEF Inv
<1>4. ASSUME NEW o \in Objs, NEW pos \in 0..Size, release_before(o, pos),
             opening = None
      PROVE  Inv'
  <2> DEFINE bufs == [j \in {0, 1} |->
                        IF obj[o].m_bufs[j].m_buf_to <= pos
                        THEN clear(obj[o].m_bufs[j]) ELSE obj[o].m_bufs[j]]
             s == [obj[o] EXCEPT !.m_bufs = bufs]
  <2>1. /\ obj[o] # None /\ obj[o] \in Sources /\ file' = file /\ fpos' = fpos /\ opening' = opening
        /\ obj' = [obj EXCEPT ![o] = s]
    BY <1>4 DEF release_before, Inv, TypeOK
  <2>2. \A j \in {0, 1} : bufs[j] \in Buffers /\ Caches(bufs[j])
    BY <2>1, <1>0, EmptyCaches DEF Inv, BuffersMatchFile, Live, Sources
  <2>3. /\ s \in Sources /\ s.m_fp = obj[o].m_fp
        /\ s.m_filesize = obj[o].m_filesize /\ s.m_bufs = bufs
    BY <2>1, <2>2 DEF Sources
  <2> HIDE DEF bufs, s
  <2>4. \A p \in Objs : obj'[p] = IF p = o THEN s ELSE obj[p]
    BY <2>1 DEF Inv, TypeOK
  <2>5. TypeOK'
    BY <2>1, <2>3 DEF Inv, TypeOK
  <2>6. BuffersMatchFile'
    BY SMTT(60), <2>1, <2>2, <2>3, <2>4
    DEF Inv, BuffersMatchFile, Live, Caches, in, get_unchecked, Size
  <2>7. OneOwner'
    BY <2>1, <2>3, <2>4, <1>0 DEF Inv, OneOwner, Owns, Live
  <2> QED
    BY <2>5, <2>6, <2>7 DEF Inv
<1>5. ASSUME NEW o \in Objs, NEW p \in Objs, Move(o, p), opening = None
      PROVE  Inv'
  <2> DEFINE s == [obj[o] EXCEPT !.m_fp = FALSE, !.m_filesize = 0,
                                 !.m_current_buf = 0]
  <2>1. /\ obj[o] # None /\ obj[o] \in Sources /\ obj[p] = None /\ o # p
        /\ file' = file /\ fpos' = fpos /\ opening' = opening
        /\ obj' = [obj EXCEPT ![p] = obj[o],
                             ![o].m_fp = FALSE, ![o].m_filesize = 0,
                             ![o].m_current_buf = 0]
    BY <1>5 DEF Move, Inv, TypeOK
  <2>2. /\ s \in Sources /\ ~ s.m_fp /\ s.m_filesize = 0
        /\ s.m_bufs = obj[o].m_bufs
    BY <2>1 DEF Sources
  <2>3. \A q \in Objs : obj'[q] = IF q = o THEN s
                                  ELSE IF q = p THEN obj[o] ELSE obj[q]
    BY <2>1 DEF Inv, TypeOK
  <2>4. obj' \in [Objs -> Sources \cup {None}]
    <3>1. obj' = [q \in Objs |-> obj'[q]]
      BY <2>1 DEF Inv, TypeOK
    <3>2. \A q \in Objs : obj'[q] \in Sources \cup {None}
      BY <2>1, <2>2, <2>3 DEF Inv, TypeOK
    <3> QED
      BY <3>1, <3>2
  <2>5. TypeOK'
    BY <2>1, <2>4 DEF Inv, TypeOK
  <2> HIDE DEF s
  <2>6. BuffersMatchFile'
    <3>1. \A q \in Objs : obj'[q] # None =>
            /\ \A j \in {0, 1} : Caches(obj'[q].m_bufs[j])
            /\ obj'[q].m_filesize = IF obj'[q].m_fp THEN Size ELSE 0
      <4> TAKE q \in Objs
      <4>1. CASE q = o
        <5>1. obj'[q] = s /\ \A j \in {0, 1} : Caches(obj[o].m_bufs[j])
          BY <4>1, <2>1, <2>3 DEF Inv, BuffersMatchFile, Live
        <5> QED
          BY <5>1, <2>2
      <4>2. CASE q = p
        BY <4>2, <2>1, <2>3 DEF Inv, BuffersMatchFile, Live
      <4>3. CASE q # o /\ q # p
        BY <4>3, <2>3 DEF Inv, BuffersMatchFile, Live
      <4> QED
        BY <4>1, <4>2, <4>3
    <3> QED
      BY <2>1, <3>1, CachesSameFile
  <2>7. \A q \in Objs : Live(q)' /\ obj'[q].m_fp <=>
                         \/ q = p /\ obj[o].m_fp
                         \/ q # o /\ q # p /\ Live(q) /\ obj[q].m_fp
    BY <2>1, <2>2, <2>3, <1>0 DEF Live
  <2>8. OneOwner'
    BY <2>1, <2>7 DEF Inv, OneOwner, Owns, Live
  <2> QED
    BY <2>5, <2>6, <2>8 DEF Inv
<1>6. ASSUME NEW o \in Objs, Destroy(o), opening = None PROVE Inv'
  <2>1. /\ obj[o] # None /\ obj[o] \in Sources /\ file' = file
        /\ opening' = opening /\ fpos' = IF obj[o].m_fp THEN -1 ELSE fpos
        /\ obj' = [obj EXCEPT ![o] = None]
    BY <1>6 DEF Destroy, Inv, TypeOK
  <2>2. \A q \in Objs : obj'[q] = IF q = o THEN None ELSE obj[q]
    BY <2>1 DEF Inv, TypeOK
  <2>3. TypeOK'
    BY <2>1 DEF Inv, TypeOK
  <2>4. BuffersMatchFile'
    BY SMTT(60), <2>1, <2>2
    DEF Inv, BuffersMatchFile, Live, Caches, in, get_unchecked, Size
  <2>5. OneOwner'
    BY <2>1, <2>2 DEF Inv, OneOwner, Owns, Live
  <2> QED
    BY <2>3, <2>4, <2>5 DEF Inv
<1>7. ASSUME NEW o \in Objs, Fopen(o) \/ OpenFails(o) PROVE Inv'
  <2>1. file' = file /\ obj' = obj
    BY <1>7 DEF Fopen, OpenFails
  <2>2. TypeOK'
    BY <1>7, <2>1 DEF Fopen, OpenFails, Inv, TypeOK
  <2>3. BuffersMatchFile'
    BY <2>1 DEF Inv, BuffersMatchFile, Live, Caches, in, get_unchecked, Size
  <2>4. OneOwner'
    BY <1>0, <1>7, <2>1 DEF Fopen, OpenFails, Inv, OneOwner, Owns, Live
  <2> QED
    BY <2>2, <2>3, <2>4 DEF Inv
<1>8. CASE UNCHANGED vars
  BY <1>8 DEF vars, Inv, TypeOK, BuffersMatchFile, OneOwner, Owns, Live, Caches, in,
              get_unchecked, Size
<1> QED
  BY <1>1, <1>2, <1>3, <1>4, <1>5, <1>6, <1>7, <1>8 DEF Next

\* FileSource's buffers never disagree with the file, through get's refills,
\* release_before and moves (get, read_to, release_before, the move
\* constructor).
THEOREM BuffersAlwaysMatch == Spec => []BuffersMatchFile
<1>1. Inv => BuffersMatchFile
  BY DEF Inv
<1> QED
  BY InitInv, NextInv, <1>1, PTL DEF Spec

\* The FILE pointer has exactly one owner while it is open (move constructor,
\* destructor).
THEOREM StreamHasOneOwner == Spec => []OneOwner
<1>1. Inv => OneOwner
  BY DEF Inv
<1> QED
  BY InitInv, NextInv, <1>1, PTL DEF Spec

\* Every get answers with the file's item: FileSource implements InputSource
\* with got for the abstract answer, in every state the invariant describes.
THEOREM FileSourceImplements == Spec => ImplementsInputSource
<1>1. Init => Abstract!Init
  BY DEF Init, Abstract!Init
<1>2. Inv /\ [Next]_vars => [Abstract!Next]_<<file, got>>
  <2> SUFFICES ASSUME Inv, [Next]_vars
               PROVE  [Abstract!Next]_<<file, got>>
    OBVIOUS
  <2>1. ASSUME NEW o \in Objs, NEW i \in 0..(Size - 1), NEW j \in {0, 1},
               Hit(o, i, j)
        PROVE  Abstract!At(i)
    <3>1. get_unchecked(obj[o].m_bufs[j], i) = file[i + 1]
      BY <2>1 DEF Hit, Inv, BuffersMatchFile, Live, Caches
    <3> QED
      BY <2>1, <3>1 DEF Hit, Abstract!At
  <2>2. ASSUME NEW o \in Objs, NEW i \in 0..(Size - 1), Miss(o, i)
        PROVE  Abstract!At(i)
    <3>1. get_unchecked(read_to(o, i), i) = file[i + 1]
      BY <2>2, MissReads DEF Caches
    <3> QED
      BY <2>2, <3>1 DEF Miss, Abstract!At
  <2>3. CASE UNCHANGED <<file, got>>
    BY <2>3
  <2> QED
    BY <2>1, <2>2, <2>3
    DEF Next, vars, Fopen, Open, OpenFails, release_before, Move, Destroy, Abstract!Next, Size
<1> QED
  BY <1>1, <1>2, InitInv, NextInv, PTL
  DEF Spec, ImplementsInputSource, Abstract!Spec

-----------------------------------------------------------------------------
(* A SourceMap over a FileSource.                                          *)

\* The line starts of the first n items: they increase, from 0, by at least
\* one and stay within the items.
StartsWithin(n) ==
  /\ map.m_line_starts \in Seq(Nat)
  /\ num_lines >= 1 /\ map.m_line_starts[1] = 0
  /\ \A k \in 1..num_lines : map.m_line_starts[k] <= n
  /\ \A k \in 1..(num_lines - 1) : map.m_line_starts[k] < map.m_line_starts[k + 1]

\* What line_content knows of the line it works on.
InLine ==
  /\ call.line \in 1..num_lines
  /\ call.i \in Nat /\ map.m_line_starts[call.line] <= call.i /\ call.i <= call.end

MapInv ==
  /\ call \in Calls /\ map \in Maps
  /\ map = NoMap => call.pc = "idle"
  /\ call.pc = "idle" => call = Idle
  /\ map # NoMap => map.source \in Objs /\ Owns(map.source)
  /\ call.pc = "prescan" => /\ call.i \in Nat /\ call.i <= Size
                            /\ StartsWithin(call.i)
  /\ Ready => StartsWithin(Size)
  /\ call.pc = "trim" => /\ InLine /\ call.end = LineEnd(call.line)
                         /\ call.i = map.m_line_starts[call.line]
                         /\ call.result = <<>>
  /\ call.pc = "copy" =>
       /\ InLine /\ call.end = TextEnd(call.line)
       /\ call.result = SubSeq(file, map.m_line_starts[call.line] + 1, call.i)
  /\ LineContentAgrees

AllInv == Inv /\ MapInv

\* get answers the file's item, and is a step of the FileSource.
LEMMA GetReads ==
  ASSUME AllInv, map # NoMap, NEW i \in 0..(Size - 1), get(i),
         NEW o, o = map.source
  PROVE  /\ Next /\ Inv' /\ file' = file /\ Owns(o)'
         /\ got'.val = file[i + 1]
<1>1. o \in Objs /\ Owns(o) /\ opening = None
  BY DEF AllInv, MapInv, Inv, OneOwner
<1>2. ASSUME NEW j \in {0, 1}, Hit(o, i, j)
      PROVE  got'.val = file[i + 1] /\ file' = file /\ Owns(o)'
  <2>1. get_unchecked(obj[o].m_bufs[j], i) = file[i + 1]
    BY <1>2, <1>1 DEF Hit, AllInv, Inv, BuffersMatchFile, Live, Caches
  <2>2. got' = [at |-> i, val |-> file[i + 1]]
    BY <1>2, <2>1 DEF Hit, Abstract!Answer
  <2>3. Owns(o)'
    <3> DEFINE s == [obj[o] EXCEPT !.m_current_buf = j]
    <3>1. s \in Sources /\ s.m_fp
      BY <1>1 DEF Owns, Live, AllInv, Inv, TypeOK, Sources
    <3>2. obj' = [obj EXCEPT ![o] = s] /\ obj \in [Objs -> Sources \cup {None}]
      BY <1>2 DEF Hit, AllInv, Inv, TypeOK
    <3> HIDE DEF s
    <3>3. obj'[o] = s /\ s # None
      BY <3>1, <3>2, <1>1, FileSourceAssumption
    <3> QED
      BY <3>1, <3>3 DEF Owns, Live
  <2> QED
    BY <1>2, <2>2, <2>3 DEF Hit
<1>3. ASSUME Miss(o, i)
      PROVE  got'.val = file[i + 1] /\ file' = file /\ Owns(o)'
  <2>1. get_unchecked(read_to(o, i), i) = file[i + 1]
    BY <1>1, <1>3, MissReads DEF AllInv, Caches
  <2>2. got' = [at |-> i, val |-> file[i + 1]]
    BY <1>3, <2>1 DEF Miss, Abstract!Answer
  <2>3. Owns(o)'
    <3> DEFINE b == read_to(o, i)
               s == [obj[o] EXCEPT !.m_bufs[0] = b, !.m_current_buf = 0]
    <3>1. b \in Buffers /\ obj[o] \in Sources /\ obj[o].m_fp
      BY <1>1, <1>3, MissReads DEF AllInv
    <3>2. obj' = [obj EXCEPT ![o].m_bufs[0] = b, ![o].m_current_buf = 0]
      BY <1>3 DEF Miss
    <3> HIDE DEF b
    <3>3. obj' = [obj EXCEPT ![o] = s] /\ obj \in [Objs -> Sources \cup {None}]
      BY <3>2 DEF AllInv, Inv, TypeOK
    <3>4. s \in Sources /\ s.m_fp
      BY <3>1 DEF Sources
    <3> HIDE DEF s
    <3> QED
      BY <3>3, <3>4, <1>1, FileSourceAssumption DEF Owns, Live
  <2> QED
    BY <1>3, <2>2, <2>3 DEF Miss
<1>4. Next
  BY <1>1 DEF get, Next
<1>5. Inv'
  BY <1>4, NextInv DEF AllInv
<1> QED
  BY <1>2, <1>3, <1>4, <1>5 DEF get

\* A line starts at or before its end, and ends inside the file.
LEMMA LineBounds ==
  ASSUME Size \in Nat, StartsWithin(Size), NEW line \in 1..num_lines
  PROVE  /\ map.m_line_starts[line] \in Nat /\ LineEnd(line) \in Nat
         /\ map.m_line_starts[line] <= LineEnd(line) /\ LineEnd(line) <= Size
         /\ TextEnd(line) \in Nat
         /\ map.m_line_starts[line] <= TextEnd(line) /\ TextEnd(line) <= Size
<1> DEFINE s == map.m_line_starts
<1>1. /\ num_lines = Len(s) /\ Len(s) \in Nat /\ \A k \in 1..Len(s) : s[k] \in Nat
      /\ \A k \in 1..Len(s) : s[k] <= Size
      /\ \A k \in 1..(Len(s) - 1) : s[k] < s[k + 1]
  BY DEF StartsWithin, num_lines
<1> HIDE DEF s
<1>2. LineEnd(line) \in Nat /\ s[line] <= LineEnd(line) /\ LineEnd(line) <= Size
  <2>1. CASE line < Len(s)
    <3>1. /\ line \in 1..(Len(s) - 1) /\ line + 1 \in 1..Len(s)
          /\ LineEnd(line) = s[line + 1] - 1
      BY <1>1, <2>1 DEF LineEnd, s
    <3> QED
      BY <3>1, <1>1
  <2>2. CASE ~ (line < Len(s))
    <3>1. LineEnd(line) = Size
      BY <1>1, <2>2 DEF LineEnd
    <3> QED
      BY <3>1, <1>1
  <2> QED
    BY <2>1, <2>2
<1>3. TextEnd(line) = IF LineEnd(line) > s[line] /\ file[LineEnd(line)] = Return
                      THEN LineEnd(line) - 1 ELSE LineEnd(line)
  BY DEF TextEnd, s
<1>4. s[line] \in Nat
  BY <1>1
<1> QED
  BY <1>2, <1>3, <1>4 DEF s

\* Taking one more item.
LEMMA OneMore ==
  ASSUME NEW T, NEW f \in Seq(T), NEW a \in Nat, NEW b \in Nat, a <= b, b < Len(f)
  PROVE  Append(SubSeq(f, a + 1, b), f[b + 1]) = SubSeq(f, a + 1, b + 1)
<1>0. Len(f) \in Nat /\ \A k \in 1..Len(f) : f[k] \in T
  BY ElementOfSeq, LenProperties
<1> DEFINE u == SubSeq(f, a + 1, b)
           v == SubSeq(f, a + 1, b + 1)
<1>1. /\ u \in Seq(T) /\ Len(u) = b - a /\ \A k \in 1..(b - a) : u[k] = f[a + k]
  <2>1. \A k \in (a + 1)..b : f[k] \in T
    BY <1>0
  <2>2. /\ u \in Seq(T) /\ Len(u) = IF a + 1 <= b THEN b - (a + 1) + 1 ELSE 0
        /\ \A k \in 1..(b - (a + 1) + 1) : u[k] = f[a + 1 + k - 1]
    BY <2>1, SubSeqProperties
  <2>3. b - (a + 1) + 1 = b - a /\ (IF a + 1 <= b THEN b - (a + 1) + 1 ELSE 0) = b - a
    OBVIOUS
  <2>4. \A k \in 1..(b - a) : a + 1 + k - 1 = a + k
    OBVIOUS
  <2> HIDE DEF u
  <2> QED
    BY <2>2, <2>3, <2>4
<1>2. /\ v \in Seq(T) /\ Len(v) = b + 1 - a /\ \A k \in 1..(b + 1 - a) : v[k] = f[a + k]
  <2>1. \A k \in (a + 1)..(b + 1) : f[k] \in T
    BY <1>0
  <2>2. /\ v \in Seq(T) /\ Len(v) = IF a + 1 <= b + 1 THEN b + 1 - (a + 1) + 1 ELSE 0
        /\ \A k \in 1..(b + 1 - (a + 1) + 1) : v[k] = f[a + 1 + k - 1]
    BY <2>1, SubSeqProperties
  <2>3. /\ b + 1 - (a + 1) + 1 = b + 1 - a
        /\ (IF a + 1 <= b + 1 THEN b + 1 - (a + 1) + 1 ELSE 0) = b + 1 - a
    OBVIOUS
  <2>4. \A k \in 1..(b + 1 - a) : a + 1 + k - 1 = a + k
    OBVIOUS
  <2> HIDE DEF v
  <2> QED
    BY <2>2, <2>3, <2>4
<1>3. f[b + 1] \in T
  BY <1>0
<1> DEFINE w == Append(u, f[b + 1])
<1> HIDE DEF u, v
<1>4. /\ w \in Seq(T) /\ Len(w) = b - a + 1
      /\ \A k \in 1..(b - a) : w[k] = u[k]
      /\ w[b - a + 1] = f[b + 1]
  <2>1. \A x \in T : /\ Append(u, x) \in Seq(T) /\ Len(Append(u, x)) = Len(u) + 1
                     /\ \A k \in 1..Len(u) : Append(u, x)[k] = u[k]
                     /\ Append(u, x)[Len(u) + 1] = x
    BY <1>1
  <2> QED
    BY <2>1, <1>1, <1>3
<1> HIDE DEF w
<1>5. \A k \in 1..Len(w) : w[k] = v[k]
  <2> SUFFICES ASSUME NEW k \in 1..(b - a + 1) PROVE w[k] = v[k]
    BY <1>4
  <2>1. CASE k = b - a + 1
    <3>1. a + k = b + 1 /\ k \in 1..(b + 1 - a)
      BY <2>1
    <3> QED
      BY <3>1, <2>1, <1>4, <1>2
  <2>2. CASE k # b - a + 1
    <3>1. k \in 1..(b - a) /\ k \in 1..(b + 1 - a)
      BY <2>2
    <3> QED
      BY <3>1, <1>1, <1>2, <1>4
  <2> QED
    BY <2>1, <2>2
<1>6. Len(w) = Len(v)
  BY <1>2, <1>4
<1>7. w = v
  BY <1>2, <1>4, <1>5, <1>6, SeqEqual
<1> QED
  BY <1>7 DEF u, v, w

\* One more line starts after every other.
LEMMA StartsGrow ==
  ASSUME NEW s \in Seq(Nat), NEW i \in Nat, Len(s) >= 1, s[1] = 0,
         \A k \in 1..Len(s) : s[k] <= i,
         \A k \in 1..(Len(s) - 1) : s[k] < s[k + 1],
         NEW t, t = Append(s, i + 1)
  PROVE  /\ t \in Seq(Nat) /\ Len(t) >= 1 /\ t[1] = 0
         /\ \A k \in 1..Len(t) : t[k] <= i + 1
         /\ \A k \in 1..(Len(t) - 1) : t[k] < t[k + 1]
<1>1. /\ t \in Seq(Nat) /\ Len(t) = Len(s) + 1 /\ t[Len(s) + 1] = i + 1
      /\ \A k \in 1..Len(s) : t[k] = s[k]
  BY AppendProperties
<1>2. Len(s) \in Nat /\ \A k \in 1..Len(s) : s[k] \in Nat
  OBVIOUS
<1>3. Len(t) >= 1 /\ t[1] = 0
  BY <1>1, <1>2
<1>4. ASSUME NEW k \in 1..Len(t) PROVE t[k] <= i + 1
  BY <1>1, <1>2
<1>5. ASSUME NEW k \in 1..(Len(t) - 1) PROVE t[k] < t[k + 1]
  <2>1. CASE k < Len(s)
    BY <1>1, <1>2, <2>1
  <2>2. CASE k = Len(s)
    BY <1>1, <1>2, <2>2
  <2> QED
    BY <1>1, <1>2, <2>1, <2>2
<1> QED
  BY <1>1, <1>3, <1>4, <1>5

-----------------------------------------------------------------------------

\* The file stays the same.
LEMMA SameFile ==
  ASSUME [Next]_vars
  PROVE  file' = file /\ Size' = Size
<1>1. file' = file
  BY DEF Next, vars, Fopen, Open, OpenFails, Hit, Miss, release_before, Move, Destroy
<1> QED
  BY <1>1 DEF Size

\* The lines stay the same with the map and the file.
LEMMA SameLines ==
  ASSUME map' = map, file' = file
  PROVE  /\ num_lines' = num_lines /\ Size' = Size
         /\ \A n : StartsWithin(n)' <=> StartsWithin(n)
         /\ \A line : /\ LineEnd(line)' = LineEnd(line)
                      /\ TextEnd(line)' = TextEnd(line)
                      /\ line_view(line)' = line_view(line)
  BY DEF num_lines, Size, StartsWithin, LineEnd, TextEnd, line_view

\* What MapInv says without a call under way.
LEMMA IdleMapInv ==
  /\ call = Idle /\ map \in Maps
  /\ map # NoMap => map.source \in Objs /\ Owns(map.source) /\ StartsWithin(Size)
  => MapInv
<1>1. <<>> \in Seq(Int)
  BY EmptySeq
<1>2. Idle \in Calls /\ Idle.pc = "idle"
  BY <1>1 DEF Idle, Begun, Calls
<1> QED
  BY <1>2 DEF MapInv, Ready, LineContentAgrees

\* ... and with one.
Mapped == map \in Maps /\ map # NoMap /\ map.source \in Objs /\ Owns(map.source)

\* The part of the invariant that matters while the constructor runs is enough.
LEMMA PrescanMapInv ==
  Mapped /\ call \in Calls /\ call.pc = "prescan" /\ call.i <= Size /\ StartsWithin(call.i)
  => MapInv
<1> SUFFICES ASSUME Mapped, call \in Calls, call.pc = "prescan", call.i <= Size,
                    StartsWithin(call.i)
             PROVE  MapInv
  OBVIOUS
<1>1. call.i \in Nat
  BY DEF Calls
<1> QED
  BY <1>1 DEF Mapped, MapInv, Ready, LineContentAgrees

\* The line_content under way, or done.
InContent ==
  /\ call.pc = "trim" => /\ InLine /\ call.end = LineEnd(call.line)
                         /\ call.i = map.m_line_starts[call.line]
                         /\ call.result = <<>>
  /\ call.pc = "copy" =>
       /\ InLine /\ call.end = TextEnd(call.line)
       /\ call.result = SubSeq(file, map.m_line_starts[call.line] + 1, call.i)
  /\ call.pc = "done" => call.result = line_view(call.line)

\* The part of the invariant that matters while line_content runs is enough.
LEMMA ContentMapInv ==
  /\ Mapped /\ call \in Calls /\ call.pc \in {"trim", "copy", "done"}
  /\ StartsWithin(Size) /\ InContent
  => MapInv
  BY DEF Mapped, MapInv, InContent, Ready, LineContentAgrees

\* A NoMap is a map of no source.
LEMMA NoMapType == NoMap \in Maps /\ \A o \in Objs : NoMap.source # o
<1>1. <<>> \in Seq(Nat)
  BY EmptySeq
<1> QED
  BY <1>1, FileSourceAssumption DEF NoMap, Maps

\* What is known while a call is under way.
LEMMA Busy ==
  ASSUME AllInv, call.pc # "idle"
  PROVE  /\ map # NoMap /\ map.source \in Objs /\ Owns(map.source)
         /\ obj[map.source].m_filesize = Size /\ Size \in Nat
         /\ Size = Len(file) /\ file \in Seq(Int)
<1>1. map # NoMap /\ map.source \in Objs /\ Owns(map.source)
  BY DEF AllInv, MapInv
<1>2. obj[map.source].m_filesize = Size
  BY <1>1 DEF AllInv, Inv, BuffersMatchFile, Owns, Live
<1>3. file \in Seq(Int) /\ Size = Len(file)
  BY FileSourceAssumption DEF AllInv, Inv, TypeOK, Size
<1> QED
  BY <1>1, <1>2, <1>3

-----------------------------------------------------------------------------
(* The invariant, action by action.                                        *)

\* What others do with the FileSource between two operations keeps the invariant.
LEMMA SourceStepOK ==
  ASSUME AllInv, SourceStep
  PROVE  AllInv' /\ [Next]_vars
<1>1. Next /\ call = Idle /\ call' = Idle /\ map' = map
      /\ (map # NoMap => Owns(map.source)')
  BY DEF SourceStep, Idle, Begun
<1>2. Inv' /\ Size' = Size
  BY <1>1, NextInv, SameFile DEF AllInv
<1>3. Idle.pc = "idle"
  BY DEF Idle, Begun
<1>4. map # NoMap => map.source \in Objs /\ StartsWithin(Size)'
  BY <1>1, <1>2, <1>3 DEF AllInv, MapInv, Ready, StartsWithin, num_lines
<1>5. (map \in Maps)'
  BY <1>1 DEF AllInv, MapInv, Maps
<1>6. (call = Idle)'
  BY <1>1 DEF Idle, Begun
<1>7. (map # NoMap)' = (map # NoMap)
  BY <1>1 DEF NoMap
<1>8. (map # NoMap => map.source \in Objs /\ Owns(map.source) /\ StartsWithin(Size))'
  BY <1>1, <1>4, <1>7
<1>9. MapInv'
  BY <1>5, <1>6, <1>8, IdleMapInv, PTL
<1> QED
  BY <1>1, <1>2, <1>9 DEF AllInv

\* A step that leaves the FileSource alone leaves Inv and the owner alone.
LEMMA Apart ==
  ASSUME AllInv, UNCHANGED vars
  PROVE  /\ Inv' /\ [Next]_vars /\ file' = file /\ Size' = Size
         /\ \A o : Owns(o)' <=> Owns(o)
<1>1. [Next]_vars
  OBVIOUS
<1> QED
  BY <1>1, NextInv, SameFile DEF AllInv, vars, Owns, Live

\* The constructor begins with line 1 at offset 0.
LEMMA MapOpenedOK ==
  ASSUME AllInv, NEW o \in Objs, MapOpened(o)
  PROVE  AllInv' /\ [Next]_vars
<1>1. /\ UNCHANGED vars /\ Owns(o) /\ map' = [source |-> o, m_line_starts |-> <<0>>]
      /\ call' = Begun("prescan", 0, 0, 0)
  BY DEF MapOpened
<1>2. /\ Inv' /\ [Next]_vars /\ Size' = Size /\ Owns(o)' /\ Size' \in Nat
  BY <1>1, Apart, FileSourceAssumption DEF Size, AllInv, Inv, TypeOK
<1>3. /\ map'.source = o /\ map'.m_line_starts = <<0>> /\ map' \in Maps
  BY <1>1 DEF Maps
<1>4. <<>> \in Seq(Int)
  BY EmptySeq
<1>5. /\ call'.pc = "prescan" /\ call'.i = 0 /\ call' \in Calls
  BY <1>1, <1>4 DEF Begun, Calls
<1>6. (StartsWithin(call.i))'
  BY <1>3, <1>5 DEF StartsWithin, num_lines
<1>7. Owns(map.source)'
  BY <1>2, <1>3
<1>8. map' # NoMap
  BY <1>3, NoMapType
<1>9. MapInv'
  BY <1>2, <1>3, <1>5, <1>6, <1>7, <1>8 DEF MapInv, Ready, LineContentAgrees, NoMap
<1> QED
  BY <1>2, <1>9 DEF AllInv

\* A read of the call's item by a step that leaves the map its source.
LEMMA CallReads ==
  ASSUME AllInv, call.pc # "idle", map'.source = map.source,
         NEW i \in 0..(Size - 1), get(i)
  PROVE  /\ Next /\ Inv' /\ file' = file /\ Size' = Size
         /\ Owns(map.source)' /\ got'.val = file[i + 1]
<1>1. PICK q : q = map.source
  OBVIOUS
<1>2. map # NoMap
  BY Busy
<1>3. Next /\ Inv' /\ file' = file /\ Owns(q)' /\ got'.val = file[i + 1]
  BY <1>1, <1>2, GetReads
<1> QED
  BY <1>1, <1>3 DEF Size, Owns, Live

\* An iteration of prescan_file keeps the line starts those of the items seen.
LEMMA PrescannedOK ==
  ASSUME AllInv, Prescanned
  PROVE  AllInv' /\ [Next]_vars
<1> DEFINE o == map.source
           i == call.i
           s == map.m_line_starts
<1>1. /\ call.pc = "prescan" /\ i < obj[o].m_filesize /\ get(i)
      /\ call' = [call EXCEPT !.i = @ + 1]
      /\ map' = IF got'.val = Newline
                THEN [map EXCEPT !.m_line_starts = Append(@, i + 1)] ELSE map
  BY DEF Prescanned
<1>2. /\ call \in Calls /\ map \in Maps /\ i \in Nat /\ StartsWithin(i)
      /\ map # NoMap /\ o \in Objs
  BY <1>1, Busy DEF AllInv, MapInv
<1>3. i \in 0..(Size - 1) /\ Size \in Nat
  BY <1>1, <1>2, Busy
<1>4. map'.source = o /\ map'.m_line_starts \in {s, Append(s, i + 1)}
  BY <1>1, <1>2 DEF Maps
<1>5. Next /\ Inv' /\ file' = file /\ Size' = Size /\ Owns(map.source)'
  BY <1>1, <1>3, <1>4, CallReads
<1>6. call'.pc = "prescan" /\ call'.i = i + 1 /\ call' \in Calls
  BY <1>1, <1>2 DEF Calls
<1>7. /\ s \in Seq(Nat) /\ Len(s) \in Nat /\ Len(s) >= 1 /\ s[1] = 0
      /\ \A k \in 1..Len(s) : s[k] \in Nat /\ s[k] <= i
      /\ \A k \in 1..(Len(s) - 1) : s[k] < s[k + 1]
  BY <1>2 DEF StartsWithin, num_lines
<1>8. /\ map' \in Maps /\ StartsWithin(call.i)'
  <2> DEFINE t == map'.m_line_starts
  <2>1. /\ t \in Seq(Nat) /\ Len(t) >= 1 /\ t[1] = 0
        /\ \A k \in 1..Len(t) : t[k] <= i + 1
        /\ \A k \in 1..(Len(t) - 1) : t[k] < t[k + 1]
    <3> HIDE DEF s, t, i
    <3>1. CASE t = s
      <4>1. \A k \in 1..Len(s) : s[k] <= i + 1
        BY <1>2, <1>7
      <4> QED
        BY <3>1, <4>1, <1>7
    <3>2. CASE t = Append(s, i + 1)
      BY <3>2, <1>2, <1>7, StartsGrow
    <3> QED
      BY <1>4, <3>1, <3>2 DEF s, t, i
  <2>2. map' \in Maps
    BY <1>1, <1>2, <2>1 DEF Maps
  <2> QED
    BY <1>6, <2>1, <2>2 DEF StartsWithin, num_lines
<1>9. (map # NoMap)' /\ (map.source \in Objs)' /\ (call.i <= Size)'
  <2>1. NoMap' = NoMap /\ Objs' = Objs
    BY DEF NoMap
  <2> QED
    BY <1>2, <1>3, <1>4, <1>5, <1>6, <2>1, NoMapType
<1>10. (Mapped /\ call \in Calls /\ call.pc = "prescan" /\ call.i <= Size
        /\ StartsWithin(call.i))'
  BY <1>5, <1>6, <1>8, <1>9 DEF Mapped, Calls, Maps
<1>11. MapInv'
  BY <1>10, PrescanMapInv, PTL
<1> QED
  BY <1>5, <1>11 DEF AllInv

\* A step that leaves the file and the map alone keeps what is known of them.
LEMMA Unmoved ==
  ASSUME AllInv, UNCHANGED <<map, vars>>
  PROVE  /\ Inv' /\ [Next]_vars /\ (map \in Maps)'
         /\ Mapped' <=> Mapped
         /\ StartsWithin(Size)' <=> StartsWithin(Size)
         /\ file' = file
<1>1. /\ Inv' /\ [Next]_vars /\ file' = file /\ Size' = Size /\ map' = map
      /\ \A o : Owns(o)' <=> Owns(o)
  BY Apart
<1>2. Owns(map.source)' <=> Owns(map.source)
  BY <1>1 DEF Owns, Live, vars
<1>3. StartsWithin(Size)' <=> StartsWithin(Size)
  BY <1>1 DEF StartsWithin, num_lines
<1>4. (map \in Maps)' /\ (map # NoMap)' = (map # NoMap)
  BY <1>1 DEF AllInv, MapInv, Maps, NoMap
<1>5. (map \in Maps /\ map.source \in Objs)' = (map \in Maps /\ map.source \in Objs)
  BY <1>1 DEF Maps
<1>6. Mapped' <=> Mapped
  BY <1>1, <1>2, <1>4, <1>5 DEF Mapped
<1> QED
  BY <1>1, <1>3, <1>4, <1>6

\* The constructor ends with the line starts of the whole file.
LEMMA MapReadyOK ==
  ASSUME AllInv, MapReady
  PROVE  AllInv' /\ [Next]_vars
<1>1. /\ call.pc = "prescan" /\ call.i = obj[map.source].m_filesize
      /\ (call = Idle)' /\ UNCHANGED <<map, vars>>
  BY DEF MapReady, Idle, Begun
<1>2. Mapped /\ StartsWithin(Size)
  BY <1>1, Busy DEF AllInv, MapInv, Mapped
<1>3. Inv' /\ [Next]_vars /\ (map \in Maps)' /\ Mapped' /\ StartsWithin(Size)'
  BY <1>1, <1>2, Unmoved
<1>4. (map # NoMap => map.source \in Objs /\ Owns(map.source) /\ StartsWithin(Size))'
  BY <1>3 DEF Mapped
<1>5. MapInv'
  BY <1>1, <1>3, <1>4, IdleMapInv, PTL
<1> QED
  BY <1>3, <1>5 DEF AllInv

\* Without a map the invariant says nothing of one.
LEMMA MapDroppedOK ==
  ASSUME AllInv, MapDropped
  PROVE  AllInv' /\ [Next]_vars
<1>1. UNCHANGED vars /\ (call = Idle)' /\ map' = NoMap
  BY DEF MapDropped, Idle, Begun
<1>2. (map = NoMap)' /\ (map \in Maps)'
  BY <1>1, NoMapType DEF NoMap, Maps
<1>3. (map # NoMap => map.source \in Objs /\ Owns(map.source) /\ StartsWithin(Size))'
  BY <1>2
<1>4. MapInv'
  BY <1>1, <1>2, <1>3, IdleMapInv, PTL
<1> QED
  BY <1>1, <1>4, Apart DEF AllInv

\* A result that was read leaves the map as it is.
LEMMA ForgottenOK ==
  ASSUME AllInv, Forgotten
  PROVE  AllInv' /\ [Next]_vars
<1>1. call.pc = "done" /\ (call = Idle)' /\ UNCHANGED <<map, vars>>
  BY DEF Forgotten, Idle, Begun
<1>2. Mapped /\ StartsWithin(Size)
  BY <1>1, Busy DEF AllInv, MapInv, Mapped, Ready
<1>3. Inv' /\ [Next]_vars /\ (map \in Maps)' /\ Mapped' /\ StartsWithin(Size)'
  BY <1>1, <1>2, Unmoved
<1>4. (map # NoMap => map.source \in Objs /\ Owns(map.source) /\ StartsWithin(Size))'
  BY <1>3 DEF Mapped
<1>5. MapInv'
  BY <1>1, <1>3, <1>4, IdleMapInv, PTL
<1> QED
  BY <1>3, <1>5 DEF AllInv

\* line_content begins at the start of its line, or returns at once.
LEMMA LineContentCalledOK ==
  ASSUME AllInv, NEW line \in 0..(num_lines + 1), LineContentCalled(line)
  PROVE  AllInv' /\ [Next]_vars
<1>1. /\ map # NoMap /\ call = Idle /\ UNCHANGED <<map, vars>>
      /\ call' = IF line = 0 \/ line > num_lines
                 THEN Begun("done", line, 0, 0)
                 ELSE Begun("trim", line, map.m_line_starts[line], LineEnd(line))
  BY DEF LineContentCalled
<1>2. Mapped /\ StartsWithin(Size)
  <2>1. Ready
    BY <1>1 DEF Ready, Idle, Begun
  <2> QED
    BY <1>1, <2>1 DEF AllInv, MapInv, Mapped
<1>3. Inv' /\ [Next]_vars /\ Mapped' /\ StartsWithin(Size)' /\ file' = file
  BY <1>1, <1>2, Unmoved
<1>4. /\ num_lines' = num_lines /\ LineEnd(line)' = LineEnd(line)
      /\ line_view(line)' = line_view(line)
  BY <1>1, <1>3, SameLines
<1>5. <<>> \in Seq(Int) /\ num_lines \in Nat /\ Size \in Nat
  BY <1>2, EmptySeq, FileSourceAssumption
     DEF StartsWithin, num_lines, AllInv, Inv, TypeOK, Size
<1>6. (call \in Calls /\ call.pc \in {"trim", "copy", "done"} /\ InContent)'
  <2>1. CASE line = 0 \/ line > num_lines
    <3>1. /\ call' \in Calls /\ call'.pc = "done" /\ call'.line = line
          /\ call'.result = <<>>
      BY <1>1, <1>5, <2>1 DEF Begun, Calls
    <3>2. line_view(line)' = <<>>
      BY <1>4, <2>1 DEF line_view
    <3>3. line_view(call.line)' = <<>>
      BY <3>1, <3>2 DEF line_view
    <3> QED
      BY <3>1, <3>3 DEF InContent, Calls
  <2>2. CASE ~ (line = 0 \/ line > num_lines)
    <3>1. line \in 1..num_lines
      BY <1>5, <2>2
    <3>2. /\ map.m_line_starts[line] \in Nat /\ LineEnd(line) \in Nat
          /\ map.m_line_starts[line] <= LineEnd(line)
      BY <3>1, <1>2, <1>5, LineBounds
    <3>3. /\ call' \in Calls /\ call'.pc = "trim" /\ call'.line = line
          /\ call'.result = <<>> /\ call'.i = map.m_line_starts[line]
          /\ call'.end = LineEnd(line)
      BY <1>1, <1>5, <2>2, <3>2 DEF Begun, Calls
    <3>4. LineEnd(call.line)' = LineEnd(line)
      BY <1>1, <1>3, <3>3, SameLines DEF LineEnd, num_lines, Size
    <3>5. num_lines' = num_lines /\ map'.m_line_starts = map.m_line_starts
      BY <1>1 DEF num_lines
    <3>6. InLine'
      BY <3>1, <3>2, <3>3, <3>5 DEF InLine
    <3>7. /\ call'.end = LineEnd(call.line)' /\ call'.result = <<>>
          /\ call'.i = map'.m_line_starts[call'.line]
      BY <3>3, <3>4, <3>5
    <3> QED
      BY <3>3, <3>6, <3>7 DEF InContent
  <2> QED
    BY <2>1, <2>2
<1>7. MapInv'
  BY <1>3, <1>6, ContentMapInv, PTL
<1> QED
  BY <1>3, <1>7 DEF AllInv

\* What is known while line_content works on a line.
LEMMA Working ==
  ASSUME AllInv, call.pc \in {"trim", "copy"}
  PROVE  /\ Mapped /\ StartsWithin(Size) /\ InLine /\ InContent /\ call \in Calls
         /\ call.i \in Nat /\ call.end \in Nat /\ Size \in Nat /\ call.end <= Size
         /\ map.m_line_starts[call.line] \in Nat
         /\ map.m_line_starts[call.line] <= call.i /\ call.i <= call.end
         /\ file \in Seq(Int) /\ Size = Len(file)
<1>1. Mapped /\ StartsWithin(Size)
  BY Busy DEF AllInv, MapInv, Mapped, Ready
<1>2. InLine /\ InContent /\ call \in Calls
  BY DEF AllInv, MapInv, InContent
<1>3. Size \in Nat /\ file \in Seq(Int) /\ Size = Len(file)
  BY Busy
<1>4. call.line \in 1..num_lines /\ call.end \in {LineEnd(call.line), TextEnd(call.line)}
  BY <1>2 DEF InLine, InContent
<1>5. /\ call.end \in Nat /\ call.end <= Size /\ map.m_line_starts[call.line] \in Nat
  BY <1>1, <1>3, <1>4, LineBounds
<1> QED
  BY <1>1, <1>2, <1>3, <1>5 DEF InLine

\* The step that leaves map and file alone leaves the line alone.
LEMMA SameLine ==
  ASSUME map' = map, file' = file, call'.line = call.line
  PROVE  /\ num_lines' = num_lines
         /\ map'.m_line_starts[call'.line] = map.m_line_starts[call.line]
         /\ TextEnd(call.line)' = TextEnd(call.line)
         /\ line_view(call.line)' = line_view(call.line)
  BY DEF num_lines, Size, LineEnd, TextEnd, line_view

\* Nothing is copied yet.
LEMMA NothingCopied ==
  ASSUME AllInv, call.pc = "trim", map' = map, file' = file,
         call'.pc = "copy", call'.line = call.line, call'.i = call.i,
         call'.end = TextEnd(call.line), call'.result = call.result
  PROVE  InContent'
<1> DEFINE st == map.m_line_starts[call.line]
<1>1. /\ call.i = st /\ call.result = <<>> /\ st \in Nat /\ StartsWithin(Size)
      /\ call.line \in 1..num_lines /\ Size \in Nat
  BY Working DEF InContent, InLine
<1>2. st <= TextEnd(call.line) /\ TextEnd(call.line) \in Nat
  BY <1>1, LineBounds
<1>3. SubSeq(file', st + 1, st) = <<>>
  BY <1>1, SubSeqEmpty
<1>4. /\ map'.m_line_starts[call'.line] = st /\ TextEnd(call.line)' = TextEnd(call.line)
      /\ num_lines' = num_lines
  BY SameLine
<1> HIDE DEF st
<1> QED
  BY <1>1, <1>2, <1>3, <1>4 DEF InLine, InContent

\* An empty line has no item to trim.
LEMMA EmptyLineOK ==
  ASSUME AllInv, EmptyLine
  PROVE  AllInv' /\ [Next]_vars
<1>1. /\ call.pc = "trim" /\ call.end = call.i /\ UNCHANGED <<map, vars>>
      /\ call' = [call EXCEPT !.pc = "copy"]
  BY DEF EmptyLine
<1>2. /\ Mapped /\ StartsWithin(Size) /\ InContent /\ call \in Calls
      /\ call.i \in Nat
  BY <1>1, Working
<1>3. /\ Inv' /\ [Next]_vars /\ Mapped' /\ StartsWithin(Size)' /\ file' = file
  BY <1>1, <1>2, Unmoved
<1>4. /\ call'.pc = "copy" /\ call'.line = call.line /\ call'.i = call.i
      /\ call'.end = call.end /\ call'.result = call.result /\ (call \in Calls)'
  BY <1>1, <1>2 DEF Calls
<1>5. call.end = TextEnd(call.line)
  BY <1>1, <1>2 DEF InContent, TextEnd
<1>6. InContent'
  BY <1>1, <1>3, <1>4, <1>5, NothingCopied
<1>7. (call.pc \in {"trim", "copy", "done"})'
  BY <1>4
<1>8. MapInv'
  BY <1>3, <1>4, <1>6, <1>7, ContentMapInv, PTL
<1> QED
  BY <1>3, <1>8 DEF AllInv

\* A read of line_content: the map and the file stay.
LEMMA ContentReads ==
  ASSUME AllInv, call.pc \in {"trim", "copy"}, UNCHANGED map,
         NEW i \in 0..(Size - 1), get(i)
  PROVE  /\ Next /\ Inv' /\ file' = file /\ Mapped' /\ StartsWithin(Size)'
         /\ got'.val = file[i + 1]
<1>1. /\ Next /\ Inv' /\ file' = file /\ Size' = Size /\ Owns(map.source)'
      /\ got'.val = file[i + 1]
  BY CallReads
<1>2. Mapped /\ StartsWithin(Size)
  BY Working
<1>3. StartsWithin(Size)'
  BY <1>1, <1>2 DEF StartsWithin, num_lines
<1>4. Mapped'
  BY <1>1, <1>2 DEF Mapped, Maps, NoMap
<1> QED
  BY <1>1, <1>3, <1>4

\* A \r before the end of a line is left out, as in line_view.
LEMMA TrimmedOK ==
  ASSUME AllInv, Trimmed
  PROVE  AllInv' /\ [Next]_vars
<1> DEFINE i == call.end - 1
<1>1. /\ call.pc = "trim" /\ call.end > call.i /\ get(i) /\ UNCHANGED map
      /\ call' = [call EXCEPT !.pc = "copy",
                              !.end = IF got'.val = Return THEN @ - 1 ELSE @]
  BY DEF Trimmed
<1>2. /\ InContent /\ call \in Calls /\ call.i \in Nat /\ call.end \in Nat
      /\ Size \in Nat /\ call.end <= Size
  BY <1>1, Working
<1>3. i \in 0..(Size - 1) /\ i + 1 = call.end
  BY <1>1, <1>2
<1> HIDE DEF i
<1>4. /\ Next /\ Inv' /\ file' = file /\ Mapped' /\ StartsWithin(Size)'
      /\ got'.val = file[call.end]
  BY <1>1, <1>3, ContentReads
<1>5. /\ call'.pc = "copy" /\ call'.line = call.line /\ call'.i = call.i
      /\ call'.end = IF file[call.end] = Return THEN call.end - 1 ELSE call.end
      /\ call'.result = call.result /\ (call \in Calls)'
  <2> DEFINE e == IF file[call.end] = Return THEN call.end - 1 ELSE call.end
  <2>1. e \in Nat
    BY <1>1, <1>2
  <2>2. call' = [call EXCEPT !.pc = "copy", !.end = e]
    BY <1>1, <1>4
  <2> HIDE DEF e
  <2>3. /\ call'.pc = "copy" /\ call'.line = call.line /\ call'.i = call.i
        /\ call'.end = e /\ call'.result = call.result /\ (call \in Calls)'
    BY <1>2, <2>1, <2>2 DEF Calls
  <2> QED
    BY <2>3 DEF e
<1>6. call'.end = TextEnd(call.line)
  BY <1>1, <1>2, <1>5 DEF InContent, TextEnd
<1>7. InContent'
  BY <1>1, <1>4, <1>5, <1>6, NothingCopied
<1>8. (call.pc \in {"trim", "copy", "done"})'
  BY <1>5
<1>9. MapInv'
  BY <1>4, <1>5, <1>7, <1>8, ContentMapInv, PTL
<1> QED
  BY <1>4, <1>9 DEF AllInv

\* An iteration of line_content adds the next item of the line.
LEMMA CopiedOK ==
  ASSUME AllInv, Copied
  PROVE  AllInv' /\ [Next]_vars
<1> DEFINE i == call.i
           st == map.m_line_starts[call.line]
<1>1. /\ call.pc = "copy" /\ i < call.end /\ get(i) /\ UNCHANGED map
      /\ call' = [call EXCEPT !.i = @ + 1, !.result = Append(@, got'.val)]
  BY DEF Copied
<1>2. /\ InContent /\ InLine /\ call \in Calls /\ i \in Nat /\ call.end \in Nat
      /\ Size \in Nat /\ call.end <= Size /\ st \in Nat /\ st <= i
      /\ file \in Seq(Int) /\ Size = Len(file)
  BY <1>1, Working
<1>3. i \in 0..(Size - 1) /\ i < Len(file)
  BY <1>1, <1>2
<1>4. /\ Next /\ Inv' /\ file' = file /\ Mapped' /\ StartsWithin(Size)'
      /\ got'.val = file[i + 1]
  BY <1>1, <1>3, ContentReads
<1>5. file[i + 1] \in Int
  BY <1>2, <1>3, ElementOfSeq
<1>6. /\ call.result = SubSeq(file, st + 1, i) /\ call.end = TextEnd(call.line)
  BY <1>1, <1>2 DEF InContent
<1>7. call.result \in Seq(Int)
  BY <1>2 DEF Calls
<1>8. Append(call.result, file[i + 1]) \in Seq(Int)
  BY <1>5, <1>7, AppendProperties
<1>9. /\ call'.pc = "copy" /\ call'.line = call.line /\ call'.i = i + 1
      /\ call'.end = call.end /\ call'.result = Append(call.result, file[i + 1])
      /\ (call \in Calls)'
  <2> DEFINE r == Append(call.result, file[i + 1])
  <2>1. call' = [call EXCEPT !.i = i + 1, !.result = r] /\ i + 1 \in Nat
    BY <1>1, <1>2, <1>4
  <2>2. r \in Seq(Int)
    BY <1>8
  <2> HIDE DEF r
  <2>3. /\ call'.pc = "copy" /\ call'.line = call.line /\ call'.i = i + 1
        /\ call'.end = call.end /\ call'.result = r /\ (call \in Calls)'
    BY <1>1, <1>2, <2>1, <2>2 DEF Calls
  <2> QED
    BY <2>3 DEF r
<1>10. Append(call.result, file[i + 1]) = SubSeq(file, st + 1, i + 1)
  <2> HIDE DEF i, st
  <2> QED
    BY <1>2, <1>3, <1>6, OneMore
<1>11. /\ map'.m_line_starts[call'.line] = st /\ TextEnd(call.line)' = TextEnd(call.line)
       /\ num_lines' = num_lines
  BY <1>1, <1>4, <1>9, SameLine
<1>12. i + 1 \in Nat /\ st <= i + 1 /\ i + 1 <= call.end
  BY <1>1, <1>2
<1> HIDE DEF i, st
<1>13. InContent'
  BY <1>2, <1>4, <1>6, <1>9, <1>10, <1>11, <1>12 DEF InContent, InLine
<1>14. (call.pc \in {"trim", "copy", "done"})'
  BY <1>9
<1>15. MapInv'
  BY <1>4, <1>9, <1>13, <1>14, ContentMapInv, PTL
<1> QED
  BY <1>4, <1>15 DEF AllInv

\* line_content returns what line_view does.
LEMMA LineReturnedOK ==
  ASSUME AllInv, LineReturned
  PROVE  AllInv' /\ [Next]_vars
<1>1. /\ call.pc = "copy" /\ call.i = call.end /\ UNCHANGED <<map, vars>>
      /\ call' = [call EXCEPT !.pc = "done"]
  BY DEF LineReturned
<1>2. Mapped /\ StartsWithin(Size) /\ InContent /\ InLine /\ call \in Calls
  BY <1>1, Working
<1>3. /\ Inv' /\ [Next]_vars /\ Mapped' /\ StartsWithin(Size)' /\ file' = file
  BY <1>1, <1>2, Unmoved
<1>4. /\ call'.pc = "done" /\ call'.line = call.line
      /\ call'.result = call.result /\ (call \in Calls)'
  BY <1>1, <1>2 DEF Calls
<1>5. num_lines \in Nat
  BY <1>2 DEF StartsWithin, num_lines
<1>6. call.result = line_view(call.line)
  <2>1. call.line # 0 /\ ~ (call.line > num_lines)
    BY <1>2, <1>5 DEF InLine
  <2>2. call.result = SubSeq(file, map.m_line_starts[call.line] + 1, TextEnd(call.line))
    BY <1>1, <1>2 DEF InContent
  <2> QED
    BY <2>1, <2>2 DEF line_view
<1>7. InContent'
  BY <1>1, <1>3, <1>4, <1>6, SameLine DEF InContent
<1>8. (call.pc \in {"trim", "copy", "done"})'
  BY <1>4
<1>9. MapInv'
  BY <1>3, <1>4, <1>7, <1>8, ContentMapInv, PTL
<1> QED
  BY <1>3, <1>9 DEF AllInv

-----------------------------------------------------------------------------

\* No map: the invariant holds.
LEMMA MapInitInv == MapInit => AllInv
<1> SUFFICES ASSUME Init, map = NoMap, call = Idle PROVE AllInv
  BY DEF MapInit
<1>1. Inv
  BY InitInv
<1>2. MapInv
  BY IdleMapInv, NoMapType
<1> QED
  BY <1>1, <1>2 DEF AllInv

\* Every step of a mapped FileSource keeps the invariant and is a step, or a
\* stutter, of FileSource.
LEMMA MapNextInv == AllInv /\ [MapNext]_mapvars => AllInv' /\ [Next]_vars
<1> SUFFICES ASSUME AllInv, [MapNext]_mapvars PROVE AllInv' /\ [Next]_vars
  OBVIOUS
<1>1. CASE UNCHANGED mapvars
  <2>1. UNCHANGED vars /\ map' = map /\ call' = call /\ file' = file
    BY <1>1 DEF mapvars, vars
  <2>2. /\ Inv' /\ [Next]_vars /\ Size' = Size /\ \A o : Owns(o)' <=> Owns(o)
    BY <2>1, Apart
  <2>3. Owns(map.source)' <=> Owns(map.source)
    BY <2>1 DEF Owns, Live, vars
  <2>4. MapInv'
    BY <2>1, <2>2, <2>3
       DEF AllInv, MapInv, InLine, Ready, LineContentAgrees, StartsWithin, num_lines,
           LineEnd, TextEnd, line_view, Maps, Calls, NoMap, Idle, Begun
  <2> QED
    BY <2>2, <2>4 DEF AllInv
<1>2. CASE SourceStep
  BY <1>2, SourceStepOK
<1>3. CASE \E o \in Objs : MapOpened(o)
  BY <1>3, MapOpenedOK
<1>4. CASE Prescanned
  BY <1>4, PrescannedOK
<1>5. CASE MapReady
  BY <1>5, MapReadyOK
<1>6. CASE \E line \in 0..(num_lines + 1) : LineContentCalled(line)
  BY <1>6, LineContentCalledOK
<1>7. CASE Trimmed
  BY <1>7, TrimmedOK
<1>8. CASE EmptyLine
  BY <1>8, EmptyLineOK
<1>9. CASE Copied
  BY <1>9, CopiedOK
<1>10. CASE LineReturned
  BY <1>10, LineReturnedOK
<1>11. CASE Forgotten
  BY <1>11, ForgottenOK
<1>12. CASE MapDropped
  BY <1>12, MapDroppedOK
<1> QED
  BY <1>1, <1>2, <1>3, <1>4, <1>5, <1>6, <1>7, <1>8, <1>9, <1>10, <1>11, <1>12
     DEF MapNext

-----------------------------------------------------------------------------
(* The lookups.                                                            *)

\* The line starts of the first n items, but for the first, are the items that
\* are newlines, in their order.
StartsExact(n) ==
  /\ \A j \in 1..num_lines : \A k \in 1..num_lines :
       j < k => map.m_line_starts[j] < map.m_line_starts[k]
  /\ \A j \in 2..num_lines :
       /\ map.m_line_starts[j] \in 1..n
       /\ file[map.m_line_starts[j]] = Newline
  /\ \A k \in 1..n :
       file[k] = Newline => \E j \in 2..num_lines : map.m_line_starts[j] = k

ExactInv ==
  /\ call.pc = "prescan" => StartsExact(call.i)
  /\ Ready => StartsExact(Size)

\* A scan of one more item keeps the line starts exact.
LEMMA PrescannedExact ==
  ASSUME AllInv, ExactInv, Prescanned
  PROVE  call'.pc = "prescan" /\ StartsExact(call.i)'
<1> DEFINE o == map.source
           i == call.i
           s == map.m_line_starts
           t == map'.m_line_starts
           n == Len(s)
<1>1. /\ call.pc = "prescan" /\ i < obj[o].m_filesize /\ get(i)
      /\ call' = [call EXCEPT !.i = @ + 1]
      /\ map' = IF got'.val = Newline
                THEN [map EXCEPT !.m_line_starts = Append(@, i + 1)] ELSE map
  BY DEF Prescanned
<1>2. /\ call \in Calls /\ map \in Maps /\ i \in Nat /\ StartsWithin(i)
  BY <1>1, Busy DEF AllInv, MapInv
<1>3. i \in 0..(Size - 1) /\ Size \in Nat
  BY <1>1, <1>2, Busy
<1>4. map'.source = o
  BY <1>1, <1>2 DEF Maps
<1>5. file' = file /\ got'.val = file[i + 1]
  BY <1>1, <1>3, <1>4, CallReads
<1>6. call'.pc = "prescan" /\ call'.i = i + 1
  BY <1>1, <1>2 DEF Calls
<1>7. t = IF file[i + 1] = Newline THEN Append(s, i + 1) ELSE s
  BY <1>1, <1>2, <1>5 DEF Maps
<1>8. /\ s \in Seq(Nat) /\ n \in Nat /\ n >= 1
      /\ \A k \in 1..n : s[k] \in Nat /\ s[k] <= i
  BY <1>2 DEF StartsWithin, num_lines
<1>9. /\ \A j \in 1..n : \A k \in 1..n : j < k => s[j] < s[k]
      /\ \A j \in 2..n : s[j] \in 1..i /\ file[s[j]] = Newline
      /\ \A k \in 1..i : file[k] = Newline => \E j \in 2..n : s[j] = k
  BY <1>1 DEF ExactInv, StartsExact, num_lines
<1> HIDE DEF s, t, n, i
<1>10. /\ \A j \in 1..Len(t) : \A k \in 1..Len(t) : j < k => t[j] < t[k]
       /\ \A j \in 2..Len(t) : t[j] \in 1..(i + 1) /\ file[t[j]] = Newline
       /\ \A k \in 1..(i + 1) : file[k] = Newline => \E j \in 2..Len(t) : t[j] = k
  <2>1. CASE file[i + 1] = Newline
    <3>1. /\ Len(t) = n + 1 /\ t[n + 1] = i + 1 /\ \A k \in 1..n : t[k] = s[k]
      BY <1>2, <1>7, <1>8, <2>1, AppendProperties DEF n
    <3>2. ASSUME NEW j \in 1..(n + 1), NEW k \in 1..(n + 1), j < k
          PROVE  t[j] < t[k]
      <4>1. j \in 1..n
        BY <3>2, <1>8
      <4>2. CASE k = n + 1
        BY <4>1, <4>2, <3>1, <1>8, <1>2
      <4>3. CASE k # n + 1
        BY <4>1, <4>3, <3>1, <3>2, <1>8, <1>9
      <4> QED
        BY <4>2, <4>3
    <3>3. ASSUME NEW j \in 2..(n + 1)
          PROVE  t[j] \in 1..(i + 1) /\ file[t[j]] = Newline
      <4>1. CASE j = n + 1
        BY <4>1, <3>1, <2>1, <1>2
      <4>2. CASE j # n + 1
        <5>1. j \in 2..n /\ j \in 1..n
          BY <4>2, <1>8
        <5> QED
          BY <5>1, <3>1, <1>9, <1>2
      <4> QED
        BY <4>1, <4>2
    <3>4. ASSUME NEW k \in 1..(i + 1), file[k] = Newline
          PROVE  \E j \in 2..(n + 1) : t[j] = k
      <4>1. CASE k = i + 1
        <5>1. n + 1 \in 2..(n + 1)
          BY <1>8
        <5> QED
          BY <5>1, <4>1, <3>1
      <4>2. CASE k # i + 1
        <5>1. k \in 1..i
          BY <4>2, <1>2
        <5>2. PICK j \in 2..n : s[j] = k
          BY <5>1, <3>4, <1>9
        <5>3. j \in 2..(n + 1) /\ j \in 1..n
          BY <1>8
        <5> QED
          BY <5>2, <5>3, <3>1
      <4> QED
        BY <4>1, <4>2
    <3> QED
      BY <3>1, <3>2, <3>3, <3>4
  <2>2. CASE file[i + 1] # Newline
    <3>1. t = s
      BY <1>7, <2>2
    <3>2. \A j \in 2..n : s[j] \in 1..(i + 1)
      BY <1>9, <1>2
    <3>3. \A k \in 1..(i + 1) : file[k] = Newline => k \in 1..i
      BY <2>2, <1>2
    <3> QED
      BY <3>1, <3>2, <3>3, <1>9 DEF n
  <2> QED
    BY <2>1, <2>2
<1> QED
  BY <1>5, <1>6, <1>10 DEF StartsExact, num_lines, t

\* The line starts are exact while the map and the file stay.
LEMMA StillExact ==
  ASSUME map' = map, file' = file
  PROVE  Size' = Size /\ \A n : StartsExact(n)' <=> StartsExact(n)
  BY DEF StartsExact, num_lines, Size

\* Every step keeps the line starts exact.
LEMMA ExactNext == AllInv /\ ExactInv /\ [MapNext]_mapvars => ExactInv'
<1> SUFFICES ASSUME AllInv, ExactInv, [MapNext]_mapvars PROVE ExactInv'
  OBVIOUS
<1>1. AllInv' /\ [Next]_vars
  BY MapNextInv
<1>2. file' = file
  BY <1>1, SameFile
<1>3. CASE map' = map /\ Ready /\ Ready'
  <2>1. StartsExact(Size)'
    BY <1>2, <1>3, StillExact DEF ExactInv, StartsExact, num_lines, Size
  <2> QED
    BY <1>3, <2>1 DEF ExactInv, Ready
<1>4. CASE map' = NoMap
  <2>1. call'.pc # "prescan" /\ ~ Ready'
    BY <1>1, <1>4 DEF AllInv, MapInv, Ready, NoMap
  <2> QED
    BY <2>1 DEF ExactInv
<1>5. CASE Prescanned
  <2>1. call'.pc = "prescan" /\ StartsExact(call.i)'
    BY <1>5, PrescannedExact
  <2> QED
    BY <2>1 DEF ExactInv, Ready
<1>6. CASE MapReady
  <2>1. call.pc = "prescan" /\ call.i = Size /\ call' = Idle /\ map' = map
    BY <1>6, Busy DEF MapReady
  <2>2. StartsExact(Size)
    BY <2>1 DEF ExactInv
  <2>3. StartsExact(Size)'
    BY <1>2, <2>1, <2>2, StillExact DEF StartsExact, num_lines, Size
  <2>4. call'.pc # "prescan"
    BY <2>1 DEF Idle, Begun
  <2> QED
    BY <2>3, <2>4 DEF ExactInv
<1>7. CASE \E o \in Objs : MapOpened(o)
  <2>1. PICK o \in Objs : map' = [source |-> o, m_line_starts |-> <<0>>]
                          /\ call' = Begun("prescan", 0, 0, 0)
    BY <1>7 DEF MapOpened
  <2>2. map'.m_line_starts = <<0>> /\ call'.pc = "prescan" /\ call'.i = 0
    BY <2>1 DEF Begun
  <2>3. Len(map'.m_line_starts) = 1
    BY <2>2
  <2>4. StartsExact(call.i)'
    BY <2>2, <2>3 DEF StartsExact, num_lines
  <2> QED
    BY <2>2, <2>4 DEF ExactInv, Ready
<1>8. CASE UNCHANGED mapvars
  <2>1. map' = map /\ call' = call
    BY <1>8 DEF mapvars
  <2> QED
    BY <2>1, <1>2 DEF ExactInv, Ready, StartsExact, num_lines, Size, NoMap
<1>9. CASE SourceStep
  <2>1. map' = map /\ call' = call /\ call.pc = "idle"
    BY <1>9 DEF SourceStep, Idle, Begun
  <2> QED
    BY <2>1, <1>2 DEF ExactInv, Ready, StartsExact, num_lines, Size, NoMap
<1>10. CASE \/ \E line \in 0..(num_lines + 1) : LineContentCalled(line)
            \/ Trimmed \/ EmptyLine \/ Copied \/ LineReturned \/ Forgotten
  <2>1. map' = map /\ call.pc \in {"idle", "trim", "copy", "done"} /\ map # NoMap
    BY <1>10 DEF LineContentCalled, Trimmed, EmptyLine, Copied, LineReturned,
                 Forgotten, AllInv, MapInv, Idle, Begun
  <2>2. call \in Calls
    BY DEF AllInv, MapInv
  <2>3. CASE \E line \in 0..(num_lines + 1) : LineContentCalled(line)
    <3>1. PICK line \in 0..(num_lines + 1) : LineContentCalled(line)
      BY <2>3
    <3>2. call'.pc \in {"done", "trim"}
      BY <3>1 DEF LineContentCalled, Begun
    <3> QED
      BY <2>1, <3>2, <1>3 DEF Ready, NoMap
  <2>4. CASE Trimmed
    <3>1. \A e : [call EXCEPT !.pc = "copy", !.end = e].pc = "copy"
      BY <2>2 DEF Calls
    <3>2. call'.pc = "copy"
      BY <2>4, <3>1 DEF Trimmed
    <3> QED
      BY <2>1, <3>2, <1>3 DEF Ready, NoMap
  <2>6. CASE EmptyLine \/ LineReturned \/ Forgotten
    <3>1. call'.pc \in {"idle", "copy", "done"}
      BY <2>2, <2>6 DEF EmptyLine, LineReturned, Forgotten, Idle, Begun, Calls
    <3> QED
      BY <2>1, <3>1, <1>3 DEF Ready, NoMap
  <2>5. CASE Copied
    <3>1. call'.pc = call.pc
      BY <2>2, <2>5 DEF Copied, Calls
    <3> QED
      BY <2>1, <3>1, <1>3 DEF Ready, NoMap
  <2> QED
    BY <1>10, <2>3, <2>4, <2>5, <2>6
<1>11. CASE MapDropped
  BY <1>11, <1>4 DEF MapDropped
<1> QED
  BY <1>5, <1>6, <1>7, <1>8, <1>9, <1>10, <1>11 DEF MapNext
\* What the invariants say of the line starts of a whole file, in one place: s
\* has a 0 and then, in their order, the newlines of the first size items of f.
LineStarts(s, n, f, size) ==
  /\ size \in Nat /\ n \in Nat /\ n >= 1 /\ s[1] = 0
  /\ \A k \in 1..n : s[k] \in Nat /\ s[k] <= size
  /\ \A j \in 1..n : \A k \in 1..n : j < k => s[j] < s[k]
  /\ \A j \in 2..n : s[j] \in 1..size /\ f[s[j]] = Newline
  /\ \A k \in 1..size : f[k] = Newline => \E j \in 2..n : s[j] = k

\* The lines that start at or before an offset.
Started(s, n, offset) == {k \in 1..n : s[k] <= offset}

\* Once the constructor has run, its line starts are those of the file.
LEMMA Starts ==
  ASSUME AllInv, ExactInv, Ready
  PROVE  /\ Size + 1 < SizeMod /\ SizeMod \in Nat
         /\ LineStarts(map.m_line_starts, num_lines, file, Size)
<1>1. file \in Files /\ Size = Len(file) /\ Size \in Nat
  BY FileSourceAssumption DEF AllInv, Inv, TypeOK, Size
<1>2. Size + 1 < SizeMod /\ SizeMod \in Nat
  BY <1>1, SourceMapAssumption
<1>3. StartsWithin(Size) /\ StartsExact(Size)
  BY DEF AllInv, MapInv, ExactInv
<1> QED
  BY <1>1, <1>2, <1>3 DEF StartsWithin, StartsExact, num_lines, LineStarts

\* The lines that start at or before an offset are the first few.
LEMMA LinesBefore ==
  ASSUME NEW s, NEW n, NEW f, NEW size, LineStarts(s, n, f, size),
         NEW offset \in Nat
  PROVE  \E l \in 1..n : Started(s, n, offset) = 1..l
<1>0. /\ n \in Nat /\ n >= 1 /\ s[1] = 0 /\ \A k \in 1..n : s[k] \in Nat
      /\ \A j \in 1..n : \A k \in 1..n : j < k => s[j] < s[k]
  BY DEF LineStarts
<1> DEFINE T == {k \in 1..n : s[k] <= offset}
           C == {k \in Nat : k >= 1 /\ k \notin T}
<1>1. 1 \in T
  BY <1>0
<1>2. n + 1 \in C /\ C \subseteq Nat
  BY <1>0
<1>3. PICK m \in C : \A y \in C : ~ (<<y, m>> \in OpToRel(<, Nat))
  <2>1. C # {}
    BY <1>2
  <2> QED
    BY <1>2, <2>1, WFMin, NatLessThanWellFounded, Zenon
<1>4. \A y \in C : ~ (y < m)
  BY <1>2, <1>3 DEF OpToRel
<1>5. m \in Nat /\ m >= 1 /\ m # 1 /\ m - 1 \in 1..n
  BY <1>0, <1>1, <1>2, <1>4
<1>6. \A k \in 1..(m - 1) : k \in T
  BY <1>0, <1>4, <1>5
<1>7. ASSUME NEW k \in T PROVE k \in 1..(m - 1)
  <2>1. CASE k = m
    BY <2>1
  <2>2. CASE k > m
    <3>1. m \in 1..n /\ k \in 1..n /\ s[m] < s[k] /\ s[k] <= offset
      BY <1>0, <1>5, <2>2
    <3>2. m \in T
      BY <1>0, <1>5, <3>1
    <3> QED
      BY <3>2
  <2>3. CASE k < m
    BY <1>5, <2>3
  <2> QED
    BY <1>5, <2>1, <2>2, <2>3
<1>8. T = 1..(m - 1)
  BY <1>6, <1>7
<1> QED
  BY <1>5, <1>8 DEF Started

\* There is a newline in the first few items for each of the lines that start
\* there, but for the first.
LEMMA NewlinesBefore ==
  ASSUME NEW s, NEW n, NEW f, NEW size, LineStarts(s, n, f, size),
         NEW offset \in Nat, NEW l \in 1..n, Started(s, n, offset) = 1..l
  PROVE  1 + Cardinality({k \in 1..size : k <= offset /\ f[k] = Newline}) = l
<1> DEFINE A == 2..l
           B == {k \in 1..size : k <= offset /\ f[k] = Newline}
           g == [j \in A |-> s[j]]
<1>0. /\ size \in Nat /\ n \in Nat /\ \A k \in 1..n : s[k] \in Nat
      /\ \A j \in 1..n : \A k \in 1..n : j < k => s[j] < s[k]
      /\ \A j \in 2..n : s[j] \in 1..size /\ f[s[j]] = Newline
      /\ \A k \in 1..size : f[k] = Newline => \E j \in 2..n : s[j] = k
  BY DEF LineStarts
<1>1. \A j \in A : j \in 2..n /\ j \in 1..n /\ j \in 1..l
  BY <1>0
<1>2. \A k \in 1..n : s[k] <= offset <=> k \in 1..l
  BY DEF Started
<1>3. g \in [A -> B]
  BY <1>0, <1>1, <1>2
<1>4. \A a, b \in A : g[a] = g[b] => a = b
  BY <1>0, <1>1
<1>5. ASSUME NEW k \in B PROVE \E j \in A : g[j] = k
  <2>1. PICK j \in 2..n : s[j] = k
    BY <1>0
  <2>2. j \in 1..l
    BY <1>0, <1>2, <2>1
  <2> QED
    BY <2>1, <2>2
<1> HIDE DEF g, B
<1>6. DOMAIN g = A
  BY <1>3
<1>7. g \in Bijection(A, B)
  BY <1>3, <1>4, <1>5, <1>6, Zenon DEF Bijection, Injection, Surjection, IsInjective
<1>8. IsFiniteSet(A) /\ Cardinality(A) = l - 1
  BY FS_Interval
<1>9. Cardinality(B) = l - 1
  BY <1>7, <1>8, FS_Bijection DEF ExistsBijection
<1> QED
  BY <1>9 DEF B

\* The column goes back to the offset, through the wrap of size_t.
LEMMA ThereAndBack ==
  ASSUME NEW M \in Nat, NEW s \in Nat, NEW offset \in Nat, s <= offset, offset < M
  PROVE  (s + (((offset - s + 1) % M) - 1)) % M = offset
<1>1. CASE offset - s + 1 = M
  <2>1. s = 0 /\ offset = M - 1 /\ M > 0
    BY <1>1
  <2>2. M % M = 0 /\ (0 - 1) % M = M - 1
    BY <2>1, SMT
  <2> QED
    BY <1>1, <2>1, <2>2
<1>2. CASE offset - s + 1 # M
  <2>1. offset - s + 1 \in 0..(M - 1) /\ M > 0
    BY <1>2
  <2>2. (offset - s + 1) % M = offset - s + 1
    BY <2>1
  <2>3. s + ((offset - s + 1) - 1) = offset
    OBVIOUS
  <2>4. offset % M = offset
    OBVIOUS
  <2> QED
    BY <2>2, <2>3, <2>4
<1> QED
  BY <1>1, <1>2

\* The line of an offset is the last that starts at or before it.
LEMMA LineOf ==
  ASSUME AllInv, ExactInv, Ready, NEW offset \in Nat
  PROVE  /\ LineAt(offset) \in 1..num_lines
         /\ locate(offset).line = LineAt(offset)
         /\ Started(map.m_line_starts, num_lines, offset) = 1..LineAt(offset)
<1> DEFINE s == map.m_line_starts
           n == num_lines
<1>1. LineStarts(s, n, file, Size)
  BY Starts
<1> HIDE DEF s, n
<1>2. PICK l \in 1..n : Started(s, n, offset) = 1..l
  BY <1>1, LinesBefore
<1>3. LineAt(offset) = l
  BY <1>1, <1>2, NewlinesBefore DEF LineAt
<1>4. Cardinality(1..l) = l
  BY <1>2, FS_Interval
<1>5. locate(offset).line = l
  BY <1>2, <1>4 DEF locate, s, n, Started
<1> QED
  BY <1>2, <1>3, <1>5 DEF s, n

\* locate and offset_of agree with the newlines of the file.
LEMMA LookupsHold == AllInv /\ ExactInv => LookupsAgree
<1> SUFFICES ASSUME AllInv, ExactInv, Ready
             PROVE  /\ num_lines = LineAt(Size)
                    /\ \A offset \in 0..npos :
                         LET l == locate(offset)
                         IN  /\ l.line = LineAt(offset)
                             /\ offset_of(l.line, l.column) = offset
  BY DEF LookupsAgree
<1> DEFINE s == map.m_line_starts
           n == num_lines
<1>1. /\ Size \in Nat /\ SizeMod \in Nat /\ n \in Nat /\ n >= 1
      /\ \A k \in 1..n : s[k] \in Nat /\ s[k] <= Size
  BY Starts DEF LineStarts
<1>2. n = LineAt(Size)
  <2>1. Started(s, n, Size) = 1..LineAt(Size) /\ LineAt(Size) \in 1..n
    BY <1>1, LineOf
  <2>2. n \in 1..LineAt(Size)
    BY <1>1, <2>1 DEF Started
  <2> QED
    BY <1>1, <2>1, <2>2
<1>3. ASSUME NEW offset \in 0..npos
      PROVE  /\ locate(offset).line = LineAt(offset)
             /\ offset_of(locate(offset).line, locate(offset).column) = offset
  <2>1. offset \in Nat /\ offset < SizeMod
    BY <1>1 DEF npos
  <2>2. PICK l \in 1..n : /\ l = LineAt(offset) /\ l = locate(offset).line
                          /\ Started(s, n, offset) = 1..l
    BY <2>1, LineOf
  <2>3. s[l] \in Nat /\ s[l] <= offset
    BY <1>1, <2>2 DEF Started
  <2>4. locate(offset).column = (offset - s[l] + 1) % SizeMod
    BY <2>2 DEF locate
  <2>5. ~ (l = 0 \/ l > n)
    BY <1>1
  <2> HIDE DEF s, n
  <2>6. \A c : offset_of(l, c) = (s[l] + (c - 1)) % SizeMod
    BY <2>5 DEF offset_of, s, n
  <2>7. offset_of(l, locate(offset).column) = offset
    BY <1>1, <2>1, <2>3, <2>4, <2>6, ThereAndBack
  <2> QED
    BY <2>2, <2>7
<1> QED
  BY <1>2, <1>3
\* The items of a line stand from its start to the start of the next.
LEMMA OfLine ==
  ASSUME AllInv, ExactInv, Ready, NEW line \in 1..num_lines, NEW k \in 1..Size
  PROVE  LineAt(k - 1) = line <=>
           /\ map.m_line_starts[line] < k
           /\ line < num_lines => k <= map.m_line_starts[line + 1]
<1> DEFINE s == map.m_line_starts
           n == num_lines
<1>1. /\ Size \in Nat /\ n \in Nat /\ n >= 1
      /\ \A j \in 1..n : s[j] \in Nat
      /\ \A j \in 1..n : \A m \in 1..n : j < m => s[j] < s[m]
  BY Starts DEF LineStarts
<1>2. k - 1 \in Nat
  BY <1>1
<1>3. PICK l \in 1..n : l = LineAt(k - 1) /\ Started(s, n, k - 1) = 1..l
  BY <1>2, LineOf
<1> HIDE DEF s, n
<1>4. \A j \in 1..n : s[j] <= k - 1 <=> j <= l
  BY <1>1, <1>3 DEF Started
<1>5. l = line <=> /\ s[line] < k
                   /\ line < n => k <= s[line + 1]
  <2>1. line \in 1..n
    BY DEF n
  <2>2. CASE line = n
    BY <1>1, <1>3, <1>4, <2>1, <2>2
  <2>3. CASE line < n
    <3>1. line + 1 \in 1..n
      BY <1>1, <2>1, <2>3
    <3> QED
      BY <1>1, <1>3, <1>4, <2>1, <2>3, <3>1
  <2> QED
    BY <1>1, <2>1, <2>2, <2>3
<1> QED
  BY <1>3, <1>5 DEF s, n

\* What remains of a line without the items that end it is what stands before
\* its text ends.
LEMMA Remains ==
  ASSUME AllInv, ExactInv, Ready, NEW line \in 1..num_lines
  PROVE  {k \in 1..Size : LineAt(k - 1) = line} \ (Terminators \cup LastReturn)
           = (map.m_line_starts[line] + 1)..TextEnd(line)
<1> DEFINE s == map.m_line_starts
           n == num_lines
           D == Terminators \cup LastReturn
           e == LineEnd(line)
           te == TextEnd(line)
<1>1. /\ Size \in Nat /\ n \in Nat /\ n >= 1
      /\ \A j \in 1..n : s[j] \in Nat /\ s[j] <= Size
      /\ \A j \in 1..n : \A m \in 1..n : j < m => s[j] < s[m]
      /\ \A j \in 2..n : s[j] \in 1..Size /\ file[s[j]] = Newline
      /\ \A k \in 1..Size : file[k] = Newline => \E j \in 2..n : s[j] = k
  BY Starts DEF LineStarts
<1>2. /\ s[line] \in Nat /\ e \in Nat /\ s[line] <= e /\ e <= Size
      /\ te \in Nat /\ s[line] <= te /\ te <= Size
  BY <1>1, LineBounds DEF AllInv, MapInv
<1>3. e = IF line < n THEN s[line + 1] - 1 ELSE Size
  BY DEF LineEnd
<1>4. te = IF e > s[line] /\ file[e] = Return THEN e - 1 ELSE e
  BY DEF TextEnd
<1>5. \A k \in 1..Size :
        k \in D <=> \/ file[k] = Newline
                    \/ file[k] = Return /\ k < Size /\ file[k + 1] = Newline
                    \/ k = Size /\ file[k] = Return
  BY DEF Terminators, LastReturn
<1>6. \A k \in 1..Size : LineAt(k - 1) = line <=>
        s[line] < k /\ (line < n => k <= s[line + 1])
  BY OfLine
<1>7. line \in 1..n /\ Newline # Return
  BY SourceMapAssumption
<1> HIDE DEF s, n, D, e, te
\* Between the start of a line and its end there is no newline.
<1>8. ASSUME NEW k \in 1..Size, s[line] < k, k <= e
      PROVE  file[k] # Newline
  <2> SUFFICES ASSUME file[k] = Newline PROVE FALSE
    OBVIOUS
  <2>1. PICK j \in 2..n : s[j] = k
    BY <1>1
  <2>2. j \in 1..n /\ j > line
    <3>1. j \in 1..n /\ ~ (j < line) /\ j # line
      BY <1>1, <1>7, <1>8, <2>1
    <3> QED
      BY <3>1, <1>7
  <2>3. line < n
    BY <1>1, <1>7, <2>2
  <2>4. line + 1 \in 1..n /\ (j = line + 1 \/ line + 1 < j)
    BY <1>1, <1>7, <2>2, <2>3
  <2>5. s[line + 1] <= k /\ s[line + 1] \in Nat
    BY <1>1, <2>1, <2>2, <2>4
  <2>6. e = s[line + 1] - 1
    BY <1>3, <2>3
  <2> QED
    BY <1>8, <2>5, <2>6
\* The end of the line is a newline or the end of the file.
<1>9. (e = Size /\ line = n) \/ (e + 1 \in 1..Size /\ file[e + 1] = Newline
                                 /\ line < n /\ s[line + 1] = e + 1)
  <2>1. CASE line < n
    <3>1. line + 1 \in 2..n
      BY <1>1, <1>7, <2>1
    <3>2. s[line + 1] \in 1..Size /\ file[s[line + 1]] = Newline
      BY <1>1, <3>1
    <3>3. e + 1 = s[line + 1]
      BY <1>3, <2>1, <3>2, <1>1
    <3> QED
      BY <2>1, <3>2, <3>3
  <2>2. CASE ~ (line < n)
    BY <1>1, <1>3, <1>7, <2>2
  <2> QED
    BY <2>1, <2>2
\* Of the items up to there only a return at the end is dropped.
<1>10. ASSUME NEW k \in 1..Size, s[line] < k, k <= e
       PROVE  k \in D <=> k = e /\ file[e] = Return
  <2>1. file[k] # Newline
    BY <1>8, <1>10
  <2>2. CASE k = e
    BY <1>1, <1>2, <1>5, <1>9, <2>1, <2>2
  <2>3. CASE k # e
    <3>1. k + 1 \in 1..Size /\ s[line] < k + 1 /\ k + 1 <= e
      BY <1>1, <1>2, <1>10, <2>3
    <3>2. file[k + 1] # Newline
      BY <1>8, <3>1
    <3>3. k # Size
      BY <1>2, <1>10, <2>3
    <3> QED
      BY <1>5, <2>1, <2>3, <3>2, <3>3
  <2> QED
    BY <2>2, <2>3
<1>11. ASSUME NEW k \in 1..Size
       PROVE  (LineAt(k - 1) = line /\ k \notin D) <=> (s[line] < k /\ k <= te)
  <2>1. CASE s[line] < k /\ k <= e
    <3>1. LineAt(k - 1) = line
      BY <1>2, <1>6, <1>9, <2>1
    <3>2. k \in D <=> k = e /\ file[e] = Return
      BY <1>10, <2>1
    <3>3. k <= te <=> ~ (k = e /\ file[e] = Return)
      BY <1>2, <1>4, <2>1
    <3> QED
      BY <2>1, <3>1, <3>2, <3>3
  <2>2. CASE k > e
    <3>1. ~ (k <= te)
      BY <1>2, <1>4, <2>2
    <3>2. CASE LineAt(k - 1) = line
      <4>1. line < n /\ s[line + 1] = e + 1 /\ file[e + 1] = Newline
        BY <1>2, <1>9, <2>2
      <4>2. k = e + 1
        BY <1>2, <1>6, <2>2, <3>2, <4>1
      <4>3. k \in D
        BY <1>5, <4>1, <4>2
      <4> QED
        BY <3>1, <4>3
    <3> QED
      BY <3>1, <3>2
  <2>3. CASE ~ (s[line] < k)
    BY <1>6, <2>3
  <2> QED
    BY <1>2, <2>1, <2>2, <2>3
<1>12. \A k \in (s[line] + 1)..te : k \in 1..Size /\ s[line] < k /\ k <= te
  BY <1>1, <1>2
<1>13. \A k \in 1..Size : s[line] < k /\ k <= te => k \in (s[line] + 1)..te
  BY <1>1, <1>2
<1>14. {k \in 1..Size : LineAt(k - 1) = line} \ D = (s[line] + 1)..te
  BY <1>11, <1>12, <1>13
<1> QED
  BY <1>14 DEF s, te, D

\* The items of f from the first of S on, as many as S has.
Cut(f, S) ==
  [n \in 1..Cardinality(S) |-> f[(CHOOSE k \in S : \A m \in S : k <= m) + n - 1]]

\* A text cut from a file is the items of an interval.
LEMMA CutOut ==
  ASSUME NEW T, NEW f \in Seq(T), NEW a \in Nat, NEW b \in Nat,
         a <= b, b <= Len(f)
  PROVE  SubSeq(f, a + 1, b) = Cut(f, (a + 1)..b)
<1> DEFINE S == (a + 1)..b
           c == Cardinality(S)
           first == CHOOSE k \in S : \A m \in S : k <= m
<1>1. c = b - a
  <2>1. Cardinality((a + 1)..b) = IF a + 1 > b THEN 0 ELSE b - (a + 1) + 1
    BY FS_Interval
  <2> QED
    BY <2>1
<1>2. S # {} => first = a + 1
  <2> SUFFICES ASSUME S # {} PROVE first = a + 1
    OBVIOUS
  <2>1. a + 1 \in S /\ \A m \in S : m \in Int /\ a + 1 <= m
    OBVIOUS
  <2>2. first \in S /\ \A m \in S : first <= m
    BY <2>1
  <2> QED
    BY <2>1, <2>2
<1>3. \A k \in (a + 1)..b : f[k] \in T
  BY ElementOfSeq, LenProperties
<1> DEFINE u == SubSeq(f, a + 1, b)
           v == [n \in 1..c |-> f[first + n - 1]]
<1> HIDE DEF S, c, first
<1>4. /\ u \in Seq(T) /\ Len(u) = b - a
      /\ \A n \in 1..(b - a) : u[n] = f[a + n]
  <2>1. /\ u \in Seq(T) /\ Len(u) = IF a + 1 <= b THEN b - (a + 1) + 1 ELSE 0
        /\ \A n \in 1..(b - (a + 1) + 1) : u[n] = f[a + 1 + n - 1]
    BY <1>3, SubSeqProperties
  <2>2. /\ b - (a + 1) + 1 = b - a
        /\ (IF a + 1 <= b THEN b - (a + 1) + 1 ELSE 0) = b - a
        /\ \A n \in 1..(b - a) : a + 1 + n - 1 = a + n
    OBVIOUS
  <2> HIDE DEF u
  <2> QED
    BY <2>1, <2>2
<1>5. ASSUME NEW n \in 1..c PROVE v[n] = f[a + n] /\ v[n] \in T
  <2>1. n \in 1..(b - a) /\ a + n \in (a + 1)..b
    BY <1>1 DEF S
  <2>2. first = a + 1
    <3>1. a + n \in S
      BY <2>1 DEF S
    <3> QED
      BY <3>1, <1>2
  <2>3. first + n - 1 = a + n
    BY <2>1, <2>2
  <2> QED
    BY <1>3, <2>1, <2>3
<1>6. v \in Seq(T) /\ Len(v) = c
  <2>1. c \in Nat /\ DOMAIN v = 1..c /\ v = [n \in 1..c |-> v[n]]
    BY <1>1
  <2> HIDE DEF v
  <2>2. v \in [1..c -> T]
    BY <1>5, <2>1
  <2> QED
    BY <2>1, <2>2
<1> HIDE DEF u, v
<1>7. u = v
  <2>1. \A n \in 1..Len(u) : u[n] = v[n]
    BY <1>1, <1>4, <1>5
  <2> QED
    BY <1>1, <1>4, <1>6, <2>1, SeqEqual
<1> QED
  BY <1>7 DEF u, v, Cut, S, c, first

\* line_view shows the lines of the file.
LEMMA LinesHold == AllInv /\ ExactInv => LinesAgree
<1> SUFFICES ASSUME AllInv, ExactInv, Ready, NEW line \in 0..(num_lines + 1)
             PROVE  line_view(line) = Text(line, Terminators \cup LastReturn)
  BY DEF LinesAgree
<1> DEFINE D == Terminators \cup LastReturn
           S == {k \in 1..Size : LineAt(k - 1) = line} \ D
<1>1. Text(line, D) = Cut(file, S)
  BY DEF Text, Cut
<1>2. /\ file \in Seq(Int) /\ Size = Len(file) /\ Size \in Nat
      /\ num_lines \in Nat /\ num_lines >= 1
  BY Starts, FileSourceAssumption DEF AllInv, Inv, TypeOK, Size, LineStarts
<1>3. CASE line \in 1..num_lines
  <2> DEFINE st == map.m_line_starts[line]
  <2>1. S = (st + 1)..TextEnd(line)
    BY <1>3, Remains
  <2>2. /\ st \in Nat /\ TextEnd(line) \in Nat /\ st <= TextEnd(line)
        /\ TextEnd(line) <= Size
    BY <1>2, <1>3, LineBounds DEF AllInv, MapInv
  <2>3. line_view(line) = SubSeq(file, st + 1, TextEnd(line))
    <3>1. line # 0 /\ ~ (line > num_lines)
      BY <1>2, <1>3
    <3> QED
      BY <3>1 DEF line_view
  <2> HIDE DEF S, D
  <2> HIDE DEF st
  <2>4. SubSeq(file, st + 1, TextEnd(line)) = Cut(file, (st + 1)..TextEnd(line))
    BY <1>2, <2>2, CutOut
  <2> QED
    BY <1>1, <2>1, <2>3, <2>4 DEF D
<1>4. CASE line \notin 1..num_lines
  <2>1. line_view(line) = <<>>
    BY <1>2, <1>4 DEF line_view
  <2>2. \A k \in 1..Size : k - 1 \in Nat /\ LineAt(k - 1) \in 1..num_lines
    <3>1. \A k \in 1..Size : k - 1 \in Nat
      BY <1>2
    <3> QED
      BY <3>1, LineOf
  <2>3. S = {}
    BY <1>4, <2>2
  <2> HIDE DEF S
  <2>4. Cardinality(S) = 0
    BY <2>3, FS_EmptySet
  <2>5. Cut(file, S) = <<>>
    BY <2>4 DEF Cut
  <2> QED
    BY <1>1, <2>1, <2>5 DEF D
<1> QED
  BY <1>3, <1>4

\* Before a map is made there are no line starts to be exact.
LEMMA ExactInit == MapInit => ExactInv
  BY DEF MapInit, ExactInv, Ready, Idle, Begun

-----------------------------------------------------------------------------

\* Whatever a SourceMap does to its FileSource, the FileSource might have been
\* asked by its parser: the map's steps are reads, or none of its business.
THEOREM MapIsFileSource == MapSpec => Spec
<1>1. MapInit => Init
  BY DEF MapInit
<1> QED
  BY <1>1, MapInitInv, MapNextInv, PTL DEF MapSpec, Spec

\* line_content, through pages released and refilled, answers the line a map
\* over the whole text in memory would show.
THEOREM LineContentAgreesOK == MapSpec => []LineContentAgrees
<1>1. AllInv => LineContentAgrees
  BY DEF AllInv, MapInv
<1> QED
  BY <1>1, MapInitInv, MapNextInv, PTL DEF MapSpec

\* Reads answer the file, and one object owns the stream, while a map shares
\* the FileSource with a parser.
THEOREM SharedReadsAgree ==
  MapSpec => /\ []BuffersMatchFile /\ []OneOwner /\ ImplementsInputSource
  BY MapIsFileSource, BuffersAlwaysMatch, StreamHasOneOwner, FileSourceImplements, PTL

\* For every file, page size and width of size_t: the binary search of locate
\* finds the line that the newlines before the offset make, past the end of the
\* file too, and offset_of takes its answer back to the offset, through the
\* wrap of an unsigned column.
THEOREM LookupsAgreeOK == MapSpec => []LookupsAgree
  BY MapInitInv, ExactInit, MapNextInv, ExactNext, LookupsHold, PTL DEF MapSpec

\* For every file: line_view shows each line without the items that end it,
\* and nothing for a number that is no line's.
THEOREM LinesAgreeOK == MapSpec => []LinesAgree
  BY MapInitInv, ExactInit, MapNextInv, ExactNext, LinesHold, PTL DEF MapSpec
=============================================================================
