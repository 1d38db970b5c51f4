------------------------------ MODULE SourceMap ------------------------------
(***************************************************************************)
(* Offsets to lines and columns, and the text of a line (SourceMap.h), for *)
(* a map over a FileSource: the prescan of its constructor and the reads   *)
(* of line_content go through the same buffers as the parser's, which may  *)
(* release pages or refill them in between.  One read is one action.       *)
(*                                                                         *)
(* The caller keeps the FileSource alive and in its place while it is      *)
(* mapped.                                                                 *)
(***************************************************************************)
EXTENDS FileSource, FiniteSets

CONSTANTS
  Newline, Return,   \* '\n' and '\r'
  SizeMod            \* size_t counts modulo this

ASSUME SourceMapAssumption ==
  /\ Newline \in Int /\ Return \in Int /\ Newline # Return
  /\ SizeMod \in Nat
  /\ \A f \in Files : Len(f) + 1 < SizeMod

VARIABLES
  map,   \* the SourceMap: its source (None if there is no map), m_line_starts
  call   \* the constructor or line_content, under way or just done

mapvars == <<file, obj, fpos, opening, got, map, call>>

Maps == [source : Objs \cup {None}, m_line_starts : Seq(Nat)]

\* i and end are the locals of the loops, result the text built.
Calls ==
  [pc : {"idle", "prescan", "trim", "copy", "done"},
   line : Nat, i : Nat, end : Nat, result : Seq(Int)]

NoMap == [source |-> None, m_line_starts |-> <<>>]
Begun(pc, line, i, end) ==
  [pc |-> pc, line |-> line, i |-> i, end |-> end, result |-> <<>>]
Idle == Begun("idle", 0, 0, 0)

npos == SizeMod - 1
num_lines == Len(map.m_line_starts)

-----------------------------------------------------------------------------
(* Lookups.                                                                *)

\* The binary search finds the last line start at or before the offset.
locate(offset) ==
  LET line == Cardinality({k \in 1..num_lines : map.m_line_starts[k] <= offset})
  IN  [line |-> line, column |-> (offset - map.m_line_starts[line] + 1) % SizeMod]

offset_of(line, column) ==
  IF line = 0 \/ line > num_lines THEN npos
  ELSE (map.m_line_starts[line] + (column - 1)) % SizeMod

\* Mutant: the \n belongs to the line.
Whole_LineEnd(line) == IF line < num_lines THEN map.m_line_starts[line + 1] ELSE Size

\* Where the text of a line ends, the \n left out.
LineEnd(line) == IF line < num_lines THEN map.m_line_starts[line + 1] - 1 ELSE Size

\* ... and a \r before it.
TextEnd(line) ==
  LET end == LineEnd(line)
  IN  IF end > map.m_line_starts[line] /\ file[end] = Return THEN end - 1 ELSE end

\* line_view, of a map over the same text in memory.
line_view(line) ==
  IF line = 0 \/ line > num_lines THEN <<>>
  ELSE SubSeq(file, map.m_line_starts[line] + 1, TextEnd(line))

-----------------------------------------------------------------------------
(* The constructor.                                                        *)

get(i) == (\E j \in {0, 1} : Hit(map.source, i, j)) \/ Miss(map.source, i)

MapOpened(o) ==
  /\ map = NoMap /\ call = Idle /\ Owns(o)
  /\ map' = [source |-> o, m_line_starts |-> <<0>>]
  /\ call' = Begun("prescan", 0, 0, 0)
  /\ UNCHANGED vars

\* Mutant: a line starts at its newline.
OffByOne_Prescanned ==
  /\ call.pc = "prescan" /\ call.i < obj[map.source].m_filesize
  /\ get(call.i)
  /\ map' = IF got'.val = Newline
            THEN [map EXCEPT !.m_line_starts = Append(@, call.i)] ELSE map
  /\ call' = [call EXCEPT !.i = @ + 1]

Prescanned ==
  /\ call.pc = "prescan" /\ call.i < obj[map.source].m_filesize
  /\ get(call.i)
  /\ map' = IF got'.val = Newline
            THEN [map EXCEPT !.m_line_starts = Append(@, call.i + 1)] ELSE map
  /\ call' = [call EXCEPT !.i = @ + 1]

MapReady ==
  /\ call.pc = "prescan" /\ call.i = obj[map.source].m_filesize
  /\ call' = Idle
  /\ UNCHANGED <<map, vars>>

-----------------------------------------------------------------------------
(* line_content.                                                           *)

LineContentCalled(line) ==
  /\ map # NoMap /\ call = Idle
  /\ call' = IF line = 0 \/ line > num_lines
             THEN Begun("done", line, 0, 0)
             ELSE Begun("trim", line, map.m_line_starts[line], LineEnd(line))
  /\ UNCHANGED <<map, vars>>

\* The last item of the line is read, and left out when it is a \r.
Trimmed ==
  /\ call.pc = "trim" /\ call.end > call.i
  /\ get(call.end - 1)
  /\ call' = [call EXCEPT !.pc = "copy", !.end = IF got'.val = Return THEN @ - 1 ELSE @]
  /\ UNCHANGED map

EmptyLine ==
  /\ call.pc = "trim" /\ call.end = call.i
  /\ call' = [call EXCEPT !.pc = "copy"]
  /\ UNCHANGED <<map, vars>>

\* Mutant: the item is taken from the current buffer, whatever it holds.
Stale_Copied ==
  /\ call.pc = "copy" /\ call.i < call.end
  /\ LET o == obj[map.source]
         c == o.m_bufs[o.m_current_buf].m_buf[call.i % PageSize]
     IN  call' = [call EXCEPT !.i = @ + 1, !.result = Append(@, c)]
  /\ UNCHANGED <<map, vars>>

Copied ==
  /\ call.pc = "copy" /\ call.i < call.end
  /\ get(call.i)
  /\ call' = [call EXCEPT !.i = @ + 1, !.result = Append(@, got'.val)]
  /\ UNCHANGED map

LineReturned ==
  /\ call.pc = "copy" /\ call.i = call.end
  /\ call' = [call EXCEPT !.pc = "done"]
  /\ UNCHANGED <<map, vars>>

\* The caller has read the line.
Forgotten ==
  /\ call.pc = "done" /\ call' = Idle
  /\ UNCHANGED <<map, vars>>

MapDropped ==
  /\ map # NoMap /\ call = Idle /\ map' = NoMap
  /\ UNCHANGED <<call, vars>>

-----------------------------------------------------------------------------

\* Between the map's operations the FileSource is read, released, and, when it
\* is not mapped, moved and destroyed.
SourceStep ==
  /\ call = Idle /\ UNCHANGED <<map, call>>
  /\ Next
  /\ map # NoMap => Owns(map.source)'

MapNext ==
  \/ SourceStep
  \/ \E o \in Objs : MapOpened(o)
  \/ Prescanned \/ MapReady
  \/ \E line \in 0..(num_lines + 1) : LineContentCalled(line)
  \/ Trimmed \/ EmptyLine \/ Copied \/ LineReturned \/ Forgotten
  \/ MapDropped

MapInit == Init /\ map = NoMap /\ call = Idle

MapSpec == MapInit /\ [][MapNext]_mapvars

-----------------------------------------------------------------------------
(* Properties.                                                             *)

Ready == map # NoMap /\ call.pc # "prescan"

\* The line of the item at an offset, from the newlines before it.
LineAt(offset) == 1 + Cardinality({k \in 1..Size : k <= offset /\ file[k] = Newline})

\* "\n terminates a line; a preceding \r is part of the terminator."
Terminators ==
  {k \in 1..Size : \/ file[k] = Newline
                   \/ file[k] = Return /\ k < Size /\ file[k + 1] = Newline}

\* A \r that ends the file is left out as well.
LastReturn == {k \in 1..Size : k = Size /\ file[k] = Return}

\* The items of a line, but for those that are dropped.
Text(line, dropped) ==
  LET S == {k \in 1..Size : LineAt(k - 1) = line} \ dropped
      First == CHOOSE k \in S : \A m \in S : k <= m
  IN  [n \in 1..Cardinality(S) |-> file[First + n - 1]]

\* locate counts the newlines before an offset, past the end too, and
\* offset_of takes its answer back to the offset, up to the wrap of size_t.
LookupsAgree ==
  Ready =>
    /\ num_lines = LineAt(Size)
    /\ \A offset \in 0..npos :
         LET l == locate(offset)
         IN  /\ l.line = LineAt(offset)
             /\ offset_of(l.line, l.column) = offset

\* A line is what stands between two line endings.
LinesAgree ==
  Ready => \A line \in 0..(num_lines + 1) :
             line_view(line) = Text(line, Terminators \cup LastReturn)

\* line_content "re-reads the line from disk", through pages released, evicted
\* and refilled since the prescan: it answers what line_view does from memory.
LineContentAgrees == call.pc = "done" => call.result = line_view(call.line)

\* "Lone \r is not a line ending": line_content drops no other items than
\* those of line endings.
LoneReturnKept == call.pc = "done" => call.result = Text(call.line, Terminators)
=============================================================================
