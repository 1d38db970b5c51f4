---------------------------- MODULE InputSource ----------------------------
(***************************************************************************)
(* What the parser expects of its input (InputSourceBase, InputSource.h):  *)
(* random access to a fixed sequence of elements, at(offset) for any       *)
(* offset below size(), whatever was read or released before.  SpanSource  *)
(* is this specification; FileSource is shown to implement it.             *)
(***************************************************************************)
EXTENDS Integers, Sequences

CONSTANT Files   \* the possible contents, sequences of elements

VARIABLES
  file,   \* the elements
  out     \* what the last at(offset) answered

NoRead == [at |-> -1, val |-> -1]
Answer(i, v) == [at |-> i, val |-> v]

Init == file \in Files /\ out = NoRead

\* at(offset); the answer is out.val.
At(i) == out' = Answer(i, file[i + 1]) /\ UNCHANGED file

Next == \E i \in 0..(Len(file) - 1) : At(i)

Spec == Init /\ [][Next]_<<file, out>>
=============================================================================
