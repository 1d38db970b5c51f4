----------------------------- MODULE FailureLog -----------------------------
(***************************************************************************)
(* What the error tracker of a Context promises: of all failures recorded  *)
(* since it was last asked, it keeps the items of the furthest ones.       *)
(***************************************************************************)
EXTENDS Integers

CONSTANTS Positions, LogItems

VARIABLES
  failures,   \* the furthest failures, [pos, item]
  report      \* what the last take_error gave

Furthest(F) == {f \in F : \A g \in F : g.pos <= f.pos}

Init == failures = {} /\ report = {}

Record(pos, item) ==
  /\ failures' = Furthest(failures \cup {[pos |-> pos, item |-> item]})
  /\ report' = {}

Take == report' = failures /\ failures' = {}

Next == Take \/ \E pos \in Positions, item \in LogItems : Record(pos, item)

Spec == Init /\ [][Next]_<<failures, report>>
=============================================================================
