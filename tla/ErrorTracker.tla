---------------------------- MODULE ErrorTracker ----------------------------
(***************************************************************************)
(* The furthest-failure tracker of a Context (Context.h), over an          *)
(* ExpectedSet, fed by the failures of expressions in any order the        *)
(* backtracking of a parse brings them.                                    *)
(***************************************************************************)
EXTENDS ExpectedItems

CONSTANTS
  Inputs,      \* positions of the input
  Failing,     \* what can fail there
  CharSizes,   \* sizeof(CharT)
  MaxFailures  \* failures between two take_errors, a bound for TLC

ASSUME TrackerAssumption ==
  /\ Inputs \subseteq Nat
  /\ MaxFailures \in Nat

\* Expressions of characters of this CharT, and rules.
ASSUME FailingAssumption == \A f \in Failing, w \in CharSizes : Displayable(f, w)

VARIABLES
  m_furthest_failure_pos, m_expected, m_has_error,
  charSize,   \* sizeof(CharT) of this Context
  taken,      \* the Diagnostic the last take_error returned
  failed      \* the failures since, [pos, failing]: a history

members == <<m_furthest_failure_pos, m_expected, m_has_error>>
vars == <<members, charSize, taken, failed>>

\* What a failure is shown as.
Shown == [c \in Failing \X CharSizes |-> Item(c[1], c[2])]

nullopt == [pos |-> 0, expected |-> <<>>]

AsFailures(d) == {[pos |-> d.pos, item |-> x] : x \in ToSet(d.expected)}

Log ==
  INSTANCE FailureLog WITH
    Positions <- Inputs,
    LogItems <- Range(Shown),
    failures <- AsFailures([pos |-> m_furthest_failure_pos, expected |-> m_expected]),
    report <- AsFailures(taken)

Init ==
  /\ m_furthest_failure_pos = 0 /\ m_expected = <<>> /\ m_has_error = FALSE
  /\ charSize \in CharSizes
  /\ taken = nullopt /\ failed = {}

\* Mutant: a further failure joins the items of an earlier position.
Joined_Keep(pos, item) ==
  IF ~ m_has_error \/ pos >= m_furthest_failure_pos
  THEN /\ m_furthest_failure_pos' = pos
       /\ m_expected' = insert(m_expected, item)
       /\ m_has_error' = TRUE
  ELSE UNCHANGED members

\* Furthest wins, the same position accumulates, earlier is ignored.
Keep(pos, item) ==
  \/ /\ ~ m_has_error \/ pos > m_furthest_failure_pos
     /\ m_furthest_failure_pos' = pos
     /\ m_expected' = insert(<<>>, item)
     /\ m_has_error' = TRUE
  \/ /\ m_has_error /\ pos = m_furthest_failure_pos
     /\ m_expected' = insert(m_expected, item)
     /\ UNCHANGED <<m_furthest_failure_pos, m_has_error>>
  \/ /\ m_has_error /\ pos < m_furthest_failure_pos
     /\ UNCHANGED members

\* record_failure and record_failure_lazy; the Diagnostic taken before is gone.
record_failure(pos, f) ==
  /\ Cardinality(failed) < MaxFailures
  /\ Keep(pos, Shown[<<f, charSize>>])
  /\ failed' = failed \cup {[pos |-> pos, failing |-> f]}
  /\ taken' = nullopt
  /\ UNCHANGED charSize

take_error ==
  /\ taken' = IF m_has_error
              THEN [pos |-> m_furthest_failure_pos, expected |-> m_expected]
              ELSE nullopt
  /\ m_furthest_failure_pos' = 0 /\ m_expected' = <<>> /\ m_has_error' = FALSE
  /\ failed' = {}
  /\ UNCHANGED charSize

Next == take_error \/ \E pos \in Inputs, f \in Failing : record_failure(pos, f)

Spec == Init /\ [][Next]_vars

-----------------------------------------------------------------------------
(* Properties.                                                             *)

\* The vector keeps the order insert's binary search relies on, so that no
\* item is in it twice ("identical dedup + ordered-iteration semantics").
StrictlySorted ==
  \A j, k \in 1..Len(m_expected) : j < k => Before(m_expected[j], m_expected[k])

\* Different expressions that fail at the furthest position are shown as
\* different items: neither the escapes nor UTF-8 make two literals, a
\* literal and a set, or a character and its escape look the same.
NothingMerged ==
  LET furthest == {f \in failed : \A g \in failed : g.pos <= f.pos}
  IN  Len(m_expected) = Cardinality(furthest)

\* The tracker keeps the furthest failures, all of them and no others.
ImplementsFailureLog == Log!Spec
=============================================================================
