------------------------------ MODULE PegTypes ------------------------------
(***************************************************************************)
(* The result types of expressions and the values typed actions see        *)
(* (ResultType.h, result_of and its helpers).                              *)
(*                                                                         *)
(* Types and values are tuples tagged with their kind.  A value of a rule  *)
(* with a typed action is the action's call: the rule, the span and the    *)
(* arguments; the user's function itself is abstracted to that record.     *)
(***************************************************************************)
EXTENDS PegExpr

Void == <<"void">>
Element == <<"element">>
NodeType == <<"node">>
VectorOf(t) == <<"vector", t>>
OptionalOf(t) == <<"optional", t>>

\* OptionalExpr, as opposed to the other repetitions.
IsOptional(e) == e.op = "Repetition" /\ e.min_rep = 0 /\ e.max_rep = 1

\* filter_void and collapse: nothing, the one result, or a tuple of them.
Collapse(tag, results, none) ==
  LET kept == SelectSeq(results, LAMBDA t : t # none)
  IN  CASE Len(kept) = 0 -> none
        [] Len(kept) = 1 -> kept[1]
        [] OTHER -> <<tag>> \o kept

RECURSIVE result_of(_)
result_of(e) ==
  LET kid(k) == result_of(e.kids[k])
  IN  CASE e.op = "Token" -> Element
        [] e.op = "NonTerminal" -> NodeType
        [] e.op \in {"Lexeme", "Alternation"} -> kid(1)
        [] e.op = "Sequence" ->
             Collapse("tuple", [k \in 1..Len(e.kids) |-> kid(k)], Void)
        [] e.op = "Repetition" ->
             IF kid(1) = Void THEN Void
             ELSE IF IsOptional(e) THEN OptionalOf(kid(1)) ELSE VectorOf(kid(1))
        [] OTHER -> Void

IsVoid(e) == result_of(e) = Void

\* all_same: what the static_assert of result_of<AlternationExpr> demands of
\* the body of a rule with a typed action.
RECURSIVE WellTyped(_)
WellTyped(e) ==
  /\ \A k \in 1..Len(e.kids) : WellTyped(e.kids[k])
  /\ e.op = "Alternation" =>
       \A k \in 1..Len(e.kids) : result_of(e.kids[k]) = result_of(e.kids[1])

-----------------------------------------------------------------------------
(* Values.                                                                 *)

VoidValue == <<"void">>
ElementValue(x) == <<"element", x>>
VectorValue(vs) == <<"vector">> \o vs
None == <<"none">>
Some(v) == <<"some", v>>
DefaultNode == <<"default">>   \* NodeType{}
NoTree == <<"no tree">>        \* a recovered rule's

\* std::apply of an action to the value of the body e.
Arguments(e, v) ==
  CASE IsVoid(e) -> <<>>
    [] v[1] = "tuple" -> Tail(v)
    [] OTHER -> <<v>>
ActionCall(r, from, to, args) == <<"node", r, from, to, args>>
=============================================================================
