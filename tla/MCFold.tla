------------------------------- MODULE MCFold -------------------------------
(***************************************************************************)
(* Families of grammars with typed actions and hooks, for TreeFold.        *)
(***************************************************************************)
EXTENDS MCPeg, TreeFold

tA == token({"a"})
tB == token({"b"})
rW == Ref(W)

\* Actions on the rules of R, a hook on every rule; only what set_action's
\* static_asserts accept.
Acting(s, x, y, w, R) ==
  [Plain(s, x, y) EXCEPT !.body[W] = w, !.folds = R, !.hooks = MCRules]
Accepted(gs) == {g \in gs : \A r \in g.folds : WellTyped(g.body[r])}

Bodies ==
  {tA, Then(a, tB), Then(tA, tB), Optional(tB), lexeme(Then(b, tA)),
   OneOrMore(tA), rW, Or(Then(tA, b), tB), b}
Tops ==
  {Then(rA, rB), Then(matcher(<<{"a"}>>), Then(rA, rB)),
   Then(And(rA), Then(any, rB)), ZeroOrMore(rA), Then(Optional(rA), rB),
   Or(Then(rA, a), Then(rA, rB)), Or(rA, rB), lexeme(Then(rB, rA)),
   Then(ZeroOrMore(Then(rA, b)), tA)}

\* Left recursion the way the README writes it: the choice is untyped, its
\* branches have actions.
LeftRecursive ==
  {Acting(s, Or(rB, rW), Then(rA, y), Or(tA, tB), R) :
     s \in {rA, Or(Then(rA, a), rA), Then(And(rA), rA)}, y \in {tB, b},
     R \in {{B, W}, {S, B, W}, {B}}}

\* The rules of rec recover up to "b", where a match without a node has a
\* value: in an optional, alone or repeated, under a predicate, as the whole
\* body of a rule without an action, and as the whole parse.
Resuming(s, x, y, R, rec) ==
  [Acting(s, x, y, tB, R) EXCEPT !.recover = rec, !.sync[A] = {"b"}, !.sync[S] = {"b"}]
Resumed ==
  {Resuming(s, x, y, R, rec) :
     s \in {Optional(rA), Then(Optional(rA), rB), Then(tA, Optional(rA)),
            ZeroOrMore(Optional(rA)), lexeme(Then(Optional(rA), Optional(rA))),
            Or(Then(Optional(rA), tA), Then(Optional(rA), rW)),
            Then(And(rA), tA)},
     x \in {Then(tA, tA), Or(Then(tA, b), tA), Then(rB, a)},
     y \in {tA, Optional(tA)}, R \in {{S, A, B, W}, {A}, {S, B}},
     rec \in {{A}, {S, A}}}
  \cup {Resuming(rA, x, tA, {A}, {A}) : x \in {Then(tA, tA), Then(rB, a)}}

AllActed ==
  Accepted(LeftRecursive \cup Resumed \cup {Acting(s, x, y, Or(tA, tB), R) :
     s \in Tops, x \in Bodies, y \in {tB, rA, Or(Then(a, rA), rW)},
     R \in {{S, A, B, W}, {A}, {S, W}}})

Acted == AllActed

-----------------------------------------------------------------------------
(* Grammars on which a promise of a comment or document fails; the run     *)
(* void_child shows the first, README section 3 says what the others show. *)

\* S <- *b >> token a, with an action on S
VoidChild == {Acting(Then(ZeroOrMore(b), tA), a, b, a, {S})}

\* S <- A ,  A <- -A >> token b, with an action on A
TypedLeftRecursion == {Acting(rA, Then(Optional(rA), tB), b, a, {A})}

\* S <- A >> A, with a recovering A and an action on S
RecoveredChild == {Recovering(Acting(Then(rA, rA), a, b, a, {S}), {A})}

\* S <- A, with a recovering A and an action on S
RecoveredAlias == {Recovering(Acting(rA, a, b, a, {S}), {A})}
=============================================================================
