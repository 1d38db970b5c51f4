------------------------------- MODULE MCPeg -------------------------------
(***************************************************************************)
(* Families of small grammars and inputs for model checking PegMachine.    *)
(* Each .cfg picks one family for Grammars and one set for Inputs.         *)
(***************************************************************************)
EXTENDS PegConformance

CONSTANTS S, A, B, W   \* the rules: start, two more, the skipper

MCRules == {S, A, B, W}
MCChars == {"a", "b", " ", ";"}

Strings(alphabet, n) == UNION {[1..k -> alphabet] : k \in 0..n}
InputsAB == Strings({"a", "b"}, 3)
InputsSpaced == Strings({"a", " "}, 4)
InputsSync == Strings({"a", ";"}, 3)

a == terminal({"a"})
b == terminal({"b"})
ab == terminalSeq(<<{"a"}, {"b"}>>)
any == token({"a", "b", ";"})
semi == terminal({";"})
rA == Ref(A)
rB == Ref(B)

\* A grammar with the given bodies; W is a run of blanks.
Plain(s, x, y) ==
  [body |-> [r \in MCRules |->
               CASE r = S -> s [] r = A -> x [] r = B -> y
                 [] r = W -> ZeroOrMore(terminal({" "}))],
   start |-> S, skipper |-> NoRule, recover |-> {},
   sync |-> [r \in MCRules |-> {}], folds |-> {}, labelled |-> {},
   hooks |-> {}]
Skipping(g) == [g EXCEPT !.skipper = W]
Recovering(g, R) ==
  [g EXCEPT !.recover = R, !.sync = [r \in MCRules |-> {";"}]]
Folding(g, R) == [g EXCEPT !.folds = R, !.labelled = MCRules \ R]

\* Bodies  x y  and  x y | z  with x, z from T and y a terminal.
Shapes(T) ==
  {Then(x, y) : x \in T, y \in {a, b}}
    \cup {Or(Then(x, y), z) : x \in T, y \in {a, b}, z \in T}

\* Rules A and B may call themselves first, and A may call B.
DirectRecursion ==
  {Plain(Or(Then(rA, b), rB), x, y) :
     x \in Shapes({a, rA, rB}), y \in Shapes({b, rB})}

\* A and B may call each other first; the parse enters the cycle at A.
MutualRecursion ==
  {Plain(rA, x, y) : x \in Shapes({a, rA, rB}), y \in Shapes({b, rA, rB})}

\* Cuts in a branch, in a rule called by a branch, in a repetition and
\* under a predicate, before another branch that would match.
Arms == {Then(a, cutExpr), Then(Then(a, cutExpr), b), Then(cutExpr, b), ab}
Scopes ==
  UNION {{Or(x, b), Or(x, Then(a, a)), ZeroOrMore(x), Optional(x),
          Not(x), And(x)} : x \in Arms}
Committed ==
  {Plain(s, Or(Then(Then(rB, x), a), z), y) :
     s \in {rA, Or(Then(rA, a), rB)}, x \in Arms,
     z \in {Then(rB, a), a}, y \in Scopes}

\* Blanks between elements, inside and outside lexemes, also when a cut
\* throws out of a lexeme.
Words ==
  {Then(a, a), OneOrMore(a), lexeme(Then(a, a)), lexeme(OneOrMore(a)),
   lexeme(Then(lexeme(a), Optional(a))),
   Or(lexeme(Then(Then(a, cutExpr), a)), a)}
Spaced ==
  {Skipping(Plain(s, x, Then(Optional(a), Not(any)))) :
     x \in Words,
     s \in {Then(rA, rA), ZeroOrMore(rA), OneOrMore(Then(rA, Optional(rA))),
            NTimes(2, rA), Or(Then(rA, rB), Then(rA, Then(rA, rB)))}}

\* Statements that resynchronise after ";", reached twice by backtracking.
Recovery ==
  {Recovering(Plain(s, Then(x, semi), y), {A}) :
     x \in {a, Then(a, a), rB, Optional(rB)},
     y \in {Then(a, Not(a)), Then(any, a)},
     s \in {ZeroOrMore(rA), Then(rA, rA), Then(Optional(Then(rA, rB)), rA),
            Or(Then(rA, rB), Then(rA, rA))}}

\* All families, each grammar on the inputs of its alphabet.  (TLC evaluates
\* a definition it is given for a CONSTANT at every use, and one that is only
\* named there once: hence two names.)
AllFamilies ==
  UNION {DirectRecursion, MutualRecursion, Committed, Spaced, Recovery}
Families == AllFamilies
FamilyInputs == InputsAB \cup InputsSpaced \cup InputsSync
OwnInput ==
  input \in CASE gram.skipper # NoRule -> InputsSpaced
              [] gram.recover # {} -> InputsSync
              [] OTHER -> InputsAB
FamilyInit == Init /\ OwnInput
FamilySpec == FamilyInit /\ [][Next]_vars /\ WF_vars(Step)

\* A skipper that throws: "b" must be followed by "a".
Pairs(g) ==
  [g EXCEPT !.skipper = W,
            !.body[W] = ZeroOrMore(Then(Then(b, cutExpr), a))]

\* One of each expression type, with typed actions, labels and recovery.
Sampler ==
  {Pairs(Plain(Then(a, rB), a, lexeme(Optional(lexeme(b)))))} \cup
  {Folding(Recovering(Skipping(g), {B}), R) :
     R \in {{}, {A}},
     g \in {Plain(Or(Then(rA, Then(Ref(W), Not(any))), OneOrMore(rB)),
                  Or(Then(rA, b), any),
                  lexeme(matcher(<<{"b"}, {"a"}>>))),
            Plain(Then(And(rA), Or(ab, Then(NTimes(2, rA), Not(rB)))),
                  Or(Then(Then(a, cutExpr), Optional(b)), empty), any),
            Plain(Then(ZeroOrMore(rA), Or(Then(cutExpr, any), b)),
                  Then(a, rB), Then(Not(a), any))}}

-----------------------------------------------------------------------------
(* Grammars on which a promise of a comment or document fails; the runs    *)
(* shared_lexeme, cut_in_recursion and skipper_throws show the ones whose  *)
(* name they have, README section 3 says what the others show.             *)

\* S <- lexeme(A) b | A b ,  A <- a a
SharedLexeme ==
  {Skipping(Plain(Or(Then(lexeme(rA), b), Then(rA, b)), Then(a, a), b))}
InputsShared == {<<"a", " ", "a", "b">>, <<"a", "a", "b">>}

\* S <- A ,  A <- (a cut b | b) ";" | A b | a
CutInRecursion ==
  {Plain(rA, Or(Then(Or(Then(Then(a, cutExpr), b), b), semi),
                Or(Then(rA, b), a)), b)}

\* S <- A b | B ,  A <- B a | a ,  B <- A a
SharedPartner ==
  {Plain(Or(Then(rA, b), rB), Or(Then(rB, a), a), Then(rA, a))}

\* S <- a , with the skipper *(b cut a)
ThrowingSkipper == {Pairs(Plain(a, a, b))}

\* S <- a cut !b | b
SilentFailure == {Plain(Or(Then(Then(a, cutExpr), Not(b)), b), a, b)}

\* S <- 2*(-a)
EmptyTwice == {Plain(NTimes(2, Optional(a)), a, b)}

\* S <- 0*a
ZeroTimes == {Plain(NTimes(0, a), a, b)}

RECURSIVE Subexpressions(_)
Subexpressions(e) ==
  {e} \cup UNION {Subexpressions(e.kids[k]) : k \in 1..Len(e.kids)}
AllExprs ==
  {Ref(r) : r \in MCRules}
    \cup UNION {Subexpressions(e) :
                 e \in UNION {{g.body[r] : r \in MCRules} : g \in Grammars}}
MCExprs == AllExprs
MCItemTexts == MCRules \cup {e.sym : e \in MCExprs}
=============================================================================
