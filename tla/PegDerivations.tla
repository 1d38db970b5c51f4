---------------------------- MODULE PegDerivations ----------------------------
(***************************************************************************)
(* The meaning of a grammar as inference rules, one for each way the       *)
(* parse() of an expression can end (Combinators.h, Terminals.h,           *)
(* NonTerminal.h), without memo, Context or order of evaluation.           *)
(*                                                                         *)
(* A judgement is about a mode and an expression e.  The mode s is TRUE    *)
(* where the skipper runs between children, FALSE inside lexemes, inside   *)
(* the skipper and without one.  The rules are for grammars without cuts   *)
(* and left recursion, whose rules are each parsed in one mode.  What has  *)
(* a derivation is the least set closed under them.                        *)
(***************************************************************************)
EXTENDS PegExpr

\* e matches the input from p to q.
Matches(s, e, p, q) == <<"match", s, e, 0, p, q>>
\* e fails at p.
Fails(s, e, p) == <<"fail", s, e, 0, p, p>>
\* Part of e's work at p is done, up to q: n children of a sequence have
\* matched, n branches have failed, n iterations of a repetition have matched.
Got(s, e, n, p, q) == <<"got", s, e, n, p, q>>

\* The answer ok, with the cursor at q in the end, is among the judgements D.
Derives(D, s, e, p, q, ok) ==
  IF ok THEN Matches(s, e, p, q) \in D ELSE Fails(s, e, p) \in D

-----------------------------------------------------------------------------
(* The rules.  D is closed under them for an expression at a position p    *)
(* of the input in.                                                        *)

\* The elements of in from pos on match the literal sym.
LiteralAt(in, sym, pos) ==
  /\ pos + Len(sym) <= Len(in)
  /\ \A j \in 1..Len(sym) : in[pos + j] \in sym[j]

LiteralRule(in, s, e, p, D) ==
  Derives(D, s, e, p, p + Len(e.sym), LiteralAt(in, e.sym, p))

\* Mutant: the skipper runs before the first child, too.
Eager_Resumes(g, D, s, n, q, r) ==
  IF s
  THEN \/ Matches(FALSE, Ref(g.skipper), q, r) \in D
       \/ Fails(FALSE, Ref(g.skipper), q) \in D /\ r = q
  ELSE r = q

\* Where child n + 1 is tried, if the n before it ended at q: where the skipper
\* leaves off.
Resumes(g, D, s, n, q, r) ==
  IF s /\ n > 0
  THEN \/ Matches(FALSE, Ref(g.skipper), q, r) \in D
       \/ Fails(FALSE, Ref(g.skipper), q) \in D /\ r = q
  ELSE r = q

SequenceRule(g, in, s, e, p, D) ==
  /\ Got(s, e, 0, p, p) \in D
  /\ \A n \in 0..(Len(e.kids) - 1), q, m \in 0..Len(in) :
       Got(s, e, n, p, q) \in D /\ Resumes(g, D, s, n, q, m) =>
         /\ \A r \in 0..Len(in) :
              Matches(s, e.kids[n + 1], m, r) \in D => Got(s, e, n + 1, p, r) \in D
         /\ Fails(s, e.kids[n + 1], m) \in D => Fails(s, e, p) \in D
  /\ \A q \in 0..Len(in) :
       Got(s, e, Len(e.kids), p, q) \in D => Matches(s, e, p, q) \in D

AlternationRule(in, s, e, p, D) ==
  /\ Got(s, e, 0, p, p) \in D
  /\ \A n \in 0..(Len(e.kids) - 1) : Got(s, e, n, p, p) \in D =>
       /\ \A q \in 0..Len(in) :
            Matches(s, e.kids[n + 1], p, q) \in D => Matches(s, e, p, q) \in D
       /\ Fails(s, e.kids[n + 1], p) \in D => Got(s, e, n + 1, p, p) \in D
  /\ Got(s, e, Len(e.kids), p, p) \in D => Fails(s, e, p) \in D

\* Iteration n, from m to r, is the last: the loop has reached its bound or
\* makes no progress.
LastIteration(e, n, m, r) == (e.max_rep > 0 /\ n >= e.max_rep) \/ r = m

\* The numbers of children D speaks of.
Counts(D) == {j[4] : j \in D} \cap Nat

RepetitionRule(g, in, s, e, p, D) ==
  /\ Got(s, e, 0, p, p) \in D
  /\ \A n \in Counts(D), q, m \in 0..Len(in) :
       Got(s, e, n, p, q) \in D /\ Resumes(g, D, s, n, q, m) =>
         /\ \A r \in 0..Len(in) : Matches(s, e.kids[1], m, r) \in D =>
              IF LastIteration(e, n + 1, m, r)
              THEN Derives(D, s, e, p, r, n + 1 >= e.min_rep)
              ELSE Got(s, e, n + 1, p, r) \in D
         /\ Fails(s, e.kids[1], m) \in D =>
              Derives(D, s, e, p, q, n >= e.min_rep)

PredicateRule(in, s, e, p, D) ==
  /\ \A q \in 0..Len(in) : Matches(s, e.kids[1], p, q) \in D =>
       Derives(D, s, e, p, p, e.op = "And")
  /\ Fails(s, e.kids[1], p) \in D => Derives(D, s, e, p, p, e.op = "Not")

LexemeRule(in, s, e, p, D) ==
  /\ \A q \in 0..Len(in) :
       Matches(FALSE, e.kids[1], p, q) \in D => Matches(s, e, p, q) \in D
  /\ Fails(FALSE, e.kids[1], p) \in D => Fails(s, e, p) \in D

\* A recovery from p resumes at q: after the first sync token, or at the end.
Synced(g, in, r, p, q) ==
  \/ /\ q = Len(in)
     /\ \A m \in (p + 1)..q : in[m] \notin g.sync[r]
  \/ /\ q \in (p + 1)..Len(in) /\ in[q] \in g.sync[r]
     /\ \A m \in (p + 1)..(q - 1) : in[m] \notin g.sync[r]

NonTerminalRule(g, in, s, e, p, D) ==
  /\ \A q \in 0..Len(in) :
       Matches(s, g.body[e.rule], p, q) \in D => Matches(s, e, p, q) \in D
  /\ Fails(s, g.body[e.rule], p) \in D =>
       IF e.rule \notin g.recover THEN Fails(s, e, p) \in D
       ELSE \A q \in p..Len(in) :
              Synced(g, in, e.rule, p, q) => Matches(s, e, p, q) \in D

InferenceClosed(g, in, L, D) ==
  \A x \in L, p \in 0..Len(in) :
    LET s == x[1]
        e == x[2]
    IN  /\ e.op \in {"Terminal", "Token", "TerminalSeq", "Matcher"} =>
             LiteralRule(in, s, e, p, D)
        /\ e.op = "Empty" => Matches(s, e, p, p) \in D
        /\ e.op = "Sequence" => SequenceRule(g, in, s, e, p, D)
        /\ e.op = "Alternation" => AlternationRule(in, s, e, p, D)
        /\ e.op = "Repetition" => RepetitionRule(g, in, s, e, p, D)
        /\ e.op \in {"Not", "And"} => PredicateRule(in, s, e, p, D)
        /\ e.op = "Lexeme" => LexemeRule(in, s, e, p, D)
        /\ e.op = "NonTerminal" => NonTerminalRule(g, in, s, e, p, D)

-----------------------------------------------------------------------------
(* The grammars the rules are for.                                         *)

\* The k-th child of x, a pair of a mode and an expression.
ChildIn(x, k) == <<x[1] /\ x[2].op # "Lexeme", x[2].kids[k]>>
BodyOf(g, x) == <<x[1], g.body[x[2].rule]>>
SkipperCall(g) == <<FALSE, Ref(g.skipper)>>

\* A parse with g parses the expressions of L in their modes, and no others;
\* none is a cut, and no rule is parsed in both modes.
Parses(g, L) ==
  /\ <<g.skipper # NoRule, Ref(g.start)>> \in L
  /\ g.skipper # NoRule => SkipperCall(g) \in L
  /\ \A x \in L :
       /\ x[2].op # "Cut"
       /\ \A k \in 1..Len(x[2].kids) : ChildIn(x, k) \in L
       /\ x[2].op = "NonTerminal" =>
            /\ x[2] = Ref(x[2].rule)
            /\ BodyOf(g, x) \in L
            /\ <<~ x[1], x[2]>> \notin L

\* N holds what may match nothing.
HoldsEmpty(g, L, N) ==
  \A x \in L :
    LET e == x[2]
        kids == 1..Len(e.kids)
    IN  \/ x \in N
        \/ e.op \in {"Terminal", "Token"}
        \/ e.op \in {"TerminalSeq", "Matcher"} /\ e.sym # <<>>
        \/ e.op = "Sequence" /\ \E k \in kids : ChildIn(x, k) \notin N
        \/ e.op \in {"Alternation", "Lexeme"} /\ \A k \in kids : ChildIn(x, k) \notin N
        \/ e.op = "Repetition" /\ e.min_rep > 0 /\ ChildIn(x, 1) \notin N
        \/ /\ e.op = "NonTerminal" /\ e.rule \notin g.recover
           /\ BodyOf(g, x) \notin N

\* C holds the calls that may happen before anything is consumed: of a child
\* whose elder siblings may match nothing, of the skipper after such siblings,
\* of a body, and calls of calls.
HoldsLeftCalls(g, L, N, C) ==
  /\ \A x \in L :
       /\ \A k \in 1..Len(x[2].kids) :
            (x[2].op = "Sequence" => \A j \in 1..(k - 1) : ChildIn(x, j) \in N) =>
              /\ <<x, ChildIn(x, k)>> \in C
              /\ x[2].op = "Sequence" /\ x[1] /\ k > 1 =>
                   <<x, SkipperCall(g)>> \in C
       /\ x[2].op = "NonTerminal" => <<x, BodyOf(g, x)>> \in C
  /\ \A x, y, z \in L : <<x, y>> \in C /\ <<y, z>> \in C => <<x, z>> \in C

\* No rule can call itself before anything is consumed.
NotLeftRecursive(g, L) ==
  \E N \in SUBSET L, C \in SUBSET (L \X L) :
    /\ HoldsEmpty(g, L, N)
    /\ HoldsLeftCalls(g, L, N, C)
    /\ \A x \in L : x[2].op = "NonTerminal" => <<x, x>> \notin C
=============================================================================
