---------------------------- MODULE PegSoundProofs ----------------------------
(***************************************************************************)
(* Every answer of the engine can be derived by the inference rules of     *)
(* PegDerivations: the packrat memo, the shared cursor, recovery and the   *)
(* repeated grow loop add none.                                            *)
(***************************************************************************)
EXTENDS PegCutProofs, PegTreeProofs, PegDerivations

-----------------------------------------------------------------------------
(* Derivations only go forward.                                            *)

\* What a judgement says of the positions: a match of what cannot match
\* nothing moves, and so does an iteration.
Advances(N, j) ==
  LET e == j[3]
      p == j[5]
      q == j[6]
  IN  /\ j[1] = "match" => p <= q /\ (q = p => <<j[2], e>> \in N)
      /\ j[1] = "got" =>
           /\ p <= q
           /\ e.op = "Sequence" /\ q = p =>
                \A k \in 1..j[4] : ChildIn(<<j[2], e>>, k) \in N
           /\ e.op = "Repetition" /\ j[4] > 0 => p < q

Advancing(N, D) == {j \in D : Advances(N, j)}

\* What Advances asks of partial work.
GotAdvances(N, s, e, n, p, q) ==
  /\ p <= q
  /\ e.op = "Sequence" /\ q = p => \A k \in 1..n : ChildIn(<<s, e>>, k) \in N
  /\ e.op = "Repetition" /\ n > 0 => p < q

\* The judgements that are left.
LEMMA AdvancingHolds ==
  ASSUME NEW N, NEW D
  PROVE  /\ \A s, e, p, q : Matches(s, e, p, q) \in Advancing(N, D) <=>
              Matches(s, e, p, q) \in D /\ p <= q /\ (q = p => <<s, e>> \in N)
         /\ \A s, e, p : Fails(s, e, p) \in Advancing(N, D) <=> Fails(s, e, p) \in D
         /\ \A s, e, n, p, q : Got(s, e, n, p, q) \in Advancing(N, D) <=>
              Got(s, e, n, p, q) \in D /\ GotAdvances(N, s, e, n, p, q)
BY DEF Advancing, Advances, Matches, Fails, Got, GotAdvances

\* A situation: an expression of the grammar and a mode.
Situations == BOOLEAN \X Exprs

\* The expressions of the situations are well formed.
LEMMA SituationFacts ==
  ASSUME NEW x \in Situations
  PROVE  /\ x = <<x[1], x[2]>> /\ x[1] \in BOOLEAN /\ x[2] \in Exprs
         /\ ExprOK(x[2]) /\ Len(x[2].kids) \in Nat
         /\ x[2].op \in UnaryOps => Len(x[2].kids) = 1
         /\ \A k \in 1..Len(x[2].kids) : x[2].kids[k] \in Exprs
<1>1. x = <<x[1], x[2]>> /\ x[1] \in BOOLEAN /\ x[2] \in Exprs
  BY DEF Situations
<1>2. ExprOK(x[2])
  BY <1>1, MachineAssumption
<1> QED
  BY <1>1, <1>2 DEF ExprOK

\* RepetitionRule, for every number of iterations.
Iterates(g, in, s, e, p, D) ==
  /\ Got(s, e, 0, p, p) \in D
  /\ \A n \in Nat, q, m \in 0..Len(in) :
       Got(s, e, n, p, q) \in D /\ Resumes(g, D, s, n, q, m) =>
         /\ \A r \in 0..Len(in) : Matches(s, e.kids[1], m, r) \in D =>
              IF LastIteration(e, n + 1, m, r)
              THEN Derives(D, s, e, p, r, n + 1 >= e.min_rep)
              ELSE Got(s, e, n + 1, p, r) \in D
         /\ Fails(s, e.kids[1], m) \in D =>
              Derives(D, s, e, p, q, n >= e.min_rep)

\* A loop that has come to an iteration is spoken of: the rule of a repetition
\* covers every number of iterations.
LEMMA RepetitionIterates ==
  \A g, in, s, e, p, D :
    RepetitionRule(g, in, s, e, p, D) <=> Iterates(g, in, s, e, p, D)
<1> SUFFICES ASSUME NEW g, NEW in, NEW s, NEW e, NEW p, NEW D
             PROVE  RepetitionRule(g, in, s, e, p, D) <=> Iterates(g, in, s, e, p, D)
  OBVIOUS
<1>1. ASSUME NEW n \in Nat, NEW q, Got(s, e, n, p, q) \in D
      PROVE  n \in Counts(D)
  <2>1. Got(s, e, n, p, q)[4] = n
    BY DEF Got
  <2> QED
    BY <1>1, <2>1 DEF Counts
<1>2. \A n \in Counts(D) : n \in Nat
  BY DEF Counts
<1> HIDE DEF Counts
<1> QED
  BY <1>1, <1>2 DEF RepetitionRule, Iterates

\* Judgements of a sequence, a repetition or a rule keep their promise if those
\* they follow from do: what is left is closed, too.
LEMMA AdvancingClosed ==
  ASSUME NEW g, NEW in, Len(in) \in Nat, NEW L \in SUBSET Situations,
         NEW N, NEW D, Parses(g, L), HoldsEmpty(g, L, N),
         InferenceClosed(g, in, L, D)
  PROVE  InferenceClosed(g, in, L, Advancing(N, D))
<1> DEFINE E == Advancing(N, D)
<1>m. \A s, e, p, q : Matches(s, e, p, q) \in E <=>
        Matches(s, e, p, q) \in D /\ p <= q /\ (q = p => <<s, e>> \in N)
  BY AdvancingHolds
<1>f. \A s, e, p : Fails(s, e, p) \in E <=> Fails(s, e, p) \in D
  BY AdvancingHolds
<1>g. \A s, e, n, p, q : Got(s, e, n, p, q) \in E <=>
        Got(s, e, n, p, q) \in D /\ GotAdvances(N, s, e, n, p, q)
  BY AdvancingHolds
<1> HIDE DEF E
<1>d. \A s, e, p, q, ok : Derives(E, s, e, p, q, ok) <=>
        /\ Derives(D, s, e, p, q, ok)
        /\ ok => p <= q /\ (q = p => <<s, e>> \in N)
  BY <1>m, <1>f DEF Derives
<1>r. \A s, n : \A q, m \in 0..Len(in) :
        Resumes(g, E, s, n, q, m) => Resumes(g, D, s, n, q, m) /\ q <= m
  <2> SUFFICES ASSUME NEW s, NEW n, NEW q \in 0..Len(in), NEW m \in 0..Len(in),
                      Resumes(g, E, s, n, q, m)
               PROVE  Resumes(g, D, s, n, q, m) /\ q <= m
    OBVIOUS
  <2>1. q <= q
    OBVIOUS
  <2> QED
    BY <1>m, <1>f, <2>1 DEF Resumes
<1> SUFFICES ASSUME NEW x \in L, NEW p \in 0..Len(in), NEW s, NEW e,
                    s = x[1], e = x[2]
             PROVE  /\ e.op \in {"Terminal", "Token", "TerminalSeq", "Matcher"} =>
                         LiteralRule(in, s, e, p, E)
                    /\ e.op = "Empty" => Matches(s, e, p, p) \in E
                    /\ e.op = "Sequence" => SequenceRule(g, in, s, e, p, E)
                    /\ e.op = "Alternation" => AlternationRule(in, s, e, p, E)
                    /\ e.op = "Repetition" => RepetitionRule(g, in, s, e, p, E)
                    /\ e.op \in {"Not", "And"} => PredicateRule(in, s, e, p, E)
                    /\ e.op = "Lexeme" => LexemeRule(in, s, e, p, E)
                    /\ e.op = "NonTerminal" => NonTerminalRule(g, in, s, e, p, E)
  BY DEF InferenceClosed, E
<1>1. /\ x \in Situations /\ x = <<s, e>> /\ s \in BOOLEAN /\ ExprOK(e)
      /\ Len(e.kids) \in Nat /\ e.op \in UnaryOps => Len(e.kids) = 1
  BY SituationFacts
<1>2. /\ \/ x \in N
         \/ e.op \in {"Terminal", "Token"}
         \/ e.op \in {"TerminalSeq", "Matcher"} /\ e.sym # <<>>
         \/ e.op = "Sequence" /\ \E k \in 1..Len(e.kids) : ChildIn(x, k) \notin N
         \/ /\ e.op \in {"Alternation", "Lexeme"}
            /\ \A k \in 1..Len(e.kids) : ChildIn(x, k) \notin N
         \/ e.op = "Repetition" /\ e.min_rep > 0 /\ ChildIn(x, 1) \notin N
         \/ /\ e.op = "NonTerminal" /\ e.rule \notin g.recover
            /\ BodyOf(g, x) \notin N
      /\ e.op \in {"Sequence", "Alternation", "Repetition", "Not", "And"} =>
           \A k \in 1..Len(e.kids) : ChildIn(x, k) = <<s, e.kids[k]>>
      /\ e.op = "Lexeme" => ChildIn(x, 1) = <<FALSE, e.kids[1]>>
      /\ e.op = "NonTerminal" => BodyOf(g, x) = <<s, g.body[e.rule]>>
  BY <1>1 DEF HoldsEmpty, ChildIn, BodyOf
<1>3. CASE e.op \in {"Terminal", "Token", "TerminalSeq", "Matcher"}
  <2>1. LiteralRule(in, s, e, p, D)
    BY <1>3 DEF InferenceClosed
  <2>2. Len(e.sym) \in Nat /\ (Len(e.sym) = 0 => x \in N)
    <3>1. e.sym \in Seq(SUBSET Chars)
      BY <1>1 DEF ExprOK
    <3>2. Len(e.sym) \in Nat /\ (Len(e.sym) = 0 => e.sym = <<>>)
      BY <3>1
    <3>3. e.op \in {"Terminal", "Token"} => Len(e.sym) = 1
      BY <1>1 DEF ExprOK
    <3> QED
      BY <1>2, <1>3, <3>2, <3>3
  <2> QED
    BY <1>1, <1>3, <1>d, <2>1, <2>2 DEF LiteralRule
<1>4. CASE e.op = "Empty"
  BY <1>1, <1>2, <1>4, <1>m DEF InferenceClosed
<1>5. CASE e.op = "Sequence"
  <2>1. SequenceRule(g, in, s, e, p, D)
    BY <1>5 DEF InferenceClosed
  <2>2. Got(s, e, 0, p, p) \in E
    <3>1. GotAdvances(N, s, e, 0, p, p)
      BY <1>5 DEF GotAdvances
    <3> QED
      BY <1>g, <2>1, <3>1 DEF SequenceRule
  <2>3. ASSUME NEW n \in 0..(Len(e.kids) - 1), NEW q \in 0..Len(in),
               NEW m \in 0..Len(in), Got(s, e, n, p, q) \in E,
               Resumes(g, E, s, n, q, m)
        PROVE  /\ \A r \in 0..Len(in) : Matches(s, e.kids[n + 1], m, r) \in E =>
                    Got(s, e, n + 1, p, r) \in E
               /\ Fails(s, e.kids[n + 1], m) \in E => Fails(s, e, p) \in E
    <3>1. Got(s, e, n, p, q) \in D /\ Resumes(g, D, s, n, q, m) /\ p <= q /\ q <= m
      BY <1>g, <1>r, <2>3 DEF GotAdvances
    <3>2. ASSUME NEW r \in 0..Len(in), Matches(s, e.kids[n + 1], m, r) \in E
          PROVE  Got(s, e, n + 1, p, r) \in E
      <4>1. /\ Matches(s, e.kids[n + 1], m, r) \in D /\ m <= r
            /\ r = m => ChildIn(x, n + 1) \in N
        <5>1. n + 1 \in 1..Len(e.kids)
          BY <1>1
        <5>2. ChildIn(x, n + 1) = <<s, e.kids[n + 1]>>
          BY <1>2, <1>5, <5>1
        <5> QED
          BY <1>m, <3>2, <5>2
      <4>2. Got(s, e, n + 1, p, r) \in D
        BY <2>1, <3>1, <4>1 DEF SequenceRule
      <4>3. r = p => \A k \in 1..(n + 1) : ChildIn(x, k) \in N
        BY <1>1, <1>5, <1>g, <2>3, <3>1, <4>1 DEF GotAdvances
      <4>4. GotAdvances(N, s, e, n + 1, p, r)
        BY <1>1, <1>5, <3>1, <4>1, <4>3 DEF GotAdvances
      <4> QED
        BY <1>g, <4>2, <4>4
    <3> QED
      BY <1>f, <2>1, <3>1, <3>2 DEF SequenceRule
  <2>4. ASSUME NEW q \in 0..Len(in), Got(s, e, Len(e.kids), p, q) \in E
        PROVE  Matches(s, e, p, q) \in E
    <3>1. Got(s, e, Len(e.kids), p, q) \in D /\ p <= q /\ (q = p => x \in N)
      BY <1>1, <1>2, <1>5, <1>g, <2>4 DEF GotAdvances
    <3> QED
      BY <1>1, <1>m, <2>1, <3>1 DEF SequenceRule
  <2> QED
    BY <1>5, <2>2, <2>3, <2>4 DEF SequenceRule
<1>6. CASE e.op = "Alternation"
  <2>1. AlternationRule(in, s, e, p, D)
    BY <1>6 DEF InferenceClosed
  <2>2. \A n : Got(s, e, n, p, p) \in E <=> Got(s, e, n, p, p) \in D
    <3>1. \A n : GotAdvances(N, s, e, n, p, p)
      BY <1>6 DEF GotAdvances
    <3> QED
      BY <1>g, <3>1
  <2>3. ASSUME NEW n \in 0..(Len(e.kids) - 1), Got(s, e, n, p, p) \in D,
               NEW q \in 0..Len(in), Matches(s, e.kids[n + 1], p, q) \in E
        PROVE  Matches(s, e, p, q) \in E
    <3>1. n + 1 \in 1..Len(e.kids)
      BY <1>1
    <3>2. ChildIn(x, n + 1) = <<s, e.kids[n + 1]>>
      BY <1>2, <1>6, <3>1
    <3>3. /\ Matches(s, e.kids[n + 1], p, q) \in D /\ p <= q
          /\ q = p => ChildIn(x, n + 1) \in N
      BY <1>m, <2>3, <3>2
    <3>4. Matches(s, e, p, q) \in D
      BY <2>1, <2>3, <3>3 DEF AlternationRule
    <3>5. q = p => <<s, e>> \in N
      BY <1>1, <1>2, <1>6, <3>1, <3>3
    <3> QED
      BY <1>m, <3>3, <3>4, <3>5
  <2> QED
    BY <1>6, <1>f, <2>1, <2>2, <2>3 DEF AlternationRule
<1>7. CASE e.op = "Repetition"
  <2>1. RepetitionRule(g, in, s, e, p, D)
    BY <1>7 DEF InferenceClosed
  <2>2. Got(s, e, 0, p, p) \in E
    <3>1. GotAdvances(N, s, e, 0, p, p)
      BY <1>7 DEF GotAdvances
    <3> QED
      BY <1>g, <2>1, <3>1, RepetitionIterates DEF Iterates
  <2>3. \A n \in Nat, q, m \in 0..Len(in) :
          Got(s, e, n, p, q) \in E /\ Resumes(g, E, s, n, q, m) =>
            /\ \A r \in 0..Len(in) : Matches(s, e.kids[1], m, r) \in E =>
                 IF LastIteration(e, n + 1, m, r)
                 THEN Derives(E, s, e, p, r, n + 1 >= e.min_rep)
                 ELSE Got(s, e, n + 1, p, r) \in E
            /\ Fails(s, e.kids[1], m) \in E =>
                 Derives(E, s, e, p, q, n >= e.min_rep)
    <3> SUFFICES ASSUME NEW n \in Nat, NEW q \in 0..Len(in), NEW m \in 0..Len(in),
                        Got(s, e, n, p, q) \in E, Resumes(g, E, s, n, q, m)
                 PROVE  /\ \A r \in 0..Len(in) : Matches(s, e.kids[1], m, r) \in E =>
                             IF LastIteration(e, n + 1, m, r)
                             THEN Derives(E, s, e, p, r, n + 1 >= e.min_rep)
                             ELSE Got(s, e, n + 1, p, r) \in E
                        /\ Fails(s, e.kids[1], m) \in E =>
                             Derives(E, s, e, p, q, n >= e.min_rep)
      OBVIOUS
    <3>1. /\ Got(s, e, n, p, q) \in D /\ Resumes(g, D, s, n, q, m)
          /\ p <= q /\ q <= m /\ (n > 0 => p < q)
      <4>0. Got(s, e, n, p, q) \in E
        OBVIOUS
      <4>1. Got(s, e, n, p, q) \in D /\ GotAdvances(N, s, e, n, p, q)
        BY ONLY <1>g, <4>0
      <4>2. p <= q /\ (n > 0 => p < q)
        BY <1>7, <4>1 DEF GotAdvances
      <4> QED
        BY <1>r, <4>1, <4>2
    <3>2. ChildIn(x, 1) = <<s, e.kids[1]>> /\ e.min_rep \in Nat
      <4>1. Len(e.kids) = 1 /\ e.min_rep \in Nat
        BY <1>1, <1>7 DEF UnaryOps, ExprOK
      <4> QED
        BY <1>2, <1>7, <4>1
    <3>3. ASSUME NEW r \in 0..Len(in), Matches(s, e.kids[1], m, r) \in E
          PROVE  IF LastIteration(e, n + 1, m, r)
                 THEN Derives(E, s, e, p, r, n + 1 >= e.min_rep)
                 ELSE Got(s, e, n + 1, p, r) \in E
      <4>1. /\ Matches(s, e.kids[1], m, r) \in D /\ m <= r
            /\ r = m => ChildIn(x, 1) \in N
        BY <1>m, <3>2, <3>3
      <4>2. IF LastIteration(e, n + 1, m, r)
            THEN Derives(D, s, e, p, r, n + 1 >= e.min_rep)
            ELSE Got(s, e, n + 1, p, r) \in D
        BY <2>1, <3>1, <4>1, RepetitionIterates DEF Iterates
      <4>3. r = p => x \in N
        BY <1>2, <1>7, <3>1, <4>1
      <4>4. CASE LastIteration(e, n + 1, m, r)
        BY <1>1, <1>d, <3>1, <4>1, <4>2, <4>3, <4>4
      <4>5. CASE ~ LastIteration(e, n + 1, m, r)
        <5>1. m < r
          BY <4>1, <4>5 DEF LastIteration
        <5>2. GotAdvances(N, s, e, n + 1, p, r)
          BY <1>7, <3>1, <5>1 DEF GotAdvances
        <5> QED
          BY <1>g, <4>2, <4>5, <5>2
      <4> QED
        BY <4>4, <4>5
    <3>4. ASSUME Fails(s, e.kids[1], m) \in E
          PROVE  Derives(E, s, e, p, q, n >= e.min_rep)
      <4>1. Derives(D, s, e, p, q, n >= e.min_rep)
        BY <1>f, <2>1, <3>1, <3>4, RepetitionIterates DEF Iterates
      <4>2. n >= e.min_rep /\ q = p => x \in N
        BY <1>2, <1>7, <3>1, <3>2
      <4> QED
        BY <1>1, <1>d, <3>1, <4>1, <4>2
    <3> QED
      BY <3>3, <3>4
  <2>4. RepetitionRule(g, in, s, e, p, E)
    BY ONLY <2>2, <2>3, RepetitionIterates DEF Iterates
  <2> QED
    BY <1>7, <2>4
<1>8. CASE e.op \in {"Not", "And"}
  <2>1. PredicateRule(in, s, e, p, D)
    BY <1>8 DEF InferenceClosed
  <2>2. \A ok : Derives(D, s, e, p, p, ok) => Derives(E, s, e, p, p, ok)
    BY <1>1, <1>2, <1>8, <1>d
  <2>3. \A q \in 0..Len(in) : Matches(s, e.kids[1], p, q) \in E =>
          Derives(E, s, e, p, p, e.op = "And")
    BY <1>m, <2>1, <2>2 DEF PredicateRule
  <2>4. Fails(s, e.kids[1], p) \in E => Derives(E, s, e, p, p, e.op = "Not")
    BY <1>f, <2>1, <2>2 DEF PredicateRule
  <2>5. PredicateRule(in, s, e, p, E)
    BY ONLY <2>3, <2>4 DEF PredicateRule
  <2> QED
    BY <1>8, <2>5
<1>9. CASE e.op = "Lexeme"
  <2>1. LexemeRule(in, s, e, p, D)
    BY <1>9 DEF InferenceClosed
  <2>2. Len(e.kids) = 1
    BY <1>1, <1>9 DEF UnaryOps
  <2> QED
    <3>1. \A q \in 0..Len(in) :
            Matches(FALSE, e.kids[1], p, q) \in E => Matches(s, e, p, q) \in E
      <4> SUFFICES ASSUME NEW q \in 0..Len(in),
                          Matches(FALSE, e.kids[1], p, q) \in E
                   PROVE  Matches(s, e, p, q) \in E
        OBVIOUS
      <4>1. /\ Matches(FALSE, e.kids[1], p, q) \in D /\ p <= q
            /\ q = p => ChildIn(x, 1) \in N
        <5>1. ChildIn(x, 1) = <<FALSE, e.kids[1]>>
          BY <1>2, <1>9
        <5> QED
          BY <1>m, <5>1
      <4>2. Matches(s, e, p, q) \in D
        BY <2>1, <4>1 DEF LexemeRule
      <4>3. ChildIn(x, 1) \in N => x \in N
        BY <1>2, <1>9, <2>2
      <4> QED
        BY <1>1, <1>m, <4>1, <4>2, <4>3
    <3>2. Fails(FALSE, e.kids[1], p) \in E => Fails(s, e, p) \in E
      BY <1>f, <2>1 DEF LexemeRule
    <3>3. LexemeRule(in, s, e, p, E)
      BY ONLY <3>1, <3>2 DEF LexemeRule
    <3> QED
      BY <1>9, <3>3
<1>10. CASE e.op = "NonTerminal"
  <2>1. NonTerminalRule(g, in, s, e, p, D)
    BY <1>10 DEF InferenceClosed
  <2>2. \A q \in 0..Len(in) :
          Matches(s, g.body[e.rule], p, q) \in E => Matches(s, e, p, q) \in E
    <3> SUFFICES ASSUME NEW q \in 0..Len(in),
                        Matches(s, g.body[e.rule], p, q) \in E
                 PROVE  Matches(s, e, p, q) \in E
      OBVIOUS
    <3> QED
      BY <1>1, <1>2, <1>10, <1>m, <2>1 DEF NonTerminalRule
  <2>3. e.rule \in g.recover /\ Fails(s, g.body[e.rule], p) \in E =>
          \A q \in p..Len(in) :
            Synced(g, in, e.rule, p, q) => Matches(s, e, p, q) \in E
    <3> SUFFICES ASSUME e.rule \in g.recover, Fails(s, g.body[e.rule], p) \in E,
                        NEW q \in p..Len(in), Synced(g, in, e.rule, p, q)
                 PROVE  Matches(s, e, p, q) \in E
      OBVIOUS
    <3> QED
      BY <1>1, <1>2, <1>10, <1>m, <1>f, <2>1 DEF NonTerminalRule
  <2>4. e.rule \notin g.recover /\ Fails(s, g.body[e.rule], p) \in E =>
          Fails(s, e, p) \in E
    BY <1>f, <2>1 DEF NonTerminalRule
  <2>5. NonTerminalRule(g, in, s, e, p, E)
    BY ONLY <2>2, <2>3, <2>4 DEF NonTerminalRule
  <2> QED
    BY <1>10, <2>5
<1> QED
  BY <1>3, <1>4, <1>5, <1>6, <1>7, <1>8, <1>9, <1>10

-----------------------------------------------------------------------------
(* What the active calls have derived, and what they wait for.             *)

\* Auto-skip is on for what the k-th of the calls s parses.
AutoIn(g, s, k) ==
  g.skipper # NoRule /\ \A j \in 1..k : ~ InnerSkipScope(s[j])

\* What the call f is parsing, or parses next.
Callee(g, f) ==
  CASE f.kind \in ListOps -> f.e.kids[f.i + 1]
    [] f.kind = "NonTerminal" -> g.body[f.e.rule]
    [] f.kind = "Skipper" -> f.e
    [] OTHER -> f.e.kids[1]

\* The same for the k-th of the calls s, or Grammar::parse.
Asked(g, s, k) == IF k = 0 THEN Ref(g.start) ELSE Callee(g, s[k])

\* The call f, in mode m, is about to skip at p: f.i children are done.
Paused(D, m, f, p) ==
  /\ f.i > 0 /\ Got(m, f.e, f.i, f.start, p) \in D
  /\ f.kind = "Repetition" => f.last = p

\* The call f has skipped, and parses its next child at p.
Ready(g, n, D, m, f, p) ==
  \E q \in 0..n :
    /\ Got(m, f.e, f.i, f.start, q) \in D
    /\ Resumes(g, D, m, f.i, q, p)
    /\ f.kind = "Repetition" => f.last = q

\* The call f has entered a child at p.
Waiting(g, n, D, m, f, p) ==
  /\ IF f.kind \in RunsSkipper THEN Ready(g, n, D, m, f, p) ELSE p = f.start
  /\ f.kind = "Repetition" => f.iter = p
  /\ f.kind = "Alternation" => Got(m, f.e, f.i, p, p) \in D
  /\ f.kind = "NonTerminal" /\ f.best.success =>
       Matches(m, g.body[f.e.rule], p, f.rs.m_last_pos) \in D

\* The same for the k-th of the calls s; Grammar::parse waits for anything.
Awaits(g, n, D, s, k, p) ==
  k > 0 => Waiting(g, n, D, AutoIn(g, s, k - 1), s[k], p)

\* The k-th of the calls s is what its caller asked for.
Link(g, n, L, D, s, k) ==
  IF s[k].kind = "Skipper"
  THEN /\ s[k].e = Ref(g.skipper) /\ AutoIn(g, s, k - 1)
       /\ k > 1 => Paused(D, AutoIn(g, s, k - 2), s[k - 1], s[k].start)
  ELSE /\ <<AutoIn(g, s, k - 1), s[k].e>> \in L
       /\ s[k].e = Asked(g, s, k - 1)
       /\ Awaits(g, n, D, s, k - 1, s[k].start)

Linked(L, D) == \A k \in 1..Len(stack) : Link(gram, Len(input), L, D, stack, k)

\* The step c of the innermost of the calls s, at p.
Due(g, n, L, D, s, c, p) ==
  LET d == Len(s)
  IN  /\ c.mode = "call" =>
           /\ <<AutoIn(g, s, d), c.e>> \in L
           /\ c.e = Asked(g, s, d)
           /\ Awaits(g, n, D, s, d, p)
      /\ c.mode = "return" =>
           /\ Awaits(g, n, D, s, d, c.at)
           /\ Derives(D, AutoIn(g, s, d), Asked(g, s, d), c.at, p, c.res.success)
      /\ c.mode = "skip" /\ d > 0 => Paused(D, AutoIn(g, s, d - 1), s[d], p)
      /\ c.mode = "go" /\ d > 0 => Ready(g, n, D, AutoIn(g, s, d - 1), s[d], p)
      /\ c.mode = "finish" =>
           /\ d > 0 /\ s[d].kind = "NonTerminal"
           /\ s[d].best.success => p = s[d].rs.m_last_pos
           /\ Derives(D, AutoIn(g, s, d - 1), g.body[s[d].e.rule], s[d].start,
                      p, s[d].best.success)

\* The next step of the machine.
DueNow(L, D) == Due(gram, Len(input), L, D, stack, ctl, mark(ctx))

\* Only the first k calls matter for the k-th.
LEMMA Outer ==
  ASSUME NEW g, NEW n, NEW L, NEW D, NEW s, NEW t, NEW k \in Nat,
         \A j \in 1..k : t[j] = s[j]
  PROVE  /\ \A i \in 0..k : /\ AutoIn(g, t, i) = AutoIn(g, s, i)
                            /\ Asked(g, t, i) = Asked(g, s, i)
         /\ \A p : \A i \in 0..k : Awaits(g, n, D, t, i, p) <=> Awaits(g, n, D, s, i, p)
         /\ \A i \in 1..k : Link(g, n, L, D, t, i) <=> Link(g, n, L, D, s, i)
<1>1. ASSUME NEW i \in 0..k
      PROVE  AutoIn(g, t, i) = AutoIn(g, s, i)
  <2>1. \A j \in 1..i : t[j] = s[j]
    OBVIOUS
  <2>2. AutoIn(g, t, i) <=> AutoIn(g, s, i)
    BY <2>1 DEF AutoIn
  <2> QED
    BY <2>2 DEF AutoIn
<1>2. \A i \in 0..k : Asked(g, t, i) = Asked(g, s, i)
  BY DEF Asked
<1>3. \A p : \A i \in 0..k : Awaits(g, n, D, t, i, p) <=> Awaits(g, n, D, s, i, p)
  <2> SUFFICES ASSUME NEW i \in 1..k, NEW p
               PROVE  Awaits(g, n, D, t, i, p) <=> Awaits(g, n, D, s, i, p)
    BY DEF Awaits
  <2>1. AutoIn(g, t, i - 1) = AutoIn(g, s, i - 1) /\ t[i] = s[i]
    BY <1>1
  <2> QED
    BY <2>1 DEF Awaits
<1>4. ASSUME NEW i \in 1..k
      PROVE  Link(g, n, L, D, t, i) <=> Link(g, n, L, D, s, i)
  <2>1. i - 1 \in 0..k /\ (i > 1 => i - 2 \in 0..k /\ i - 1 \in 1..k)
    OBVIOUS
  <2>2. /\ t[i] = s[i] /\ (i > 1 => t[i - 1] = s[i - 1])
        /\ AutoIn(g, t, i - 1) = AutoIn(g, s, i - 1)
        /\ i > 1 => AutoIn(g, t, i - 2) = AutoIn(g, s, i - 2)
        /\ Asked(g, t, i - 1) = Asked(g, s, i - 1)
        /\ \A p : Awaits(g, n, D, t, i - 1, p) <=> Awaits(g, n, D, s, i - 1, p)
    BY <1>1, <1>2, <1>3, <2>1
  <2> QED
    BY <2>2 DEF Link
<1> QED
  BY <1>1, <1>2, <1>3, <1>4

\* Auto-skip inside a call that is opened.
LEMMA AutoPushed ==
  ASSUME NEW g, NEW S, NEW s \in Seq(S), NEW f
  PROVE  AutoIn(g, Append(s, f), Len(s) + 1) =
           (AutoIn(g, s, Len(s)) /\ ~ InnerSkipScope(f))
<1> DEFINE t == Append(s, f)
<1>1. /\ Len(s) \in Nat /\ t[Len(s) + 1] = f
      /\ \A j \in 1..Len(s) : t[j] = s[j]
  OBVIOUS
<1> HIDE DEF t
<1>2. 1..(Len(s) + 1) = 1..Len(s) \cup {Len(s) + 1}
  BY <1>1
<1>3. AutoIn(g, t, Len(s) + 1) <=> AutoIn(g, s, Len(s)) /\ ~ InnerSkipScope(f)
  BY <1>1, <1>2 DEF AutoIn
<1> QED
  BY <1>3 DEF AutoIn, t

-----------------------------------------------------------------------------
(* The shapes of a step, as far as derivations go.                         *)

\* After the step, too, the calls are linked and the next step is due.
StaysSound(L, D) ==
  /\ \A k \in 1..Len(stack') : Link(gram, Len(input), L, D, stack', k)
  /\ Due(gram, Len(input), L, D, stack', ctl', mark(ctx'))

\* Auto-skip inside the k-th call, by auto-skip around it.
LEMMA AutoWithin ==
  ASSUME NEW g, NEW s, NEW k \in Nat \ {0}
  PROVE  AutoIn(g, s, k) = (AutoIn(g, s, k - 1) /\ ~ InnerSkipScope(s[k]))
<1>1. 1..k = 1..(k - 1) \cup {k}
  OBVIOUS
<1>2. AutoIn(g, s, k) <=> AutoIn(g, s, k - 1) /\ ~ InnerSkipScope(s[k])
  BY <1>1 DEF AutoIn
<1> QED
  BY <1>2 DEF AutoIn

\* The situation of the k-th call, and of what the innermost call asks for.
ModeOf(k) == AutoIn(gram, stack, k - 1)
ModeHere == AutoIn(gram, stack, Len(stack))

\* A parse() that returns without a call of its own, as leaves and memo hits do.
LEMMA SoundAtOnce ==
  ASSUME Inv, NEW L, NEW D, Linked(L, D), DueNow(L, D), ctl.mode = "call",
         stack' = stack, ctl'.mode = "return", ctl'.at = mark(ctx),
         Derives(D, ModeHere, ctl.e, mark(ctx), mark(ctx'), ctl'.res.success)
  PROVE  StaysSound(L, D)
<1>1. /\ ctl.e = Asked(gram, stack, Len(stack))
      /\ Awaits(gram, Len(input), D, stack, Len(stack), mark(ctx))
  BY DEF DueNow, Due
<1>2. Due(gram, Len(input), L, D, stack', ctl', mark(ctx'))
  BY <1>1 DEF Due, ModeHere
<1> QED
  BY <1>2 DEF StaysSound, Linked

\* A parse() that returns to its caller.
LEMMA SoundReturn ==
  ASSUME Inv, NEW L, NEW D, Linked(L, D), stack # <<>>, Top.kind # "Skipper",
         Pop, ctl'.mode = "return", ctl'.at = Top.start,
         Derives(D, ModeOf(Len(stack)), Top.e, Top.start, mark(ctx'),
                 ctl'.res.success)
  PROVE  StaysSound(L, D)
<1>1. /\ Len(stack') = Len(stack) - 1 /\ Len(stack) \in Nat /\ Len(stack) >= 1
      /\ \A k \in 1..(Len(stack) - 1) : stack'[k] = stack[k]
  BY Facts, FrontFacts, TopFacts DEF Pop, Front
<1> DEFINE d == Len(stack) - 1
<1>2. /\ d \in Nat /\ Len(stack') = d /\ d + 1 = Len(stack)
      /\ d + 1 \in 1..Len(stack) /\ d \in 0..d
      /\ \A k \in 1..d : stack'[k] = stack[k]
  BY <1>1
<1> HIDE DEF d
<1>3. /\ AutoIn(gram, stack', d) = AutoIn(gram, stack, d)
      /\ Asked(gram, stack', d) = Asked(gram, stack, d)
      /\ \A p : Awaits(gram, Len(input), D, stack', d, p)
                  <=> Awaits(gram, Len(input), D, stack, d, p)
      /\ \A k \in 1..d : Link(gram, Len(input), L, D, stack', k)
                           <=> Link(gram, Len(input), L, D, stack, k)
  BY <1>2, Outer
<1>4. Link(gram, Len(input), L, D, stack, d + 1)
  BY <1>2 DEF Linked
<1>5. /\ Top.e = Asked(gram, stack, d)
      /\ Awaits(gram, Len(input), D, stack, d, Top.start)
  BY <1>2, <1>4 DEF Link, Top
<1>6. Due(gram, Len(input), L, D, stack', ctl', mark(ctx'))
  <2>1. Len(stack) - 1 = d
    BY DEF d
  <2> QED
    BY <1>2, <1>3, <1>5, <2>1 DEF Due, ModeOf
<1>7. \A k \in 1..d : Link(gram, Len(input), L, D, stack, k)
  BY <1>2 DEF Linked
<1> QED
  BY <1>2, <1>3, <1>6, <1>7 DEF StaysSound

\* A parse() that is entered, and goes on to its first child.
LEMMA SoundCall ==
  ASSUME Inv, NEW L, NEW D, Linked(L, D), DueNow(L, D), ctl.mode = "call",
         NEW f, Push(f), f.kind # "Skipper", f.e = ctl.e, f.start = mark(ctx),
         \/ /\ ctl'.mode = "call" /\ ctl'.e = Callee(gram, f)
            /\ <<ModeHere /\ ~ InnerSkipScope(f), ctl'.e>> \in L
            /\ Waiting(gram, Len(input), D, ModeHere, f, mark(ctx'))
         \/ /\ ctl'.mode = "go"
            /\ Ready(gram, Len(input), D, ModeHere, f, mark(ctx'))
  PROVE  StaysSound(L, D)
<1> DEFINE d == Len(stack)
<1>0. stack \in Seq(Frames)
  BY Facts DEF StackOK
<1>1. /\ d \in Nat /\ d \in 0..d
      /\ Len(stack') = d + 1 /\ stack'[d + 1] = f
      /\ \A k \in 1..d : stack'[k] = stack[k]
  BY <1>0 DEF Push
<1>2. AutoIn(gram, stack', d + 1) = (ModeHere /\ ~ InnerSkipScope(f))
  BY <1>0, AutoPushed DEF Push, ModeHere
<1> HIDE DEF d
<1>3. /\ AutoIn(gram, stack', d) = ModeHere
      /\ Asked(gram, stack', d) = Asked(gram, stack, d)
      /\ \A p : Awaits(gram, Len(input), D, stack', d, p)
                  <=> Awaits(gram, Len(input), D, stack, d, p)
      /\ \A k \in 1..d : Link(gram, Len(input), L, D, stack', k)
                           <=> Link(gram, Len(input), L, D, stack, k)
  BY <1>1, Outer DEF d, ModeHere
<1>4. /\ <<ModeHere, f.e>> \in L
      /\ f.e = Asked(gram, stack, d)
      /\ Awaits(gram, Len(input), D, stack, d, f.start)
  BY DEF DueNow, Due, d, ModeHere
<1>5. d + 1 - 1 = d /\ d + 1 > 0 /\ d + 1 # 0
  BY <1>1
<1>6. Link(gram, Len(input), L, D, stack', d + 1)
  BY <1>1, <1>3, <1>4, <1>5 DEF Link
<1>7. Asked(gram, stack', d + 1) = Callee(gram, f)
  BY <1>1, <1>5 DEF Asked
<1>8. \A p : Awaits(gram, Len(input), D, stack', d + 1, p)
               <=> Waiting(gram, Len(input), D, ModeHere, f, p)
  BY <1>1, <1>3, <1>5 DEF Awaits
<1>9. Due(gram, Len(input), L, D, stack', ctl', mark(ctx'))
  BY <1>1, <1>2, <1>3, <1>5, <1>7, <1>8 DEF Due
<1>10. \A k \in 1..Len(stack') : k \in 1..d \/ k = d + 1
  BY <1>1
<1>11. \A k \in 1..d : Link(gram, Len(input), L, D, stack, k)
  BY DEF Linked, d
<1> QED
  BY <1>3, <1>6, <1>9, <1>10, <1>11 DEF StaysSound

\* A parse() that goes on with other locals: to a child, to the skipper, or to
\* the end of a rule's grow loop.
LEMMA SoundOn ==
  ASSUME Inv, NEW L, NEW D, Linked(L, D), stack # <<>>, NEW f, SetTop(f),
         f.kind = Top.kind, f.e = Top.e, f.start = Top.start,
         \/ /\ ctl'.mode = "call" /\ ctl'.e = Callee(gram, f)
            /\ <<ModeHere, ctl'.e>> \in L
            /\ Waiting(gram, Len(input), D, ModeOf(Len(stack)), f, mark(ctx'))
         \/ /\ ctl'.mode = "skip"
            /\ Paused(D, ModeOf(Len(stack)), f, mark(ctx'))
         \/ /\ ctl'.mode = "go"
            /\ Ready(gram, Len(input), D, ModeOf(Len(stack)), f, mark(ctx'))
         \/ /\ ctl'.mode = "finish" /\ f.kind = "NonTerminal"
            /\ f.best.success => mark(ctx') = f.rs.m_last_pos
            /\ Derives(D, ModeOf(Len(stack)), gram.body[f.e.rule], f.start,
                       mark(ctx'), f.best.success)
  PROVE  StaysSound(L, D)
<1> DEFINE d == Len(stack)
<1>0. stack \in Seq(Frames) /\ d \in Nat /\ d >= 1
  BY Facts, TopFacts DEF StackOK
<1>1. /\ d \in Nat /\ d >= 1 /\ d \in 1..d /\ d - 1 \in Nat /\ d - 1 + 1 = d
      /\ Len(stack') = d /\ stack'[d] = f
      /\ \A k \in 1..(d - 1) : stack'[k] = stack[k]
  BY <1>0 DEF SetTop
<1>t. Top = stack[d]
  BY DEF Top
<1>m. ModeHere = AutoIn(gram, stack, d) /\ ModeOf(d) = AutoIn(gram, stack, d - 1)
  BY DEF ModeHere, ModeOf
<1>n. \A k \in 1..d : Link(gram, Len(input), L, D, stack, k)
  BY DEF Linked
<1> HIDE DEF d
<1>2. /\ AutoIn(gram, stack', d - 1) = AutoIn(gram, stack, d - 1)
      /\ d > 1 => AutoIn(gram, stack', d - 2) = AutoIn(gram, stack, d - 2)
      /\ Asked(gram, stack', d - 1) = Asked(gram, stack, d - 1)
      /\ \A p : Awaits(gram, Len(input), D, stack', d - 1, p)
                  <=> Awaits(gram, Len(input), D, stack, d - 1, p)
      /\ \A k \in 1..(d - 1) : Link(gram, Len(input), L, D, stack', k)
                                 <=> Link(gram, Len(input), L, D, stack, k)
  <2>1. d > 1 => d - 2 \in 0..(d - 1)
    BY <1>1
  <2>2. d - 1 \in 0..(d - 1)
    BY <1>1
  <2>3. /\ \A i \in 0..(d - 1) : /\ AutoIn(gram, stack', i) = AutoIn(gram, stack, i)
                                  /\ Asked(gram, stack', i) = Asked(gram, stack, i)
        /\ \A p : \A i \in 0..(d - 1) :
             Awaits(gram, Len(input), D, stack', i, p)
               <=> Awaits(gram, Len(input), D, stack, i, p)
        /\ \A k \in 1..(d - 1) : Link(gram, Len(input), L, D, stack', k)
                                   <=> Link(gram, Len(input), L, D, stack, k)
    BY <1>1, Outer
  <2> QED
    BY <2>1, <2>2, <2>3
<1>3. AutoIn(gram, stack', d) = ModeHere
  <2>1. InnerSkipScope(f) <=> InnerSkipScope(stack[d])
    BY <1>t DEF InnerSkipScope
  <2>2. /\ AutoIn(gram, stack', d) =
             (AutoIn(gram, stack', d - 1) /\ ~ InnerSkipScope(f))
        /\ ModeHere = (AutoIn(gram, stack, d - 1) /\ ~ InnerSkipScope(stack[d]))
    BY <1>1, <1>m, AutoWithin
  <2> QED
    BY <1>2, <2>1, <2>2
<1>4. Link(gram, Len(input), L, D, stack', d)
  <2>1. Link(gram, Len(input), L, D, stack, d)
    BY <1>1, <1>n
  <2>2. d > 1 => stack'[d - 1] = stack[d - 1]
    BY <1>1
  <2> QED
    BY <1>1, <1>2, <1>t, <2>1, <2>2 DEF Link
<1>5. Asked(gram, stack', d) = Callee(gram, f)
  BY <1>1 DEF Asked
<1>6. \A p : Awaits(gram, Len(input), D, stack', d, p)
               <=> Waiting(gram, Len(input), D, ModeOf(d), f, p)
  BY <1>1, <1>2, <1>m DEF Awaits
<1>8. d > 0 /\ AutoIn(gram, stack', d - 1) = ModeOf(d) /\ d = Len(stack)
  BY <1>1, <1>2, <1>m DEF d
<1>9. Due(gram, Len(input), L, D, stack', ctl', mark(ctx'))
  BY <1>1, <1>3, <1>5, <1>6, <1>8 DEF Due
<1>10. \A k \in 1..Len(stack') : k \in 1..(d - 1) \/ k = d
  BY <1>1
<1>11. \A k \in 1..(d - 1) : Link(gram, Len(input), L, D, stack, k)
  BY <1>1, <1>n
<1> QED
  BY <1>2, <1>4, <1>9, <1>10, <1>11 DEF StaysSound

-----------------------------------------------------------------------------
(* What holds of every state of a parse whose grammar has rules to go by.  *)

\* The invariants proved elsewhere.
Steady == RunInv /\ SeedInv /\ TreeInv

\* D is closed under the inference rules for the grammar and the input.
Grounded(L, D) ==
  L \in SUBSET Situations /\ Parses(gram, L) /\ InferenceClosed(gram, input, L, D)

Sound(L, D) == Linked(L, D) /\ DueNow(L, D)

\* An expression of the grammar in its mode, its children and its body.
Placed(g, L, s, e) ==
  /\ s \in BOOLEAN /\ e \in Exprs /\ ExprOK(e) /\ e.op # "Cut"
  /\ Len(e.kids) \in Nat /\ (e.op \in UnaryOps => Len(e.kids) = 1)
  /\ e.op \in ListOps => Len(e.kids) >= 1
  /\ e.op # "Lexeme" => \A k \in 1..Len(e.kids) : <<s, e.kids[k]>> \in L
  /\ e.op = "Lexeme" => <<FALSE, e.kids[1]>> \in L
  /\ e.op = "NonTerminal" =>
       /\ e = Ref(e.rule) /\ e.rule \in Rules
       /\ <<s, g.body[e.rule]>> \in L
       /\ <<~ s, e>> \notin L

\* Every situation of the grammar is placed.
LEMMA Situated ==
  ASSUME NEW g, NEW L \in SUBSET Situations, Parses(g, L), NEW s, NEW e,
         <<s, e>> \in L
  PROVE  Placed(g, L, s, e)
<1> DEFINE x == <<s, e>>
<1>0. x \in Situations /\ x[1] = s /\ x[2] = e
  OBVIOUS
<1>1. /\ s \in BOOLEAN /\ e \in Exprs /\ ExprOK(e) /\ Len(e.kids) \in Nat
      /\ e.op \in UnaryOps => Len(e.kids) = 1
  BY <1>0, SituationFacts
<1>2. /\ e.op # "Cut"
      /\ \A k \in 1..Len(e.kids) : <<s /\ e.op # "Lexeme", e.kids[k]>> \in L
      /\ e.op = "NonTerminal" =>
           e = Ref(e.rule) /\ <<s, g.body[e.rule]>> \in L /\ <<~ s, e>> \notin L
  <2>1. x \in L
    OBVIOUS
  <2>2. /\ x[2].op # "Cut"
        /\ \A k \in 1..Len(x[2].kids) : ChildIn(x, k) \in L
        /\ x[2].op = "NonTerminal" =>
             x[2] = Ref(x[2].rule) /\ BodyOf(g, x) \in L /\ <<~ x[1], x[2]>> \notin L
    BY <2>1 DEF Parses
  <2> QED
    BY <1>0, <2>2 DEF ChildIn, BodyOf
<1>3. e.op # "Lexeme" => \A k \in 1..Len(e.kids) : <<s, e.kids[k]>> \in L
  <2> SUFFICES ASSUME e.op # "Lexeme", NEW k \in 1..Len(e.kids)
               PROVE  <<s, e.kids[k]>> \in L
    OBVIOUS
  <2>1. (s /\ e.op # "Lexeme") = s
    BY <1>1
  <2> QED
    BY <1>2, <2>1
<1>4. e.op = "Lexeme" => <<FALSE, e.kids[1]>> \in L
  <2> SUFFICES ASSUME e.op = "Lexeme"
               PROVE  <<FALSE, e.kids[1]>> \in L
    OBVIOUS
  <2>1. (s /\ e.op # "Lexeme") = FALSE
    OBVIOUS
  <2>2. Len(e.kids) = 1
    BY <1>1 DEF UnaryOps
  <2>3. 1 \in 1..Len(e.kids)
    BY <2>2
  <2>4. <<s /\ e.op # "Lexeme", e.kids[1]>> \in L
    BY <1>2, <2>3
  <2> QED
    BY <2>1, <2>4
<1>5. (e.op \in ListOps => Len(e.kids) >= 1) /\ (e.op = "NonTerminal" => e.rule \in Rules)
  BY <1>1 DEF ExprOK
<1> QED
  BY <1>1, <1>2, <1>3, <1>4, <1>5 DEF Placed

\* The same of a reference: it is its rule's, and it occurs in one mode only.
LEMMA SituatedRef ==
  ASSUME NEW g, NEW L \in SUBSET Situations, Parses(g, L), NEW s, NEW e,
         <<s, e>> \in L, e.op = "NonTerminal"
  PROVE  /\ s \in BOOLEAN /\ e = Ref(e.rule) /\ e.rule \in Rules
         /\ <<s, g.body[e.rule]>> \in L /\ <<~ s, e>> \notin L
<1>1. Placed(g, L, s, e)
  BY Situated
<1> QED
  BY <1>1 DEF Placed

\* The inference rules for it.
LEMMA RulesFor ==
  ASSUME NEW g, NEW in, NEW L, NEW D, InferenceClosed(g, in, L, D),
         NEW s, NEW e, <<s, e>> \in L, NEW p \in 0..Len(in)
  PROVE  /\ e.op \in {"Terminal", "Token", "TerminalSeq", "Matcher"} =>
              LiteralRule(in, s, e, p, D)
         /\ e.op = "Empty" => Matches(s, e, p, p) \in D
         /\ e.op = "Sequence" => SequenceRule(g, in, s, e, p, D)
         /\ e.op = "Alternation" => AlternationRule(in, s, e, p, D)
         /\ e.op = "Repetition" => RepetitionRule(g, in, s, e, p, D)
         /\ e.op \in {"Not", "And"} => PredicateRule(in, s, e, p, D)
         /\ e.op = "Lexeme" => LexemeRule(in, s, e, p, D)
         /\ e.op = "NonTerminal" => NonTerminalRule(g, in, s, e, p, D)
<1>1. <<s, e>>[1] = s /\ <<s, e>>[2] = e
  OBVIOUS
<1> QED
  BY <1>1 DEF InferenceClosed

\* The expressions of such a grammar contain no cut.
LEMMA ParsesCutFree ==
  ASSUME Inv, NEW L \in SUBSET Situations, Parses(gram, L)
  PROVE  GrammarCutFree
<1> DEFINE E == {x[2] : x \in L}
<1>1. E \in SUBSET Exprs
  BY DEF Situations
<1>2. ASSUME NEW e \in E
      PROVE  /\ e \in Exprs /\ e.op # "Cut"
             /\ \A k \in 1..Len(e.kids) : e.kids[k] \in E
             /\ e.op = "NonTerminal" => gram.body[e.rule] \in E
  <2>1. PICK x \in L : e = x[2]
    BY <1>2
  <2>2. PICK s : <<s, e>> \in L
    <3>1. x = <<x[1], x[2]>>
      BY DEF Situations
    <3> QED
      BY <2>1, <3>1
  <2>3. \A m, f : <<m, f>> \in L => f \in E
    <3> SUFFICES ASSUME NEW m, NEW f, <<m, f>> \in L PROVE f \in E
      OBVIOUS
    <3>1. <<m, f>>[2] = f
      OBVIOUS
    <3> QED
      BY <3>1
  <2> HIDE DEF E
  <2>4. /\ e \in Exprs /\ e.op # "Cut" /\ Len(e.kids) \in Nat
        /\ e.op \in UnaryOps => Len(e.kids) = 1
        /\ e.op # "Lexeme" => \A k \in 1..Len(e.kids) : <<s, e.kids[k]>> \in L
        /\ e.op = "Lexeme" => <<FALSE, e.kids[1]>> \in L
        /\ e.op = "NonTerminal" => <<s, gram.body[e.rule]>> \in L
    <3>1. Placed(gram, L, s, e)
      BY <2>2, Situated
    <3> QED
      BY <2>2, <3>1 DEF Placed
  <2>5. ASSUME NEW k \in 1..Len(e.kids) PROVE e.kids[k] \in E
    <3>1. CASE e.op # "Lexeme"
      BY <2>3, <2>4, <3>1
    <3>2. CASE e.op = "Lexeme"
      <4>1. Len(e.kids) = 1
        BY <2>4, <3>2 DEF UnaryOps
      <4>2. k = 1
        BY <4>1
      <4> QED
        BY <2>3, <2>4, <3>2, <4>2
    <3> QED
      BY <3>1, <3>2
  <2> QED
    BY <2>3, <2>4, <2>5
<1>3. Ref(gram.start) \in E /\ (gram.skipper # NoRule => Ref(gram.skipper) \in E)
  <2>1. <<gram.skipper # NoRule, Ref(gram.start)>>[2] = Ref(gram.start)
        /\ <<FALSE, Ref(gram.skipper)>>[2] = Ref(gram.skipper)
    OBVIOUS
  <2> QED
    BY <2>1 DEF Parses, SkipperCall
<1> HIDE DEF E
<1>4. GrammarIn(E)
  BY <1>2, <1>3 DEF GrammarIn, SkipperIn, CutFree, Closed, WithSkipper
<1> QED
  BY <1>1, <1>4 DEF GrammarCutFree

\* While such a grammar is parsed nothing is committed or thrown, rules in
\* progress have their entries, and the flag is as the calls say.
LEMMA SteadyFacts ==
  ASSUME Steady, NEW L \in SUBSET Situations, Parses(gram, L)
  PROVE  /\ Inv /\ MirrorInv /\ GrammarCutFree
         /\ ~ IsCut(ctx) /\ ctl.mode # "throw"
         /\ Seeded /\ NoRuleReentered
         /\ ctl.mode # "idle" =>
              /\ ctx.m_skipper = gram.skipper
              /\ SkipperRuns(ctx) <=> ModeHere
<1>1. Inv /\ MirrorInv /\ GrammarCutFree /\ WholeInv /\ CalmInv
  BY ParsesCutFree DEF Steady, RunInv
<1>2. ~ IsCut(ctx) /\ ctl.mode # "throw"
  BY <1>1, Uncommitted
<1>3. SkipResumes
  BY <1>1, StaysCutFree DEF Steady, RunInv, ResumeInv
<1>4. ctl.mode # "idle" => ctx.m_skipper = gram.skipper
  BY <1>1 DEF CalmInv
<1>5. ctx.m_skip_enabled <=> \A k \in 1..Len(stack) : ~ InnerSkipScope(stack[k])
  BY <1>1, <1>3, Facts DEF SkipResumes, FlagOK
<1> QED
  BY <1>1, <1>2, <1>4, <1>5 DEF SkipperRuns, ModeHere, AutoIn, Steady, SeedInv

\* c is a record with a cursor, at p.
Points(c, p) == "m_position" \in DOMAIN c /\ c.m_position = p

\* Only next and reset move the cursor.
LEMMA PointsKept ==
  ASSUME NEW c, NEW p, Points(c, p)
  PROVE  /\ mark(c) = p
         /\ \A x : /\ Points(reset(c, x), x) /\ Points(make_node(c, x), p)
                   /\ Points(set_end(c, x), p) /\ Points(skip_enabled(c, x), p)
                   /\ Points(lr_push(c, x), p) /\ Points(lr_pop(c, x), p)
                   /\ Points(clear_growing_head(c, x), p)
                   /\ Points(record_diagnostic(c, x), p)
         /\ \A x, y : /\ Points(edit_node(c, x, y), p) /\ Points(push_child(c, x, y), p)
                      /\ Points(rule_state(c, x, y), p)
                      /\ Points(clear_siblings_at(c, x, y), p)
                      /\ Points(record_failure(c, x, y), p)
         /\ \A x, y, z : Points(update_rule_state(c, x, y, z), p)
         /\ Points(init_cut(c), p) /\ Points(remove_cut(c), p)
         /\ Points(cut(c, TRUE), p) /\ Points(cut(c, FALSE), p)
<1> DEFINE F == {"m_mem", "m_cut", "m_last_cut", "m_lr_stack", "m_growing_head",
                 "m_diagnostics", "m_skip_enabled", "m_node_arena"} \cup ErrorFields
<1>1. "m_position" \notin F
  BY DEF ErrorFields
<1>2. \A d : Writes(c, d, F) => Points(d, p)
  BY <1>1 DEF Writes, Points
<1>3. \A x : Points(reset(c, x), x)
  BY DEF Points, reset
<1>4. mark(c) = p
  BY DEF Points, mark
<1>5. /\ {"m_mem", "m_cut", "m_last_cut", "m_lr_stack", "m_growing_head",
          "m_diagnostics", "m_skip_enabled", "m_node_arena"} \subseteq F
      /\ ErrorFields \subseteq F
  OBVIOUS
<1> HIDE DEF F
<1> QED
  BY <1>2, <1>3, <1>4, <1>5, Footprints

\* The Context has one.
LEMMA PointsNow ==
  ASSUME Inv
  PROVE  Points(ctx, mark(ctx)) /\ mark(ctx) \in 0..Len(input)
BY Facts DEF ContextOK, Contexts, Points, mark

\* Where the control point goes.
LEMMA Controls ==
  ASSUME Inv
  PROVE  /\ \A r, p : Return(r, p) =>
              ctl'.mode = "return" /\ ctl'.res = r /\ ctl'.at = p
         /\ \A e : Call(e) => ctl'.mode = "call" /\ ctl'.e = e
         /\ \A m : Goto(m) => ctl'.mode = m
BY Facts DEF Control, Return, Call, Goto

\* The innermost call, and what it waits for.
LEMMA TopSound ==
  ASSUME Inv, NEW L \in SUBSET Situations, NEW D, Sound(L, D),
         stack # <<>>, Top.kind # "Skipper"
  PROVE  /\ <<ModeOf(Len(stack)), Top.e>> \in L
         /\ Top.e.op = Top.kind /\ Top.start \in 0..Len(input)
         /\ Top.i \in Nat /\ (Top.kind \in ListOps => Top.i < Len(Top.e.kids))
         /\ Top.kind # "Lexeme" => ModeHere = ModeOf(Len(stack))
         /\ Top.kind = "Lexeme" => ModeHere = FALSE
         /\ ctl.mode = "return" =>
              /\ Waiting(gram, Len(input), D, ModeOf(Len(stack)), Top, ctl.at)
              /\ Derives(D, ModeHere, Callee(gram, Top), ctl.at, mark(ctx),
                         ctl.res.success)
         /\ ctl.mode = "skip" => Paused(D, ModeOf(Len(stack)), Top, mark(ctx))
         /\ ctl.mode = "go" =>
              Ready(gram, Len(input), D, ModeOf(Len(stack)), Top, mark(ctx))
         /\ ctl.mode = "finish" =>
              /\ Top.best.success => mark(ctx) = Top.rs.m_last_pos
              /\ Derives(D, ModeOf(Len(stack)), gram.body[Top.e.rule], Top.start,
                         mark(ctx), Top.best.success)
<1> DEFINE d == Len(stack)
<1>1. /\ d \in Nat /\ d \in 1..d /\ Top \in Frames /\ FrameOK(Top)
  BY Facts, TopFacts, TopOKFacts DEF Top
<1>2. /\ d \in Nat \ {0} /\ d > 0 /\ d # 0
  BY <1>1
<1>t. Top = stack[d] /\ d = Len(stack)
  BY DEF Top
<1>m. ModeHere = AutoIn(gram, stack, d) /\ ModeOf(d) = AutoIn(gram, stack, d - 1)
  BY DEF ModeHere, ModeOf
<1> HIDE DEF d
<1>3. /\ Top.e.op = Top.kind /\ Top.start \in 0..Len(input) /\ Top.i \in Nat
      /\ Top.kind \in ListOps => Top.i < Len(Top.e.kids)
  BY <1>1, FrameTypes DEF FrameOK
<1>4. <<ModeOf(d), Top.e>> \in L
  <2>1. Link(gram, Len(input), L, D, stack, d)
    BY <1>1, <1>t DEF Sound, Linked
  <2> QED
    BY <1>t, <1>m, <2>1 DEF Link
<1>5. /\ Top.kind # "Lexeme" => ModeHere = ModeOf(d)
      /\ Top.kind = "Lexeme" => ModeHere = FALSE
  <2>1. ModeHere = (ModeOf(d) /\ ~ InnerSkipScope(Top))
    BY <1>2, <1>t, <1>m, AutoWithin
  <2>2. ModeOf(d) \in BOOLEAN
    BY <1>4 DEF Situations
  <2>3. InnerSkipScope(Top) <=> Top.kind = "Lexeme"
    BY DEF InnerSkipScope
  <2> QED
    BY <2>1, <2>2, <2>3
<1>6. Asked(gram, stack, d) = Callee(gram, Top)
  BY <1>2, <1>t DEF Asked
<1>7. \A p : Awaits(gram, Len(input), D, stack, d, p)
               <=> Waiting(gram, Len(input), D, ModeOf(d), Top, p)
  BY <1>2, <1>t, <1>m DEF Awaits
<1>8. Due(gram, Len(input), L, D, stack, ctl, mark(ctx))
  BY DEF Sound, DueNow
<1>9. /\ ctl.mode = "return" =>
           /\ Waiting(gram, Len(input), D, ModeOf(d), Top, ctl.at)
           /\ Derives(D, ModeHere, Callee(gram, Top), ctl.at, mark(ctx),
                      ctl.res.success)
      /\ ctl.mode = "skip" => Paused(D, ModeOf(d), Top, mark(ctx))
      /\ ctl.mode = "go" =>
           Ready(gram, Len(input), D, ModeOf(d), Top, mark(ctx))
      /\ ctl.mode = "finish" =>
           /\ Top.best.success => mark(ctx) = Top.rs.m_last_pos
           /\ Derives(D, ModeOf(d), gram.body[Top.e.rule], Top.start,
                      mark(ctx), Top.best.success)
  BY <1>2, <1>6, <1>7, <1>8, <1>t, <1>m DEF Due
<1> QED
  BY <1>3, <1>4, <1>5, <1>9, <1>t

\* What is about to be parsed.
LEMMA CalledSound ==
  ASSUME Inv, NEW L, NEW D, Sound(L, D), ctl.mode = "call"
  PROVE  <<ModeHere, ctl.e>> \in L /\ mark(ctx) \in 0..Len(input)
BY Facts DEF Sound, DueNow, Due, ModeHere

-----------------------------------------------------------------------------
(* One step of each kind.                                                  *)

\* Terminals, tokens, literals, matchers and the empty expression answer as
\* their rule says.
LEMMA LeafSound ==
  ASSUME Inv, NEW L, NEW D, Grounded(L, D), Sound(L, D), LeafStep
  PROVE  StaysSound(L, D)
<1> DEFINE p == mark(ctx)
           e == ctl.e
<1>1. ctl.mode = "call" /\ stack' = stack
  BY DEF LeafStep, TerminalMatch, TokenMatch, SingleFail, TerminalSeqMatch,
         TerminalSeqFail, MatcherMatch, MatcherFail, Empty, Cut, Calling, Leaf
<1>2. /\ <<ModeHere, e>> \in L /\ p \in 0..Len(input)
      /\ L \in SUBSET Situations /\ Parses(gram, L)
      /\ InferenceClosed(gram, input, L, D)
  BY <1>1, CalledSound DEF Grounded
<1>3. ExprOK(e) /\ e.op # "Cut"
  <2> HIDE DEF e
  <2>1. Placed(gram, L, ModeHere, e)
    BY <1>2, Situated
  <2> QED
    BY <2>1 DEF Placed
<1>4. /\ e.op \in {"Terminal", "Token", "TerminalSeq", "Matcher"} =>
           Derives(D, ModeHere, e, p, p + Len(e.sym), LiteralAt(input, e.sym, p))
      /\ e.op = "Empty" => Matches(ModeHere, e, p, p) \in D
  BY <1>2, RulesFor DEF LiteralRule
<1>5. Points(ctx, p) /\ Len(input) \in Nat /\ ctx.m_input_size = Len(input)
  BY PointsNow, Facts DEF ContextOK, Contexts
<1>6. e.op \in {"Terminal", "Token"} => Len(e.sym) = 1
  BY <1>3 DEF ExprOK
<1>7. e.op \in {"Terminal", "Token"} => (ElementHere(e) <=> LiteralAt(input, e.sym, p))
  <2> SUFFICES ASSUME e.op \in {"Terminal", "Token"}
               PROVE  ElementHere(e) <=> LiteralAt(input, e.sym, p)
    OBVIOUS
  <2>1. ElementHere(e) <=> p < Len(input) /\ input[p + 1] \in e.sym[1]
    BY <1>2, <1>5 DEF ElementHere, ended, mark, symbolConsumable
  <2>2. LiteralAt(input, e.sym, p) <=>
          p + 1 <= Len(input) /\ \A j \in 1..1 : input[p + j] \in e.sym[j]
    BY <1>6 DEF LiteralAt
  <2>3. 1..1 = {1} /\ (p < Len(input) <=> p + 1 <= Len(input))
    BY <1>2, <1>5
  <2> HIDE DEF p, e
  <2> QED
    BY <2>1, <2>2, <2>3
<1>8. LiteralHere(e.sym) <=> LiteralAt(input, e.sym, p)
  BY DEF LiteralHere, LiteralAt, symbolConsumable
<1>9. ASSUME NEW q, NEW r, Points(ctx', q), Return(r, p),
             Derives(D, ModeHere, e, p, q, r.success)
      PROVE  StaysSound(L, D)
  <2>1. mark(ctx') = q
    BY <1>9 DEF Points, mark
  <2>2. ctl'.mode = "return" /\ ctl'.res = r /\ ctl'.at = p
    BY <1>9, Controls
  <2> QED
    BY <1>1, <1>9, <2>1, <2>2, SoundAtOnce DEF Sound
<1>10. Failed.success = FALSE /\ \A t : Matched(t).success = TRUE
  BY DEF Failed, Matched
<1>11. ASSUME NEW q, Points(ctx', q), Return(Failed, p),
              e.op \in {"Terminal", "Token", "TerminalSeq", "Matcher"},
              ~ LiteralAt(input, e.sym, p)
       PROVE  StaysSound(L, D)
  <2>1. Derives(D, ModeHere, e, p, q, Failed.success)
    BY <1>4, <1>10, <1>11 DEF Derives
  <2> QED
    BY <1>9, <1>11, <2>1
<1>12. ASSUME NEW q, NEW t, Points(ctx', q), Return(Matched(t), p),
              e.op \in {"Terminal", "Token", "TerminalSeq", "Matcher"},
              q = p + Len(e.sym), LiteralAt(input, e.sym, p)
       PROVE  StaysSound(L, D)
  <2>1. Derives(D, ModeHere, e, p, q, Matched(t).success)
    BY <1>4, <1>10, <1>12 DEF Derives
  <2> QED
    BY <1>9, <1>12, <2>1
<1>13. ~ ended(ctx) => Points(next(ctx), p + 1)
  BY <1>5 DEF next, Points
<1> HIDE DEF p, e
<1>14. CASE TerminalMatch
  <2>1. /\ e.op = "Terminal" /\ ElementHere(e) /\ ctx' = next(ctx)
        /\ Return(Matched(nullptr), p) /\ ~ ended(ctx)
    BY <1>14 DEF TerminalMatch, Calling, e, p, ElementHere
  <2> QED
    BY <1>6, <1>7, <1>12, <1>13, <2>1
<1>15. CASE TokenMatch
  <2>1. /\ e.op = "Token" /\ ElementHere(e) /\ ~ ended(ctx)
        /\ ctx' = make_node(next(ctx), EmptyNode(p, p + 1))
        /\ Return(Matched(NextNode(ctx)), p)
    BY <1>15 DEF TokenMatch, Calling, e, p, ElementHere
  <2>2. \A x : Points(make_node(next(ctx), x), p + 1)
    BY <1>13, <2>1, PointsKept
  <2>3. Points(ctx', p + 1)
    BY <2>1, <2>2
  <2> QED
    BY <1>6, <1>7, <1>12, <2>1, <2>3
<1>16. CASE SingleFail \/ TerminalSeqFail
  <2>1. /\ e.op \in {"Terminal", "Token", "TerminalSeq", "Matcher"}
        /\ ~ LiteralAt(input, e.sym, p)
        /\ ctx' = record_failure(ctx, p, LiteralItem(e)) /\ Return(Failed, p)
    BY <1>7, <1>8, <1>16
    DEF SingleFail, TerminalSeqFail, Calling, record_expected, e, p
  <2>2. Points(ctx', p)
    BY <1>5, <2>1, PointsKept
  <2> QED
    BY <1>11, <2>1, <2>2
<1>17. CASE TerminalSeqMatch
  <2>1. /\ e.op = "TerminalSeq" /\ LiteralAt(input, e.sym, p)
        /\ ctx' = reset(ctx, p + Len(e.sym)) /\ Return(Matched(nullptr), p)
    BY <1>8, <1>17 DEF TerminalSeqMatch, Calling, e, p
  <2>2. Points(ctx', p + Len(e.sym))
    BY <1>5, <2>1, PointsKept
  <2> QED
    BY <1>12, <2>1, <2>2
<1>18. CASE MatcherMatch
  <2>1. /\ e.op = "Matcher" /\ LiteralAt(input, e.sym, p)
        /\ ctx' = make_node(reset(ctx, p + Len(e.sym)),
                            EmptyNode(p, p + Len(e.sym)))
        /\ Return(Matched(NextNode(ctx)), p)
    BY <1>8, <1>18 DEF MatcherMatch, Calling, e, p
  <2>2. Points(reset(ctx, p + Len(e.sym)), p + Len(e.sym))
    BY <1>5, PointsKept
  <2>3. Points(ctx', p + Len(e.sym))
    BY <2>1, <2>2, PointsKept
  <2> QED
    BY <1>12, <2>1, <2>3
<1>19. CASE MatcherFail
  <2>1. /\ e.op = "Matcher" /\ ~ LiteralAt(input, e.sym, p)
        /\ ctx' = ctx /\ Return(Failed, p)
    BY <1>8, <1>19 DEF MatcherFail, Calling, e, p
  <2> QED
    BY <1>5, <1>11, <2>1
<1>20. CASE Empty
  <2>1. e.op = "Empty" /\ ctx' = ctx /\ Return(Matched(nullptr), p)
    BY <1>20 DEF Empty, Calling, e, p
  <2>2. Derives(D, ModeHere, e, p, p, Matched(nullptr).success)
    BY <1>4, <1>10, <2>1 DEF Derives
  <2> QED
    BY <1>5, <1>9, <2>1, <2>2
<1>21. ~ Cut
  BY <1>3 DEF Cut, Calling, e
<1> QED
  BY <1>14, <1>15, <1>16, <1>17, <1>18, <1>19, <1>20, <1>21 DEF LeafStep

\* A sequence tries its children in order, each from where the skipper left
\* off after the one before, and fails with the first that fails.
LEMMA SequenceSound ==
  ASSUME Inv, NEW L, NEW D, Grounded(L, D), Sound(L, D), SequenceStep
  PROVE  StaysSound(L, D)
<1> DEFINE n == Len(input)
           s == ModeOf(Len(stack))
           e == Top.e
           p == Top.start
           i == Top.i
<1>0. /\ L \in SUBSET Situations /\ Parses(gram, L)
      /\ InferenceClosed(gram, input, L, D)
      /\ Linked(L, D) /\ DueNow(L, D) /\ Points(ctx, mark(ctx)) /\ mark(ctx) \in 0..n
      /\ n \in Nat
  BY PointsNow, Facts DEF Grounded, Sound
<1>1. CASE SequenceEnter
  <2> DEFINE f == [NewFrame("Sequence", ctl.e) EXCEPT !.node = NextNode(ctx)]
             q == mark(ctx)
  <2>1. /\ ctl.mode = "call" /\ ctl.e.op = "Sequence" /\ Push(f)
        /\ ctx' = make_node(ctx, EmptyNode(q, 0)) /\ Goto("go")
    BY <1>1 DEF SequenceEnter, Calling
  <2>2. /\ f.kind = "Sequence" /\ f.e = ctl.e /\ f.start = q /\ f.i = 0
    BY DEF NewFrame
  <2>3. mark(ctx') = q /\ ctl'.mode = "go"
    <3>1. \A x : Points(make_node(ctx, x), q)
      BY <1>0, PointsKept
    <3> QED
      BY <2>1, <3>1, Controls DEF Points, mark
  <2> HIDE DEF f, q
  <2>4. <<ModeHere, ctl.e>> \in L /\ q \in 0..n
    BY <2>1, CalledSound DEF q
  <2>5. SequenceRule(gram, input, ModeHere, ctl.e, q, D)
    BY <1>0, <2>1, <2>4, RulesFor
  <2>6. Got(ModeHere, f.e, f.i, f.start, q) \in D
    BY <2>2, <2>5 DEF SequenceRule
  <2>7. Resumes(gram, D, ModeHere, f.i, q, q)
    BY <2>2 DEF Resumes
  <2>8. Ready(gram, n, D, ModeHere, f, q)
    BY <2>2, <2>4, <2>6, <2>7 DEF Ready
  <2> QED
    BY <1>0, <2>1, <2>2, <2>3, <2>8, SoundCall DEF q
<1>2. ASSUME stack # <<>>, Top.kind = "Sequence"
      PROVE  /\ <<s, e>> \in L /\ e.op = "Sequence" /\ p \in 0..n
             /\ i \in Nat /\ i < Len(e.kids) /\ Len(e.kids) \in Nat
             /\ ModeHere = s /\ Callee(gram, Top) = e.kids[i + 1]
             /\ <<s, e.kids[i + 1]>> \in L
             /\ SequenceRule(gram, input, s, e, p, D)
             /\ ctl.mode = "return" =>
                  /\ ctl.at \in 0..n
                  /\ Waiting(gram, n, D, s, Top, ctl.at)
                  /\ Derives(D, s, e.kids[i + 1], ctl.at, mark(ctx), ctl.res.success)
             /\ ctl.mode = "go" => Ready(gram, n, D, s, Top, mark(ctx))
  <2>1. /\ <<s, e>> \in L /\ e.op = "Sequence" /\ p \in 0..n
        /\ i \in Nat /\ i < Len(e.kids) /\ ModeHere = s
        /\ ctl.mode = "return" =>
             /\ Waiting(gram, n, D, s, Top, ctl.at)
             /\ Derives(D, ModeHere, Callee(gram, Top), ctl.at, mark(ctx),
                        ctl.res.success)
        /\ ctl.mode = "go" => Ready(gram, n, D, s, Top, mark(ctx))
    BY <1>0, <1>2, TopSound DEF ListOps
  <2>2. Callee(gram, Top) = e.kids[i + 1] /\ ctl.at \in 0..n
    BY <1>2, Facts DEF Callee, ListOps
  <2> HIDE DEF s, e, p, i
  <2>3. /\ Len(e.kids) \in Nat
        /\ e.op # "Lexeme" => \A k \in 1..Len(e.kids) : <<s, e.kids[k]>> \in L
    <3>1. Placed(gram, L, s, e)
      BY <1>0, <2>1, Situated
    <3> QED
      BY <1>0, <2>1, <3>1 DEF Placed
  <2>4. <<s, e.kids[i + 1]>> \in L
    <3>1. i + 1 \in 1..Len(e.kids)
      BY <2>1, <2>3
    <3>2. e.op # "Lexeme"
      BY <2>1
    <3> QED
      BY <2>3, <3>1, <3>2
  <2>5. SequenceRule(gram, input, s, e, p, D)
    BY <1>0, <2>1, RulesFor
  <2> QED
    BY <2>1, <2>2, <2>3, <2>4, <2>5
<1>3. CASE SequenceChild
  <2>1. /\ stack # <<>> /\ Top.kind = "Sequence" /\ ctl.mode = "go"
        /\ Call(e.kids[i + 1]) /\ ctx' = ctx /\ stack' = stack
    BY <1>3 DEF SequenceChild, At
  <2>2. SetTop(Top)
    BY <2>1, Facts, TopFacts DEF SetTop, Top, StackOK
  <2>3. ctl'.mode = "call" /\ ctl'.e = e.kids[i + 1]
    BY <2>1, Controls
  <2>4. Waiting(gram, n, D, s, Top, mark(ctx'))
    BY <1>2, <2>1 DEF Waiting, RunsSkipper
  <2>5. <<ModeHere, ctl'.e>> \in L /\ ctl'.e = Callee(gram, Top)
    BY <1>2, <2>1, <2>3
  <2> QED
    BY <1>0, <2>1, <2>2, <2>3, <2>4, <2>5, SoundOn
<1>4. ASSUME ReturnedTo("Sequence", TRUE)
      PROVE  Got(s, e, i + 1, p, mark(ctx)) \in D
  <2>1. stack # <<>> /\ Top.kind = "Sequence" /\ ctl.mode = "return" /\ ctl.res.success
    BY <1>4 DEF ReturnedTo, At
  <2>2. /\ Ready(gram, n, D, s, Top, ctl.at)
        /\ Matches(s, e.kids[i + 1], ctl.at, mark(ctx)) \in D
    BY <1>2, <2>1 DEF Waiting, RunsSkipper, Derives
  <2>3. PICK q \in 0..n : Got(s, e, i, p, q) \in D /\ Resumes(gram, D, s, i, q, ctl.at)
    BY <2>2 DEF Ready
  <2>4. i \in 0..(Len(e.kids) - 1) /\ ctl.at \in 0..n
    BY <1>2, <2>1
  <2> HIDE DEF s, e, p, i
  <2> QED
    BY <1>0, <1>2, <2>1, <2>2, <2>3, <2>4 DEF SequenceRule
<1>5. CASE SequenceChildMatched
  <2> DEFINE f == [Top EXCEPT !.i = @ + 1]
  <2>1. /\ ReturnedTo("Sequence", TRUE) /\ stack # <<>> /\ Top.kind = "Sequence"
        /\ ctl.mode = "return" /\ SetTop(f) /\ Goto("skip")
        /\ ctx' = push_child(ctx, Top.node, ctl.res.tree)
    BY <1>5 DEF SequenceChildMatched, ReturnedTo, At
  <2>2. /\ f.kind = Top.kind /\ f.e = e /\ f.start = p /\ f.i = i + 1
    <3>1. Top \in Frames
      BY <2>1, TopOKFacts
    <3> QED
      BY <3>1 DEF Frames
  <2> HIDE DEF f
  <2>3. mark(ctx') = mark(ctx) /\ ctl'.mode = "skip"
    <3>1. \A x, y : Points(push_child(ctx, x, y), mark(ctx))
      BY <1>0, PointsKept
    <3> QED
      BY <2>1, <3>1, Controls DEF Points, mark
  <2>4. Got(s, e, i + 1, p, mark(ctx)) \in D
    BY <1>4, <2>1
  <2>5. Paused(D, s, f, mark(ctx'))
    BY <1>2, <2>1, <2>2, <2>3, <2>4 DEF Paused
  <2> QED
    BY <1>0, <2>1, <2>2, <2>3, <2>5, SoundOn
<1>6. CASE SequenceMatched
  <2>1. /\ ReturnedTo("Sequence", TRUE) /\ stack # <<>> /\ Top.kind = "Sequence"
        /\ ctl.mode = "return" /\ Pop /\ Return(Matched(Top.node), p)
        /\ i + 1 >= Len(e.kids)
        /\ ctx' = set_end(push_child(ctx, Top.node, ctl.res.tree), Top.node)
    BY <1>6 DEF SequenceMatched, ReturnedTo, At
  <2>2. mark(ctx') = mark(ctx)
    <3> DEFINE c == push_child(ctx, Top.node, ctl.res.tree)
    <3>1. \A x, y : Points(push_child(ctx, x, y), mark(ctx))
      BY <1>0, PointsKept
    <3>2. ctx' = set_end(c, Top.node) /\ Points(c, mark(ctx))
      BY <2>1, <3>1
    <3> HIDE DEF c
    <3>3. \A x : Points(set_end(c, x), mark(ctx))
      BY <3>2, PointsKept
    <3> QED
      BY <3>2, <3>3 DEF Points, mark
  <2>3. ctl'.mode = "return" /\ ctl'.at = p /\ ctl'.res.success
    BY <2>1, Controls DEF Matched
  <2>4. Got(s, e, i + 1, p, mark(ctx)) \in D
    BY <1>4, <2>1
  <2>5. i + 1 = Len(e.kids)
    BY <1>2, <2>1
  <2>6. Matches(s, e, p, mark(ctx)) \in D
    BY <1>0, <1>2, <2>1, <2>4, <2>5 DEF SequenceRule
  <2>7. Derives(D, s, e, p, mark(ctx'), ctl'.res.success)
    BY <2>2, <2>3, <2>6 DEF Derives
  <2> QED
    BY <1>0, <2>1, <2>3, <2>7, SoundReturn
<1>7. CASE SequenceFailed
  <2>1. /\ stack # <<>> /\ Top.kind = "Sequence" /\ ctl.mode = "return"
        /\ ~ ctl.res.success /\ Pop /\ Return(Failed, p)
    BY <1>7 DEF SequenceFailed, ReturnedTo, At
  <2>2. ctl'.mode = "return" /\ ctl'.at = p /\ ~ ctl'.res.success
    BY <2>1, Controls DEF Failed
  <2>3. /\ Ready(gram, n, D, s, Top, ctl.at)
        /\ Fails(s, e.kids[i + 1], ctl.at) \in D
    BY <1>2, <2>1 DEF Waiting, RunsSkipper, Derives
  <2>4. PICK q \in 0..n : Got(s, e, i, p, q) \in D /\ Resumes(gram, D, s, i, q, ctl.at)
    BY <2>3 DEF Ready
  <2>5. i \in 0..(Len(e.kids) - 1) /\ ctl.at \in 0..n
    BY <1>2, <2>1
  <2>6. Fails(s, e, p) \in D
    <3> HIDE DEF s, e, p, i
    <3> QED
      BY <1>0, <1>2, <2>1, <2>3, <2>4, <2>5 DEF SequenceRule
  <2>7. Derives(D, s, e, p, mark(ctx'), ctl'.res.success)
    BY <2>2, <2>6 DEF Derives
  <2> QED
    BY <1>0, <2>1, <2>2, <2>7, SoundReturn
<1> QED
  BY <1>1, <1>3, <1>5, <1>6, <1>7 DEF SequenceStep

\* The cursor after the calls that combinators make one after the other, on a
\* Context c with the cursor at p.
Moves(c, p) ==
  /\ \A t, x : mark(remove_cut(stamp_winner(c, t, x))) = p
  /\ \A x : mark(make_node(init_cut(c), x)) = p
  /\ mark(remove_cut(c)) = p /\ mark(init_cut(c)) = p /\ mark(cut(c, FALSE)) = p
  /\ \A t, x : mark(push_child(c, t, x)) = p
  /\ \A t, x, u : mark(remove_cut(set_end(push_child(c, t, x), u))) = p
  /\ \A t, x, q : mark(remove_cut(reset(push_child(c, t, x), q))) = q
  /\ \A q : mark(remove_cut(reset(c, q))) = q /\ mark(reset(c, q)) = q
  /\ \A q, t, x, u :
       mark(remove_cut(set_end(PadChildren(reset(c, q), t, x), u))) = q
  /\ \A x : mark(skip_enabled(c, x)) = p

LEMMA CursorAfter ==
  ASSUME NEW c, NEW p, Points(c, p)
  PROVE  Moves(c, p)
<1>1. \A d, q : Points(d, q) => mark(d) = q
  BY DEF Points, mark
<1>2. \A t, x : Points(push_child(c, t, x), p)
  BY PointsKept
<1>3. ASSUME NEW t, NEW x PROVE mark(remove_cut(stamp_winner(c, t, x))) = p
  <2> DEFINE d == stamp_winner(c, t, x)
  <2>1. \A y, z : Points(edit_node(c, y, z), p)
    BY PointsKept
  <2>2. Points(d, p)
    BY <2>1 DEF stamp_winner
  <2> HIDE DEF d
  <2>3. Points(remove_cut(d), p)
    BY <2>2, PointsKept
  <2> QED
    BY <1>1, <2>3 DEF d
<1>4. ASSUME NEW x PROVE mark(make_node(init_cut(c), x)) = p
  <2> DEFINE d == init_cut(c)
  <2>1. Points(d, p)
    BY PointsKept
  <2> HIDE DEF d
  <2>2. \A y : Points(make_node(d, y), p)
    BY <2>1, PointsKept
  <2> QED
    BY <1>1, <2>2 DEF d
<1>5. ASSUME NEW t, NEW x, NEW u, NEW q
      PROVE  /\ mark(remove_cut(set_end(push_child(c, t, x), u))) = p
             /\ mark(remove_cut(reset(push_child(c, t, x), q))) = q
  <2> DEFINE d == push_child(c, t, x)
             e == set_end(d, u)
             h == reset(d, q)
  <2>1. Points(d, p)
    BY <1>2
  <2> HIDE DEF d
  <2>2. (\A y : Points(set_end(d, y), p)) /\ (\A y : Points(reset(d, y), y))
    BY <2>1, PointsKept
  <2>3. Points(e, p) /\ Points(h, q)
    BY <2>2
  <2> HIDE DEF e, h
  <2>4. Points(remove_cut(e), p) /\ Points(remove_cut(h), q)
    BY <2>3, PointsKept
  <2> QED
    BY <1>1, <2>4 DEF d, e, h
<1>6. ASSUME NEW q, NEW t, NEW x, NEW u
      PROVE  /\ mark(remove_cut(reset(c, q))) = q /\ mark(reset(c, q)) = q
             /\ mark(remove_cut(set_end(PadChildren(reset(c, q), t, x), u))) = q
  <2> DEFINE d == reset(c, q)
             e == PadChildren(d, t, x)
             h == set_end(e, u)
  <2>1. Points(d, q)
    BY PointsKept
  <2> HIDE DEF d
  <2>2. Points(remove_cut(d), q) /\ \A y, z : Points(edit_node(d, y, z), q)
    BY <2>1, PointsKept
  <2>3. Points(e, q)
    BY <2>2 DEF PadChildren
  <2> HIDE DEF e
  <2>4. \A y : Points(set_end(e, y), q)
    BY <2>3, PointsKept
  <2>5. Points(h, q)
    BY <2>4
  <2> HIDE DEF h
  <2>6. Points(remove_cut(h), q)
    BY <2>5, PointsKept
  <2> QED
    BY <1>1, <2>1, <2>2, <2>6 DEF d, e, h
<1>7. /\ Points(remove_cut(c), p) /\ Points(init_cut(c), p)
      /\ Points(cut(c, FALSE), p) /\ \A x : Points(skip_enabled(c, x), p)
  BY PointsKept
<1>8. /\ mark(remove_cut(c)) = p /\ mark(init_cut(c)) = p
      /\ mark(cut(c, FALSE)) = p /\ \A x : mark(skip_enabled(c, x)) = p
  BY <1>1, <1>7
<1>9. \A t, x : mark(push_child(c, t, x)) = p
  BY <1>1, <1>2
<1>10. \A t, x, u : mark(remove_cut(set_end(push_child(c, t, x), u))) = p
  BY <1>5
<1>11. \A t, x, q : mark(remove_cut(reset(push_child(c, t, x), q))) = q
  BY <1>5
<1>12. \A q : mark(remove_cut(reset(c, q))) = q /\ mark(reset(c, q)) = q
  BY <1>6
<1>13. \A q, t, x, u :
         mark(remove_cut(set_end(PadChildren(reset(c, q), t, x), u))) = q
  BY <1>6
<1> QED
  BY <1>3, <1>4, <1>8, <1>9, <1>10, <1>11, <1>12, <1>13 DEF Moves

\* The same for the Context as it is.
LEMMA CursorNow == ASSUME Inv PROVE Moves(ctx, mark(ctx))
BY PointsNow, CursorAfter

\* An expression that is called, in its mode.
LEMMA CalledSituated ==
  ASSUME Inv, NEW L, NEW D, Grounded(L, D), Sound(L, D), ctl.mode = "call"
  PROVE  LET s == ModeHere
             e == ctl.e
             p == mark(ctx)
         IN  /\ <<s, e>> \in L /\ p \in 0..Len(input)
             /\ s \in BOOLEAN /\ e \in Exprs /\ e.op # "Cut" /\ Len(e.kids) \in Nat
             /\ e.op \in UnaryOps => Len(e.kids) = 1
             /\ e.op \in UnaryOps \cup ListOps => 1 \in 1..Len(e.kids)
             /\ e.op # "Lexeme" => \A k \in 1..Len(e.kids) : <<s, e.kids[k]>> \in L
             /\ e.op = "Lexeme" => <<FALSE, e.kids[1]>> \in L
             /\ e.op = "NonTerminal" =>
                  /\ e = Ref(e.rule) /\ e.rule \in Rules
                  /\ <<s, gram.body[e.rule]>> \in L
                  /\ <<~ s, e>> \notin L
             /\ e.op = "Sequence" => SequenceRule(gram, input, s, e, p, D)
             /\ e.op = "Alternation" => AlternationRule(input, s, e, p, D)
             /\ e.op = "Repetition" => RepetitionRule(gram, input, s, e, p, D)
             /\ e.op \in {"Not", "And"} => PredicateRule(input, s, e, p, D)
             /\ e.op = "Lexeme" => LexemeRule(input, s, e, p, D)
             /\ e.op = "NonTerminal" => NonTerminalRule(gram, input, s, e, p, D)
<1> DEFINE s == ModeHere
           e == ctl.e
           p == mark(ctx)
<1>1. /\ <<s, e>> \in L /\ p \in 0..Len(input) /\ L \in SUBSET Situations
      /\ Parses(gram, L) /\ InferenceClosed(gram, input, L, D)
  BY CalledSound DEF Grounded
<1> HIDE DEF s, e, p
<1>2. /\ s \in BOOLEAN /\ e \in Exprs /\ e.op # "Cut" /\ Len(e.kids) \in Nat
      /\ e.op \in UnaryOps => Len(e.kids) = 1
      /\ e.op \in ListOps => Len(e.kids) >= 1
      /\ e.op # "Lexeme" => \A k \in 1..Len(e.kids) : <<s, e.kids[k]>> \in L
      /\ e.op = "Lexeme" => <<FALSE, e.kids[1]>> \in L
      /\ e.op = "NonTerminal" =>
           /\ e = Ref(e.rule) /\ e.rule \in Rules
           /\ <<s, gram.body[e.rule]>> \in L
           /\ <<~ s, e>> \notin L
  <2>1. Placed(gram, L, s, e)
    BY <1>1, Situated
  <2> QED
    BY <2>1 DEF Placed
<1>3. e.op \in UnaryOps \cup ListOps => 1 \in 1..Len(e.kids)
  BY <1>2
<1>4. /\ e.op = "Sequence" => SequenceRule(gram, input, s, e, p, D)
      /\ e.op = "Alternation" => AlternationRule(input, s, e, p, D)
      /\ e.op = "Repetition" => RepetitionRule(gram, input, s, e, p, D)
      /\ e.op \in {"Not", "And"} => PredicateRule(input, s, e, p, D)
      /\ e.op = "Lexeme" => LexemeRule(input, s, e, p, D)
      /\ e.op = "NonTerminal" => NonTerminalRule(gram, input, s, e, p, D)
  BY <1>1, RulesFor
<1> QED
  BY <1>1, <1>2, <1>3, <1>4 DEF s, e, p

\* An alternation tries its branches in order at one position and answers with
\* the first that matches; no commitment stops it.
LEMMA AlternationSound ==
  ASSUME Inv, ~ IsCut(ctx), NEW L, NEW D, Grounded(L, D), Sound(L, D),
         AlternationStep
  PROVE  StaysSound(L, D)
<1> DEFINE n == Len(input)
           s == ModeOf(Len(stack))
           e == Top.e
           p == Top.start
           i == Top.i
<1>0. /\ L \in SUBSET Situations /\ Parses(gram, L)
      /\ InferenceClosed(gram, input, L, D)
      /\ Linked(L, D) /\ DueNow(L, D) /\ Points(ctx, mark(ctx)) /\ mark(ctx) \in 0..n
      /\ n \in Nat
  BY PointsNow, Facts DEF Grounded, Sound
<1>1. CASE AlternationEnter
  <2> DEFINE f == NewFrame("Alternation", ctl.e)
             q == mark(ctx)
  <2>1. /\ ctl.mode = "call" /\ ctl.e.op = "Alternation" /\ Push(f)
        /\ ctx' = init_cut(ctx) /\ Call(ctl.e.kids[1])
    BY <1>1 DEF AlternationEnter, Calling
  <2>2. /\ f.kind = "Alternation" /\ f.e = ctl.e /\ f.start = q /\ f.i = 0
    BY DEF NewFrame
  <2>3. mark(ctx') = q /\ ctl'.mode = "call" /\ ctl'.e = ctl.e.kids[1]
    BY <2>1, CursorNow, Controls DEF Moves, q
  <2> HIDE DEF f, q
  <2>4. /\ q \in 0..n /\ ModeHere \in BOOLEAN /\ 1 \in 1..Len(ctl.e.kids)
        /\ \A k \in 1..Len(ctl.e.kids) : <<ModeHere, ctl.e.kids[k]>> \in L
        /\ AlternationRule(input, ModeHere, ctl.e, q, D)
    BY <2>1, CalledSituated DEF q, ListOps
  <2>6. Waiting(gram, n, D, ModeHere, f, q)
    BY <2>2, <2>4 DEF Waiting, AlternationRule, RunsSkipper
  <2>7. Callee(gram, f) = ctl.e.kids[1]
    BY <2>2 DEF Callee, ListOps
  <2>9. <<ModeHere, ctl'.e>> \in L
    BY <2>3, <2>4
  <2>10. (ModeHere /\ ~ InnerSkipScope(f)) = ModeHere
    BY <2>2, <2>4 DEF InnerSkipScope
  <2> QED
    BY <1>0, <2>1, <2>2, <2>3, <2>6, <2>7, <2>9, <2>10, SoundCall DEF q
<1>2. ASSUME stack # <<>>, Top.kind = "Alternation", ctl.mode = "return"
      PROVE  /\ <<s, e>> \in L /\ e.op = "Alternation" /\ p \in 0..n
             /\ i \in Nat /\ i < Len(e.kids) /\ Len(e.kids) \in Nat
             /\ ModeHere = s
             /\ \A k \in 1..Len(e.kids) : <<s, e.kids[k]>> \in L
             /\ AlternationRule(input, s, e, p, D)
             /\ ctl.at = p /\ Got(s, e, i, p, p) \in D
             /\ Derives(D, s, e.kids[i + 1], p, mark(ctx), ctl.res.success)
  <2>1. /\ <<s, e>> \in L /\ e.op = "Alternation" /\ p \in 0..n
        /\ i \in Nat /\ i < Len(e.kids) /\ ModeHere = s
        /\ Waiting(gram, n, D, s, Top, ctl.at)
        /\ Derives(D, ModeHere, Callee(gram, Top), ctl.at, mark(ctx),
                   ctl.res.success)
    BY <1>0, <1>2, TopSound DEF ListOps
  <2>2. Callee(gram, Top) = e.kids[i + 1] /\ ctl.at = p /\ Got(s, e, i, p, p) \in D
    BY <1>2, <2>1 DEF Callee, ListOps, Waiting, RunsSkipper
  <2> HIDE DEF s, e, p, i
  <2>3. /\ Len(e.kids) \in Nat
        /\ e.op # "Lexeme" => \A k \in 1..Len(e.kids) : <<s, e.kids[k]>> \in L
    <3>1. Placed(gram, L, s, e)
      BY <1>0, <2>1, Situated
    <3> QED
      BY <1>0, <2>1, <3>1 DEF Placed
  <2>5. AlternationRule(input, s, e, p, D)
    BY <1>0, <2>1, RulesFor
  <2> QED
    BY <2>1, <2>2, <2>3, <2>5
<1>3. CASE AlternationMatched
  <2>1. /\ stack # <<>> /\ Top.kind = "Alternation" /\ ctl.mode = "return"
        /\ ctl.res.success /\ Pop /\ Return(ctl.res, p)
        /\ ctx' = remove_cut(stamp_winner(ctx, ctl.res.tree, Top.i))
    BY <1>3 DEF AlternationMatched, ReturnedTo, At
  <2>2. mark(ctx') = mark(ctx)
    BY <2>1, CursorNow DEF Moves
  <2>3. ctl'.mode = "return" /\ ctl'.at = p /\ ctl'.res.success
    BY <2>1, Controls
  <2>4. Matches(s, e.kids[i + 1], p, mark(ctx)) \in D /\ i \in 0..(Len(e.kids) - 1)
    BY <1>2, <2>1 DEF Derives
  <2>5. Matches(s, e, p, mark(ctx)) \in D
    <3> HIDE DEF s, e, p, i
    <3> QED
      BY <1>0, <1>2, <2>1, <2>4 DEF AlternationRule
  <2>6. Derives(D, s, e, p, mark(ctx'), ctl'.res.success)
    BY <2>2, <2>3, <2>5 DEF Derives
  <2> QED
    BY <1>0, <2>1, <2>3, <2>6, SoundReturn
<1>4. ASSUME ReturnedTo("Alternation", FALSE)
      PROVE  /\ stack # <<>> /\ Top.kind = "Alternation" /\ ctl.mode = "return"
             /\ ~ ctl.res.success /\ mark(ctx) = p
             /\ Got(s, e, i + 1, p, p) \in D
  <2>1. /\ stack # <<>> /\ Top.kind = "Alternation" /\ ctl.mode = "return"
        /\ ~ ctl.res.success
    BY <1>4 DEF ReturnedTo, At
  <2>2. Fails(s, e.kids[i + 1], p) \in D /\ i \in 0..(Len(e.kids) - 1)
    BY <1>2, <2>1 DEF Derives
  <2>3. mark(ctx) = p
    BY <1>2, <2>1, Facts DEF ControlOK
  <2>4. Got(s, e, i + 1, p, p) \in D
    <3> HIDE DEF s, e, p, i
    <3> QED
      BY <1>2, <2>1, <2>2 DEF AlternationRule
  <2> QED
    BY <2>1, <2>3, <2>4
<1>5. CASE AlternationNext
  <2> DEFINE f == [Top EXCEPT !.i = @ + 1]
  <2>1. /\ ReturnedTo("Alternation", FALSE) /\ SetTop(f)
        /\ i + 1 < Len(e.kids) /\ Call(e.kids[i + 2]) /\ ctx' = ctx
    BY <1>5 DEF AlternationNext
  <2>2. /\ f.kind = Top.kind /\ f.e = e /\ f.start = p /\ f.i = i + 1
    <3>1. Top \in Frames
      BY <1>4, <2>1, TopOKFacts
    <3> QED
      BY <3>1 DEF Frames
  <2> HIDE DEF f
  <2>3. ctl'.mode = "call" /\ ctl'.e = e.kids[i + 2]
    BY <2>1, Controls
  <2>4. /\ Top.kind = "Alternation" /\ stack # <<>> /\ ctl.mode = "return"
        /\ mark(ctx') = p /\ Got(s, e, i + 1, p, p) \in D /\ i \in Nat
    BY <1>2, <1>4, <2>1
  <2>5. Waiting(gram, n, D, s, f, mark(ctx'))
    BY <2>2, <2>4 DEF Waiting, RunsSkipper
  <2>6. Callee(gram, f) = e.kids[i + 2]
    <3>1. i + 1 + 1 = i + 2
      BY <2>4
    <3> QED
      BY <2>2, <2>4, <3>1 DEF Callee, ListOps
  <2>7. <<ModeHere, ctl'.e>> \in L
    <3>1. i + 2 \in 1..Len(e.kids)
      BY <1>2, <2>1, <2>4
    <3> QED
      BY <1>2, <2>3, <2>4, <3>1
  <2> QED
    BY <1>0, <2>1, <2>2, <2>3, <2>4, <2>5, <2>6, <2>7, SoundOn
<1>6. CASE AlternationExhausted
  <2>1. /\ ReturnedTo("Alternation", FALSE) /\ Pop /\ Return(Failed, p)
        /\ i + 1 >= Len(e.kids)
    BY <1>6 DEF AlternationExhausted
  <2>2. ctl'.mode = "return" /\ ctl'.at = p /\ ~ ctl'.res.success
    BY <2>1, Controls DEF Failed
  <2>3. /\ stack # <<>> /\ Top.kind = "Alternation" /\ ctl.mode = "return"
        /\ Got(s, e, i + 1, p, p) \in D
    BY <1>4, <2>1
  <2>4. i + 1 = Len(e.kids)
    BY <1>2, <2>1, <2>3
  <2>5. Fails(s, e, p) \in D
    BY <1>2, <2>3, <2>4 DEF AlternationRule
  <2>6. Derives(D, s, e, p, mark(ctx'), ctl'.res.success)
    BY <2>2, <2>5 DEF Derives
  <2> QED
    BY <1>0, <2>1, <2>2, <2>3, <2>6, SoundReturn
<1>7. ~ AlternationThrow
  BY DEF AlternationThrow
<1> QED
  BY <1>1, <1>3, <1>5, <1>6, <1>7 DEF AlternationStep

\* The repetition that is innermost.
LEMMA RepetitionHere ==
  ASSUME Inv, NEW L, NEW D, Grounded(L, D), Sound(L, D),
         stack # <<>>, Top.kind = "Repetition"
  PROVE  LET n == Len(input)
             s == ModeOf(Len(stack))
             e == Top.e
             p == Top.start
             i == Top.i
         IN  /\ p \in 0..n /\ i \in Nat /\ ModeHere = s /\ ctl.at \in 0..n
             /\ Top \in Frames /\ <<s, e.kids[1]>> \in L
             /\ RepetitionRule(gram, input, s, e, p, D)
             /\ ctl.mode = "return" =>
                  /\ Ready(gram, n, D, s, Top, ctl.at) /\ Top.iter = ctl.at
                  /\ Derives(D, s, e.kids[1], ctl.at, mark(ctx), ctl.res.success)
             /\ ctl.mode = "go" => Ready(gram, n, D, s, Top, mark(ctx))
<1> DEFINE n == Len(input)
           s == ModeOf(Len(stack))
           e == Top.e
           p == Top.start
           i == Top.i
<1>0. /\ L \in SUBSET Situations /\ Parses(gram, L)
      /\ InferenceClosed(gram, input, L, D)
  BY DEF Grounded
<1>1. /\ <<s, e>> \in L /\ e.op = "Repetition" /\ p \in 0..n
      /\ i \in Nat /\ ModeHere = s
      /\ ctl.mode = "return" =>
           /\ Waiting(gram, n, D, s, Top, ctl.at)
           /\ Derives(D, ModeHere, Callee(gram, Top), ctl.at, mark(ctx),
                      ctl.res.success)
      /\ ctl.mode = "go" => Ready(gram, n, D, s, Top, mark(ctx))
  BY <1>0, TopSound
<1>2. Callee(gram, Top) = e.kids[1] /\ ctl.at \in 0..n /\ Top \in Frames
  BY Facts, TopOKFacts DEF Callee, ListOps
<1>3. ctl.mode = "return" => Ready(gram, n, D, s, Top, ctl.at) /\ Top.iter = ctl.at
  BY <1>1 DEF Waiting, RunsSkipper
<1> HIDE DEF s, e, p, i
<1>4. /\ Len(e.kids) = 1
      /\ e.op # "Lexeme" => \A k \in 1..Len(e.kids) : <<s, e.kids[k]>> \in L
  <2>1. Placed(gram, L, s, e)
    BY <1>0, <1>1, Situated
  <2> QED
    BY <1>0, <1>1, <2>1 DEF Placed, UnaryOps
<1>5. <<s, e.kids[1]>> \in L
  BY <1>1, <1>4
<1>6. RepetitionRule(gram, input, s, e, p, D)
  BY <1>0, <1>1, RulesFor
<1> QED
  BY <1>1, <1>2, <1>3, <1>5, <1>6 DEF s, e, p, i

\* A repetition's iterations follow one another as a sequence's children do; it
\* ends with the first that fails, at its bound, or when one makes no progress.
LEMMA RepetitionSound ==
  ASSUME Inv, ~ IsCut(ctx), NEW L, NEW D, Grounded(L, D), Sound(L, D),
         RepetitionStep
  PROVE  StaysSound(L, D)
<1> DEFINE n == Len(input)
           s == ModeOf(Len(stack))
           e == Top.e
           p == Top.start
           i == Top.i
<1>0. /\ Linked(L, D) /\ DueNow(L, D) /\ mark(ctx) \in 0..n /\ n \in Nat
  BY PointsNow, Facts DEF Sound
<1>1. CASE RepetitionEnter
  <2> DEFINE f == [NewFrame("Repetition", ctl.e) EXCEPT !.node = NextNode(ctx)]
             q == mark(ctx)
  <2>1. /\ ctl.mode = "call" /\ ctl.e.op = "Repetition" /\ Push(f)
        /\ ctx' = make_node(init_cut(ctx), EmptyNode(q, 0)) /\ Goto("go")
    BY <1>1 DEF RepetitionEnter, Calling
  <2>2. /\ f.kind = "Repetition" /\ f.e = ctl.e /\ f.start = q /\ f.i = 0
        /\ f.last = q
    BY DEF NewFrame
  <2>3. mark(ctx') = q /\ ctl'.mode = "go"
    BY <2>1, CursorNow, Controls DEF Moves
  <2> HIDE DEF f, q
  <2>4. q \in 0..n /\ RepetitionRule(gram, input, ModeHere, ctl.e, q, D)
    BY <2>1, CalledSituated DEF q
  <2>6. Got(ModeHere, f.e, f.i, f.start, q) \in D
    BY <2>2, <2>4, RepetitionIterates DEF Iterates
  <2>7. Resumes(gram, D, ModeHere, f.i, q, q)
    BY <2>2 DEF Resumes
  <2>8. Ready(gram, n, D, ModeHere, f, q)
    BY <2>2, <2>4, <2>6, <2>7 DEF Ready
  <2> QED
    BY <1>0, <2>1, <2>2, <2>3, <2>8, SoundCall DEF q
<1>2. CASE RepetitionChild
  <2> DEFINE f == [Top EXCEPT !.iter = mark(ctx)]
  <2>1. /\ stack # <<>> /\ Top.kind = "Repetition" /\ ctl.mode = "go"
        /\ Call(e.kids[1]) /\ ctx' = cut(ctx, FALSE) /\ SetTop(f)
    BY <1>2 DEF RepetitionChild, At
  <2>2. /\ f.kind = Top.kind /\ f.e = e /\ f.start = p /\ f.i = i
        /\ f.last = Top.last /\ f.iter = mark(ctx)
    BY <2>1, RepetitionHere DEF Frames
  <2> HIDE DEF f
  <2>3. mark(ctx') = mark(ctx) /\ ctl'.mode = "call" /\ ctl'.e = e.kids[1]
    BY <2>1, CursorNow, Controls DEF Moves
  <2>4. /\ Ready(gram, n, D, s, Top, mark(ctx)) /\ ModeHere = s
        /\ <<s, e.kids[1]>> \in L
    BY <2>1, RepetitionHere
  <2>5. Ready(gram, n, D, s, f, mark(ctx))
    BY <2>2, <2>4 DEF Ready
  <2>6. Waiting(gram, n, D, s, f, mark(ctx'))
    BY <2>1, <2>2, <2>3, <2>5 DEF Waiting, RunsSkipper
  <2>7. Callee(gram, f) = e.kids[1]
    BY <2>1, <2>2 DEF Callee, ListOps
  <2> QED
    BY <1>0, <2>1, <2>2, <2>3, <2>4, <2>6, <2>7, SoundOn
<1>3. ASSUME ReturnedTo("Repetition", TRUE)
      PROVE  IF RepetitionStops(e, i + 1)
             THEN Derives(D, s, e, p, mark(ctx), i + 1 >= e.min_rep)
             ELSE Got(s, e, i + 1, p, mark(ctx)) \in D
  <2>1. stack # <<>> /\ Top.kind = "Repetition" /\ ctl.mode = "return" /\ ctl.res.success
    BY <1>3 DEF ReturnedTo, At
  <2>2. /\ Ready(gram, n, D, s, Top, ctl.at) /\ Top.iter = ctl.at
        /\ Matches(s, e.kids[1], ctl.at, mark(ctx)) \in D
        /\ i \in Nat /\ ctl.at \in 0..n
        /\ RepetitionRule(gram, input, s, e, p, D)
    BY <2>1, RepetitionHere DEF Derives
  <2>3. PICK q \in 0..n : Got(s, e, i, p, q) \in D /\ Resumes(gram, D, s, i, q, ctl.at)
    BY <2>2 DEF Ready
  <2>4. RepetitionStops(e, i + 1) <=> LastIteration(e, i + 1, ctl.at, mark(ctx))
    BY <2>2 DEF RepetitionStops, LastIteration
  <2> HIDE DEF s, e, p, i
  <2>5. IF LastIteration(e, i + 1, ctl.at, mark(ctx))
        THEN Derives(D, s, e, p, mark(ctx), i + 1 >= e.min_rep)
        ELSE Got(s, e, i + 1, p, mark(ctx)) \in D
    BY <1>0, <2>2, <2>3, RepetitionIterates DEF Iterates
  <2> QED
    BY <2>4, <2>5
<1>4. ASSUME ReturnedTo("Repetition", FALSE)
      PROVE  Derives(D, s, e, p, Top.last, i >= e.min_rep)
  <2>1. /\ stack # <<>> /\ Top.kind = "Repetition" /\ ctl.mode = "return"
        /\ ~ ctl.res.success
    BY <1>4 DEF ReturnedTo, At
  <2>2. /\ Ready(gram, n, D, s, Top, ctl.at)
        /\ Fails(s, e.kids[1], ctl.at) \in D
        /\ i \in Nat /\ ctl.at \in 0..n
        /\ RepetitionRule(gram, input, s, e, p, D)
    BY <2>1, RepetitionHere DEF Derives
  <2>3. PICK q \in 0..n : /\ Got(s, e, i, p, q) \in D
                          /\ Resumes(gram, D, s, i, q, ctl.at) /\ Top.last = q
    BY <2>1, <2>2 DEF Ready
  <2> HIDE DEF s, e, p, i
  <2>4. Derives(D, s, e, p, q, i >= e.min_rep)
    BY <1>0, <2>2, <2>3, RepetitionIterates DEF Iterates
  <2> QED
    BY <2>3, <2>4
<1>5. CASE RepetitionChildMatched
  <2> DEFINE f == [Top EXCEPT !.i = @ + 1, !.last = mark(ctx)]
  <2>1. /\ ReturnedTo("Repetition", TRUE) /\ stack # <<>> /\ Top.kind = "Repetition"
        /\ ctl.mode = "return" /\ SetTop(f) /\ Goto("skip")
        /\ ~ RepetitionStops(e, i + 1)
        /\ ctx' = push_child(ctx, Top.node, ctl.res.tree)
    BY <1>5 DEF RepetitionChildMatched, ReturnedTo, At
  <2>2. /\ f.kind = Top.kind /\ f.e = e /\ f.start = p /\ f.i = i + 1
        /\ f.last = mark(ctx) /\ i \in Nat
    BY <2>1, RepetitionHere DEF Frames
  <2> HIDE DEF f
  <2>3. mark(ctx') = mark(ctx) /\ ctl'.mode = "skip"
    BY <2>1, CursorNow, Controls DEF Moves
  <2>4. Got(s, e, i + 1, p, mark(ctx)) \in D
    BY <1>3, <2>1
  <2>5. Paused(D, s, f, mark(ctx'))
    BY <2>2, <2>3, <2>4 DEF Paused
  <2> QED
    BY <1>0, <2>1, <2>2, <2>3, <2>5, SoundOn
<1>6. ASSUME NEW q, mark(ctx') = q, NEW r, Return(r, p), Pop, stack # <<>>,
             Top.kind = "Repetition", Derives(D, s, e, p, q, r.success)
      PROVE  StaysSound(L, D)
  <2>1. ctl'.mode = "return" /\ ctl'.at = p /\ ctl'.res = r
    BY <1>6, Controls
  <2> QED
    BY <1>0, <1>6, <2>1, SoundReturn
<1>f. Failed.success = FALSE /\ \A t : Matched(t).success = TRUE
  BY DEF Failed, Matched
<1>7. CASE RepetitionMatched
  <2>1. /\ ReturnedTo("Repetition", TRUE) /\ stack # <<>> /\ Top.kind = "Repetition"
        /\ Pop /\ RepetitionStops(e, i + 1) /\ i \in Nat
        /\ Derives(D, s, e, p, mark(ctx), i + 1 >= e.min_rep)
    BY <1>3, <1>7, RepetitionHere DEF RepetitionMatched, ReturnedTo, At
  <2>2. CASE i + 1 < e.min_rep
    <3>1. /\ ctx' = remove_cut(reset(push_child(ctx, Top.node, ctl.res.tree), p))
          /\ Return(Failed, p)
      BY <1>7, <2>2 DEF RepetitionMatched
    <3>2. mark(ctx') = p
      BY <3>1, CursorNow DEF Moves
    <3>3. ~ (i + 1 >= e.min_rep)
      <4>1. e.min_rep \in Nat
        BY <2>1, RepetitionHere, MachineAssumption DEF Frames, ExprOK
      <4> QED
        BY <2>1, <2>2, <4>1
    <3>4. Derives(D, s, e, p, p, Failed.success)
      BY <1>f, <2>1, <3>3 DEF Derives
    <3> QED
      BY <1>6, <2>1, <3>1, <3>2, <3>4
  <2>3. CASE ~ (i + 1 < e.min_rep)
    <3>1. /\ ctx' = remove_cut(set_end(push_child(ctx, Top.node, ctl.res.tree),
                                       Top.node))
          /\ Return(Matched(Top.node), p)
      BY <1>7, <2>3 DEF RepetitionMatched
    <3>2. mark(ctx') = mark(ctx)
      BY <3>1, CursorNow DEF Moves
    <3>3. i + 1 >= e.min_rep
      <4>1. e.min_rep \in Nat
        BY <2>1, RepetitionHere, MachineAssumption DEF Frames, ExprOK
      <4> QED
        BY <2>1, <2>3, <4>1
    <3>4. Derives(D, s, e, p, mark(ctx), Matched(Top.node).success)
      BY <1>f, <2>1, <3>3 DEF Derives
    <3> QED
      BY <1>6, <2>1, <3>1, <3>2, <3>4
  <2> QED
    BY <2>2, <2>3
<1>8. CASE RepetitionTooFew
  <2>1. /\ stack # <<>> /\ Top.kind = "Repetition" /\ Pop /\ Return(Failed, p)
        /\ ctx' = remove_cut(reset(ctx, p)) /\ i < e.min_rep /\ i \in Nat
        /\ Derives(D, s, e, p, Top.last, i >= e.min_rep)
    BY <1>4, <1>8, RepetitionHere DEF RepetitionTooFew, ReturnedTo, At
  <2>2. mark(ctx') = p
    BY <2>1, CursorNow DEF Moves
  <2>3. ~ (i >= e.min_rep)
    <3>1. e.min_rep \in Nat
      BY <2>1, RepetitionHere, MachineAssumption DEF Frames, ExprOK
    <3> QED
      BY <2>1, <3>1
  <2>4. Derives(D, s, e, p, p, Failed.success)
    BY <1>f, <2>1, <2>3 DEF Derives
  <2> QED
    BY <1>6, <2>1, <2>2, <2>4
<1>9. CASE RepetitionEnds
  <2>1. /\ stack # <<>> /\ Top.kind = "Repetition" /\ Pop
        /\ Return(Matched(Top.node), p) /\ i >= e.min_rep
        /\ ctx' = remove_cut(set_end(PadChildren(reset(ctx, Top.last), Top.node, i),
                                     Top.node))
        /\ Derives(D, s, e, p, Top.last, i >= e.min_rep)
    BY <1>4, <1>9 DEF RepetitionEnds, ReturnedTo, At
  <2>2. mark(ctx') = Top.last
    BY <2>1, CursorNow DEF Moves
  <2>3. Derives(D, s, e, p, Top.last, Matched(Top.node).success)
    BY <1>f, <2>1 DEF Derives
  <2> QED
    BY <1>6, <2>1, <2>2, <2>3
<1>10. ~ RepetitionThrow
  BY DEF RepetitionThrow
<1> QED
  BY <1>1, <1>2, <1>5, <1>7, <1>8, <1>9, <1>10 DEF RepetitionStep

\* Predicates rewind and a lexeme switches auto-skip off; else they answer with
\* their child.
LEMMA WrapperSound ==
  ASSUME Inv, NEW L, NEW D, Grounded(L, D), Sound(L, D), WrapperStep
  PROVE  StaysSound(L, D)
<1> DEFINE n == Len(input)
           s == ModeOf(Len(stack))
           e == Top.e
           p == Top.start
<1>0. /\ L \in SUBSET Situations /\ Parses(gram, L)
      /\ InferenceClosed(gram, input, L, D)
      /\ Linked(L, D) /\ DueNow(L, D) /\ mark(ctx) \in 0..n /\ n \in Nat
  BY PointsNow, Facts DEF Grounded, Sound
<1>1. ASSUME NEW op \in {"Not", "And", "Lexeme"}, ctl.mode = "call", ctl.e.op = op,
             Push(NewFrame(op, ctl.e)), Call(ctl.e.kids[1]), mark(ctx') = mark(ctx)
      PROVE  StaysSound(L, D)
  <2> DEFINE f == NewFrame(op, ctl.e)
             q == mark(ctx)
  <2>1. f.kind = op /\ f.e = ctl.e /\ f.start = q /\ Push(f)
    BY <1>1 DEF NewFrame
  <2>2. mark(ctx') = q /\ ctl'.mode = "call" /\ ctl'.e = ctl.e.kids[1]
    BY <1>1, Controls
  <2> HIDE DEF f, q
  <2>3. /\ ModeHere \in BOOLEAN /\ 1 \in 1..Len(ctl.e.kids)
        /\ op # "Lexeme" => \A k \in 1..Len(ctl.e.kids) : <<ModeHere, ctl.e.kids[k]>> \in L
        /\ op = "Lexeme" => <<FALSE, ctl.e.kids[1]>> \in L
    BY <1>1, CalledSituated DEF UnaryOps
  <2>4. Waiting(gram, n, D, ModeHere, f, q)
    BY <1>1, <2>1 DEF Waiting, RunsSkipper
  <2>5. Callee(gram, f) = ctl.e.kids[1]
    BY <1>1, <2>1 DEF Callee, ListOps
  <2>6. CASE op = "Lexeme"
    <3>1. (ModeHere /\ ~ InnerSkipScope(f)) = FALSE
      BY <2>1, <2>6 DEF InnerSkipScope
    <3>2. <<ModeHere /\ ~ InnerSkipScope(f), ctl'.e>> \in L
      BY <2>2, <2>3, <2>6, <3>1
    <3> QED
      BY <1>0, <1>1, <2>1, <2>2, <2>4, <2>5, <3>2, SoundCall DEF q
  <2>7. CASE op # "Lexeme"
    <3>1. (ModeHere /\ ~ InnerSkipScope(f)) = ModeHere
      BY <1>1, <2>1, <2>3, <2>7 DEF InnerSkipScope
    <3>2. <<ModeHere /\ ~ InnerSkipScope(f), ctl'.e>> \in L
      BY <2>2, <2>3, <2>7, <3>1
    <3> QED
      BY <1>0, <1>1, <2>1, <2>2, <2>4, <2>5, <3>2, SoundCall DEF q
  <2> QED
    BY <2>6, <2>7
<1>2. ASSUME stack # <<>>, Top.kind \in {"Not", "And", "Lexeme"}, ctl.mode = "return"
      PROVE  /\ ctl.at = p /\ e.op = Top.kind /\ s \in BOOLEAN
             /\ Top.kind # "Lexeme" =>
                  /\ PredicateRule(input, s, e, p, D)
                  /\ Derives(D, s, e.kids[1], p, mark(ctx), ctl.res.success)
             /\ Top.kind = "Lexeme" =>
                  /\ LexemeRule(input, s, e, p, D)
                  /\ Derives(D, FALSE, e.kids[1], p, mark(ctx), ctl.res.success)
  <2>1. /\ <<s, e>> \in L /\ e.op = Top.kind /\ p \in 0..n
        /\ Top.kind # "Lexeme" => ModeHere = s
        /\ Top.kind = "Lexeme" => ModeHere = FALSE
        /\ Waiting(gram, n, D, s, Top, ctl.at)
        /\ Derives(D, ModeHere, Callee(gram, Top), ctl.at, mark(ctx),
                   ctl.res.success)
    BY <1>0, <1>2, TopSound
  <2>2. Callee(gram, Top) = e.kids[1] /\ ctl.at = p
    BY <1>2, <2>1 DEF Callee, ListOps, Waiting, RunsSkipper
  <2>3. s \in BOOLEAN
    BY DEF ModeOf, AutoIn
  <2> HIDE DEF s, e, p
  <2>4. /\ e.op \in {"Not", "And"} => PredicateRule(input, s, e, p, D)
        /\ e.op = "Lexeme" => LexemeRule(input, s, e, p, D)
    BY <1>0, <2>1, RulesFor
  <2> QED
    BY <1>2, <2>1, <2>2, <2>3, <2>4
<1>3. ASSUME NEW q, mark(ctx') = q, NEW r, Return(r, p), Pop, stack # <<>>,
             Top.kind \in {"Not", "And", "Lexeme"}, Derives(D, s, e, p, q, r.success)
      PROVE  StaysSound(L, D)
  <2>1. ctl'.mode = "return" /\ ctl'.at = p /\ ctl'.res = r
    BY <1>3, Controls
  <2> QED
    BY <1>0, <1>3, <2>1, SoundReturn
<1>4. CASE PredicateEnter
  BY <1>1, <1>4 DEF PredicateEnter, Calling
<1>5. CASE LexemeEnter
  <2>1. mark(ctx') = mark(ctx)
    BY <1>5, CursorNow DEF LexemeEnter, Moves
  <2> QED
    BY <1>1, <1>5, <2>1 DEF LexemeEnter, Calling
<1>6. CASE PredicateReturn
  <2>1. PICK op \in {"Not", "And"} :
          /\ stack # <<>> /\ Top.kind = op /\ ctl.mode = "return"
          /\ ctx' = reset(ctx, p) /\ Pop
          /\ Return([success |-> (op = "And") <=> ctl.res.success,
                     tree |-> nullptr], p)
    BY <1>6 DEF PredicateReturn, At
  <2>2. mark(ctx') = p
    BY <2>1, CursorNow DEF Moves
  <2>3. /\ PredicateRule(input, s, e, p, D) /\ e.op = op
        /\ Derives(D, s, e.kids[1], p, mark(ctx), ctl.res.success)
    BY <1>2, <2>1
  <2>4. CASE ctl.res.success
    <3>1. Matches(s, e.kids[1], p, mark(ctx)) \in D
      BY <2>3, <2>4 DEF Derives
    <3>2. Derives(D, s, e, p, p, op = "And")
      <4> HIDE DEF s, e, p
      <4> QED
        BY <1>0, <2>3, <3>1 DEF PredicateRule
    <3>3. ((op = "And") <=> ctl.res.success) = (op = "And")
      BY <2>4
    <3> QED
      BY <1>3, <2>1, <2>2, <3>2, <3>3
  <2>5. CASE ~ ctl.res.success
    <3>1. Fails(s, e.kids[1], p) \in D
      BY <2>3, <2>5 DEF Derives
    <3>2. Derives(D, s, e, p, p, op = "Not")
      <4> HIDE DEF s, e, p
      <4> QED
        BY <1>0, <2>3, <3>1 DEF PredicateRule
    <3>3. ((op = "And") <=> ctl.res.success) = (op = "Not")
      BY <2>1, <2>5
    <3> QED
      BY <1>3, <2>1, <2>2, <3>2, <3>3
  <2> QED
    BY <2>4, <2>5
<1>7. CASE LexemeReturn
  <2>1. /\ stack # <<>> /\ Top.kind = "Lexeme" /\ ctl.mode = "return"
        /\ ctx' = skip_enabled(ctx, Top.prev) /\ Pop /\ Return(ctl.res, p)
    BY <1>7 DEF LexemeReturn, At
  <2>2. mark(ctx') = mark(ctx)
    BY <2>1, CursorNow DEF Moves
  <2>3. /\ LexemeRule(input, s, e, p, D)
        /\ Derives(D, FALSE, e.kids[1], p, mark(ctx), ctl.res.success)
    BY <1>2, <2>1
  <2>4. Derives(D, s, e, p, mark(ctx), ctl.res.success)
    <3> HIDE DEF s, e, p
    <3> QED
      BY <1>0, <2>3 DEF LexemeRule, Derives
  <2> QED
    BY <1>3, <2>1, <2>2, <2>4
<1> QED
  BY <1>4, <1>5, <1>6, <1>7 DEF WrapperStep

\* The skipper is run where its caller pauses, and wherever it leaves the cursor
\* the caller resumes; with auto-skip off the caller resumes at once.
LEMMA SkipperSound ==
  ASSUME Steady, NEW L, NEW D, Grounded(L, D), Sound(L, D), SkipperStep
  PROVE  StaysSound(L, D)
<1> DEFINE n == Len(input)
<1>0. /\ L \in SUBSET Situations /\ Parses(gram, L) /\ Inv
      /\ Linked(L, D) /\ DueNow(L, D) /\ mark(ctx) \in 0..n /\ n \in Nat
      /\ stack \in Seq(Frames) /\ Len(stack) \in Nat
  <2>1. L \in SUBSET Situations /\ Parses(gram, L) /\ Linked(L, D) /\ DueNow(L, D)
    BY DEF Grounded, Sound
  <2>2. Inv
    BY <2>1, SteadyFacts
  <2> QED
    BY <2>1, <2>2, PointsNow, Facts DEF StackOK
<1>1. ctl.mode # "idle" =>
        ctx.m_skipper = gram.skipper /\ (SkipperRuns(ctx) <=> ModeHere)
  BY <1>0, SteadyFacts
<1>2. CASE SkipperNone
  <2>1. /\ ctl.mode = "skip" /\ ctx' = ctx /\ stack' = stack /\ ~ ModeHere
        /\ ctl'.mode = "go"
    BY <1>0, <1>1, <1>2, Controls DEF SkipperNone
  <2>2. CASE stack = <<>>
    <3>1. Len(stack') = 0
      BY <2>1, <2>2
    <3> QED
      BY <2>1, <3>1 DEF StaysSound, Due
  <2>3. CASE stack # <<>>
    <3> DEFINE s == ModeOf(Len(stack))
    <3>1. SetTop(Top)
      BY <1>0, <2>1, <2>3, Facts, TopFacts DEF SetTop, Top, StackOK
    <3>2. Top.kind \in RunsSkipper /\ Top.start \in 0..n /\ Top \in Frames
      BY <1>0, <2>1, <2>3, Facts, TopOKFacts DEF ControlOK, TopOK, Top, Frames
    <3>3. ModeHere = s /\ Paused(D, s, Top, mark(ctx))
      BY <1>0, <2>1, <2>3, <3>2, TopSound DEF RunsSkipper, Sound
    <3>4. Resumes(gram, D, s, Top.i, mark(ctx), mark(ctx))
      BY <2>1, <3>3 DEF Resumes
    <3>5. Ready(gram, n, D, s, Top, mark(ctx))
      BY <1>0, <3>3, <3>4 DEF Ready, Paused
    <3> QED
      BY <1>0, <2>1, <2>3, <3>1, <3>5, SoundOn
  <2> QED
    BY <2>2, <2>3
<1>3. CASE SkipperEnter
  <2> DEFINE f == NewFrame("Skipper", Ref(ctx.m_skipper))
             d == Len(stack)
             q == mark(ctx)
  <2>1. /\ ctl.mode = "skip" /\ Push(f) /\ ModeHere /\ ctx.m_skipper = gram.skipper
        /\ gram.skipper # NoRule /\ Call(Ref(ctx.m_skipper))
        /\ ctx' = skip_enabled(ctx, FALSE)
    BY <1>0, <1>1, <1>3 DEF SkipperEnter, SkipperRuns
  <2>2. f.kind = "Skipper" /\ f.e = Ref(gram.skipper) /\ f.start = q
    BY <2>1 DEF NewFrame
  <2>3. mark(ctx') = q /\ ctl'.mode = "call" /\ ctl'.e = Ref(gram.skipper)
    BY <1>0, <2>1, CursorNow, Controls DEF Moves
  <2>4. /\ d \in Nat /\ d \in 0..d /\ Len(stack') = d + 1 /\ stack'[d + 1] = f
        /\ \A k \in 1..d : stack'[k] = stack[k]
    BY <1>0, <2>1 DEF Push
  <2>5. AutoIn(gram, stack', d + 1) = FALSE
    <3>1. AutoIn(gram, stack', d + 1) = (AutoIn(gram, stack, d) /\ ~ InnerSkipScope(f))
      BY <1>0, <2>1, AutoPushed DEF Push
    <3> QED
      BY <2>2, <3>1 DEF InnerSkipScope
  <2>d. d > 0 => Paused(D, AutoIn(gram, stack, d - 1), stack[d], q)
    BY <1>0, <2>1 DEF DueNow, Due
  <2>l. \A k \in 1..d : Link(gram, n, L, D, stack, k)
    BY <1>0 DEF Linked
  <2>m. AutoIn(gram, stack, d)
    BY <2>1 DEF ModeHere
  <2> HIDE DEF f, q, d
  <2>6. /\ AutoIn(gram, stack', d) = AutoIn(gram, stack, d)
        /\ d > 0 => AutoIn(gram, stack', d - 1) = AutoIn(gram, stack, d - 1)
        /\ \A k \in 1..d : Link(gram, n, L, D, stack', k)
                             <=> Link(gram, n, L, D, stack, k)
    <3>1. d > 0 => d - 1 \in 0..d
      BY <2>4
    <3> QED
      BY <2>4, <3>1, Outer
  <2>7. /\ d + 1 - 1 = d /\ d + 1 - 2 = d - 1 /\ d + 1 > 0 /\ d + 1 # 0
        /\ (d + 1 > 1 <=> d > 0) /\ (d > 0 => d \in 1..d)
    BY <2>4
  <2>8. d > 0 => stack'[d] = stack[d]
    BY <2>4, <2>7
  <2>9. Link(gram, n, L, D, stack', d + 1)
    BY <2>2, <2>4, <2>6, <2>7, <2>8, <2>d, <2>m DEF Link
  <2>10. <<FALSE, Ref(gram.skipper)>> \in L
    BY <1>0, <2>1 DEF Parses, SkipperCall
  <2>11. Asked(gram, stack', d + 1) = Ref(gram.skipper)
    BY <2>2, <2>4, <2>7 DEF Asked, Callee, ListOps
  <2>12. Awaits(gram, n, D, stack', d + 1, q)
    BY <2>2, <2>4 DEF Awaits, Waiting, RunsSkipper
  <2>13. Due(gram, n, L, D, stack', ctl', mark(ctx'))
    BY <2>3, <2>4, <2>5, <2>10, <2>11, <2>12 DEF Due
  <2>14. \A k \in 1..Len(stack') : k \in 1..d \/ k = d + 1
    BY <2>4
  <2> QED
    BY <2>6, <2>9, <2>13, <2>14, <2>l DEF StaysSound
<1>4. CASE SkipperReturn
  <2> DEFINE d == Len(stack) - 1
  <2>1. /\ stack # <<>> /\ Top.kind = "Skipper" /\ ctl.mode = "return"
        /\ Pop /\ Goto("go") /\ ctx' = skip_enabled(ctx, Top.prev)
    BY <1>4 DEF SkipperReturn, At
  <2>2. mark(ctx') = mark(ctx) /\ ctl'.mode = "go"
    BY <1>0, <2>1, CursorNow, Controls DEF Moves
  <2>3. /\ Len(stack') = Len(stack) - 1 /\ Len(stack) \in Nat /\ Len(stack) >= 1
        /\ \A k \in 1..(Len(stack) - 1) : stack'[k] = stack[k]
    BY <1>0, <2>1, Facts, FrontFacts, TopFacts DEF Pop, Front
  <2>4. /\ d \in Nat /\ Len(stack') = d /\ d + 1 = Len(stack) /\ d \in 0..d
        /\ d + 1 \in 1..Len(stack) /\ \A k \in 1..d : stack'[k] = stack[k]
        /\ d + 1 \in Nat \ {0} /\ d + 1 - 1 = d /\ d + 1 - 2 = d - 1
        /\ d + 1 > 0 /\ d + 1 # 0 /\ (d > 0 => d + 1 > 1 /\ d \in 1..d)
        /\ d > 0 => d \in Nat \ {0} /\ d - 1 \in 0..d
    BY <2>3
  <2>5. Top = stack[d + 1]
    BY <2>4 DEF Top
  <2> HIDE DEF d
  <2>6. Link(gram, n, L, D, stack, d + 1)
    BY <1>0, <2>4 DEF Linked
  <2>7. /\ Top.e = Ref(gram.skipper) /\ AutoIn(gram, stack, d)
        /\ d > 0 => Paused(D, AutoIn(gram, stack, d - 1), stack[d], Top.start)
    BY <2>1, <2>4, <2>5, <2>6 DEF Link
  <2>8. Due(gram, n, L, D, stack, ctl, mark(ctx))
    BY <1>0 DEF DueNow
  <2>9. /\ Waiting(gram, n, D, AutoIn(gram, stack, d), Top, ctl.at)
        /\ Derives(D, AutoIn(gram, stack, d + 1), Asked(gram, stack, d + 1),
                   ctl.at, mark(ctx), ctl.res.success)
    BY <2>1, <2>4, <2>5, <2>8 DEF Due, Awaits
  <2>10. ctl.at = Top.start
    BY <2>1, <2>9 DEF Waiting, RunsSkipper
  <2>11. AutoIn(gram, stack, d + 1) = FALSE
    <3>1. AutoIn(gram, stack, d + 1) = (AutoIn(gram, stack, d + 1 - 1)
                                          /\ ~ InnerSkipScope(stack[d + 1]))
      BY <2>4, AutoWithin
    <3> QED
      BY <2>1, <2>5, <3>1 DEF InnerSkipScope
  <2>12. Asked(gram, stack, d + 1) = Ref(gram.skipper)
    BY <2>1, <2>4, <2>5, <2>7 DEF Asked, Callee, ListOps
  <2>13. /\ Derives(D, FALSE, Ref(gram.skipper), Top.start, mark(ctx), ctl.res.success)
         /\ ~ ctl.res.success => mark(ctx) = Top.start
    BY <1>0, <2>1, <2>9, <2>10, <2>11, <2>12, Facts DEF ControlOK
  <2>14. Top.start \in 0..n
    BY <1>0, <2>1, TopOKFacts DEF Frames
  <2>15. d > 0 => Ready(gram, n, D, AutoIn(gram, stack, d - 1), stack[d], mark(ctx))
    <3> SUFFICES ASSUME d > 0
                 PROVE  Ready(gram, n, D, AutoIn(gram, stack, d - 1), stack[d], mark(ctx))
      OBVIOUS
    <3>1. AutoIn(gram, stack, d - 1)
      <4>1. AutoIn(gram, stack, d) = (AutoIn(gram, stack, d - 1)
                                       /\ ~ InnerSkipScope(stack[d]))
        BY <2>4, AutoWithin
      <4> QED
        BY <2>7, <4>1
    <3>2. Resumes(gram, D, AutoIn(gram, stack, d - 1), stack[d].i, Top.start, mark(ctx))
      BY <2>7, <2>13, <3>1 DEF Resumes, Paused, Derives
    <3> QED
      BY <2>7, <2>14, <3>2 DEF Ready, Paused
  <2>16. /\ d > 0 => AutoIn(gram, stack', d - 1) = AutoIn(gram, stack, d - 1)
         /\ \A k \in 1..d : Link(gram, n, L, D, stack', k)
                              <=> Link(gram, n, L, D, stack, k)
    <3>1. /\ \A i \in 0..d : AutoIn(gram, stack', i) = AutoIn(gram, stack, i)
          /\ \A k \in 1..d : Link(gram, n, L, D, stack', k)
                               <=> Link(gram, n, L, D, stack, k)
      <4>1. d \in Nat /\ \A k \in 1..d : stack'[k] = stack[k]
        BY <2>4
      <4> QED
        BY <4>1, Outer
    <3>2. d > 0 => d - 1 \in 0..d
      BY <2>4
    <3> QED
      BY <3>1, <3>2
  <2>17. d > 0 => stack'[d] = stack[d]
    BY <2>4
  <2>18. Due(gram, n, L, D, stack', ctl', mark(ctx'))
    BY <2>2, <2>4, <2>15, <2>16, <2>17 DEF Due
  <2>19. \A k \in 1..d : Link(gram, n, L, D, stack, k)
    BY <1>0, <2>4 DEF Linked
  <2> QED
    BY <2>4, <2>16, <2>18, <2>19 DEF StaysSound
<1> QED
  BY <1>2, <1>3, <1>4 DEF SkipperStep

-----------------------------------------------------------------------------
(* Rules: what the memo holds, and the grow loop.                          *)

\* Every answer in the memo can be derived.
Answered(L, D) ==
  \A k \in DOMAIN ctx.m_mem : Settled(ctx, k) =>
    \A s \in BOOLEAN : <<s, Ref(k[2])>> \in L =>
      Derives(D, s, Ref(k[2]), k[1], ctx.m_mem[k].m_last_pos,
              ctx.m_mem[k].m_cached_result.success)

\* The cursor after the calls that a rule makes.
LEMMA RuleCursor ==
  ASSUME NEW c, NEW p, Points(c, p)
  PROVE  /\ Points(LeaveRule(c), p)
         /\ \A r, q, x, y : Points(update_rule_state(lr_push(rule_state(c, r, q), x),
                                                     r, q, y), p)
         /\ \A q, x, d, r, y, z :
              Points(update_rule_state(record_diagnostic(reset(
                       record_failure(c, q, x), d), y), r, q, z), d)
<1>1. Points(LeaveRule(c), p)
  <2> DEFINE d == lr_pop(c, Top.lr)
  <2>1. \A x : Points(lr_pop(c, x), p)
    BY PointsKept
  <2>2. Points(d, p)
    BY <2>1
  <2> HIDE DEF d
  <2>3. \A x : Points(clear_growing_head(d, x), p)
    BY <2>2, PointsKept
  <2> QED
    BY <2>2, <2>3 DEF LeaveRule, d
<1>2. ASSUME NEW r, NEW q, NEW x, NEW y
      PROVE  Points(update_rule_state(lr_push(rule_state(c, r, q), x), r, q, y), p)
  <2> DEFINE d == rule_state(c, r, q)
             e == lr_push(d, x)
  <2>1. \A u, v : Points(rule_state(c, u, v), p)
    BY PointsKept
  <2>2. Points(d, p)
    BY <2>1
  <2> HIDE DEF d
  <2>3. \A u : Points(lr_push(d, u), p)
    BY <2>2, PointsKept
  <2>4. Points(e, p)
    BY <2>3
  <2> HIDE DEF e
  <2>5. \A u, v, w : Points(update_rule_state(e, u, v, w), p)
    BY <2>4, PointsKept
  <2> QED
    BY <2>5 DEF e, d
<1>3. ASSUME NEW q, NEW x, NEW d, NEW r, NEW y, NEW z
      PROVE  Points(update_rule_state(record_diagnostic(reset(
                      record_failure(c, q, x), d), y), r, q, z), d)
  <2> DEFINE e == record_failure(c, q, x)
             f == reset(e, d)
             g == record_diagnostic(f, y)
  <2>1. \A u, v : Points(record_failure(c, u, v), p)
    BY PointsKept
  <2>2. Points(e, p)
    BY <2>1
  <2> HIDE DEF e
  <2>3. \A u : Points(reset(e, u), u)
    BY <2>2, PointsKept
  <2>4. Points(f, d)
    BY <2>3
  <2> HIDE DEF f
  <2>5. \A u : Points(record_diagnostic(f, u), d)
    BY <2>4, PointsKept
  <2>6. Points(g, d)
    BY <2>5
  <2> HIDE DEF g
  <2>7. \A u, v, w : Points(update_rule_state(g, u, v, w), d)
    BY <2>6, PointsKept
  <2> QED
    BY <2>7 DEF g, f, e
<1> QED
  BY <1>1, <1>2, <1>3

\* The rule that is innermost: its body, its best match so far and how far it
\* got.
LEMMA RuleHere ==
  ASSUME Steady, NEW L, NEW D, Grounded(L, D), Sound(L, D),
         stack # <<>>, Top.kind = "NonTerminal",
         ctl.mode \in {"return", "finish"}
  PROVE  LET s == ModeOf(Len(stack))
             e == Top.e
             p == Top.start
             b == gram.body[ThisRule]
         IN  /\ Inv /\ Top \in Frames /\ p \in 0..Len(input)
             /\ s \in BOOLEAN /\ e = Ref(ThisRule) /\ ThisRule \in Rules
             /\ <<s, e>> \in L /\ <<s, b>> \in L /\ <<~ s, e>> \notin L
             /\ ModeHere = s /\ HasMemo(ctx, ThisRule, p)
             /\ NonTerminalRule(gram, input, s, e, p, D)
             /\ Top.rs.m_last_pos = MyLR.last_pos
             /\ ~ Top.best.success => MyLR.last_pos = p
             /\ ctl.mode = "return" =>
                  /\ ctl.at = p
                  /\ Top.best.success => Matches(s, b, p, MyLR.last_pos) \in D
                  /\ Derives(D, s, b, p, mark(ctx), ctl.res.success)
                  /\ ctl.res.success => p <= mark(ctx)
             /\ ctl.mode = "finish" =>
                  /\ Derives(D, s, b, p, mark(ctx), Top.best.success)
                  /\ Top.best.success => mark(ctx) = Top.rs.m_last_pos
<1> DEFINE s == ModeOf(Len(stack))
           e == Top.e
           p == Top.start
           b == gram.body[ThisRule]
<1>0. /\ L \in SUBSET Situations /\ Parses(gram, L)
      /\ InferenceClosed(gram, input, L, D)
  BY DEF Grounded
<1>1. Inv /\ MirrorInv /\ Seeded
  BY <1>0, SteadyFacts
<1>2. /\ <<s, e>> \in L /\ e.op = "NonTerminal" /\ p \in 0..Len(input)
      /\ ModeHere = s
      /\ ctl.mode = "return" =>
           /\ Waiting(gram, Len(input), D, s, Top, ctl.at)
           /\ Derives(D, ModeHere, Callee(gram, Top), ctl.at, mark(ctx),
                      ctl.res.success)
      /\ ctl.mode = "finish" =>
           /\ Top.best.success => mark(ctx) = Top.rs.m_last_pos
           /\ Derives(D, s, gram.body[Top.e.rule], Top.start,
                      mark(ctx), Top.best.success)
  BY <1>0, <1>1, TopSound
<1>3. Callee(gram, Top) = b
  BY DEF Callee, ListOps, ThisRule
<1>4. ctl.mode = "return" =>
        /\ ctl.at = p
        /\ Top.best.success => Matches(s, b, p, Top.rs.m_last_pos) \in D
  BY <1>2 DEF Waiting, RunsSkipper, ThisRule
<1>5. HasMemo(ctx, ThisRule, p)
  BY <1>1, MineLast
<1>6. /\ Top \in Frames
      /\ ~ Top.best.success => MyLR.last_pos = p
  BY <1>1, RuleTop
<1>7. Top.rs.m_last_pos = MyLR.last_pos
  <2>1. CallsTidy
    BY DEF Steady, TreeInv
  <2>2. Len(stack) \in 1..Len(stack) /\ Top = stack[Len(stack)]
    BY <1>1, Facts, TopFacts DEF Top
  <2>3. FrameTidy(ctx.m_node_arena, Built(ctx.m_node_arena, stack),
                  ctx.m_lr_stack, Top, HereOf(Len(stack)),
                  Len(stack) = Len(stack) /\ ctl.mode = "finish")
    BY <2>1, <2>2 DEF CallsTidy
  <2> QED
    BY <2>3 DEF FrameTidy, MyLR
<1>8. ctl.mode = "return" /\ ctl.res.success => p <= mark(ctx)
  BY <1>4 DEF Steady, TreeInv, Answer
<1>9. b = gram.body[e.rule] /\ ThisRule = e.rule
  BY DEF ThisRule
<1> HIDE DEF s, e, p
<1>10. /\ s \in BOOLEAN /\ e = Ref(ThisRule) /\ ThisRule \in Rules
       /\ <<s, b>> \in L /\ <<~ s, e>> \notin L
  <2> HIDE DEF b
  <2>1. L \in SUBSET Situations /\ Parses(gram, L) /\ <<s, e>> \in L
        /\ e.op = "NonTerminal"
    BY <1>0, <1>2
  <2>2. /\ s \in BOOLEAN /\ e = Ref(e.rule) /\ e.rule \in Rules
        /\ <<s, gram.body[e.rule]>> \in L /\ <<~ s, e>> \notin L
    BY <2>1, SituatedRef
  <2> QED
    BY <1>9, <2>2
<1>11. NonTerminalRule(gram, input, s, e, p, D)
  BY <1>0, <1>2, RulesFor
<1> QED
  BY <1>1, <1>2, <1>3, <1>4, <1>5, <1>6, <1>7, <1>8, <1>9, <1>10, <1>11
  DEF s, e, p

\* A rule answers as its body does, from the memo or from its grow loop, which
\* keeps the longest match; a recovery resumes after a sync token.  No rule is
\* called where it is in progress.
LEMMA NonTerminalSound ==
  ASSUME Steady, NEW L, NEW D, Grounded(L, D), Sound(L, D), Answered(L, D),
         NonTerminalStep, ~ NonTerminalReenter
  PROVE  StaysSound(L, D)
<1> DEFINE n == Len(input)
           s == ModeOf(Len(stack))
           e == Top.e
           p == Top.start
           b == gram.body[ThisRule]
           c == mark(ctx)
<1>0. /\ L \in SUBSET Situations /\ Parses(gram, L) /\ Inv /\ ~ IsCut(ctx)
      /\ Linked(L, D) /\ DueNow(L, D) /\ n \in Nat /\ c \in 0..n
      /\ Points(ctx, c) /\ MirrorInv /\ Seeded
  <2>1. L \in SUBSET Situations /\ Parses(gram, L) /\ Linked(L, D) /\ DueNow(L, D)
    BY DEF Grounded, Sound
  <2>2. Inv /\ ~ IsCut(ctx) /\ MirrorInv /\ Seeded
    BY <2>1, SteadyFacts
  <2> QED
    BY <2>1, <2>2, PointsNow, Facts
<1>c. \A d, q : Points(d, q) => mark(d) = q
  BY DEF Points, mark
<1>f. Failed.success = FALSE /\ \A t : Matched(t).success = TRUE
  BY DEF Failed, Matched
<1>1. CASE NonTerminalMemoHit
  <2> DEFINE r == ctl.e.rule
             x == ctx.m_mem[<<c, r>>]
  <2>1. /\ ctl.mode = "call" /\ ctl.e.op = "NonTerminal" /\ stack' = stack
        /\ HasMemo(ctx, r, c) /\ ~ lr_in_progress(ctx, r, c)
        /\ ctx' = reset(ctx, x.m_last_pos) /\ Return(x.m_cached_result, c)
    BY <1>1 DEF NonTerminalMemoHit, Calling, memo_get
  <2>2. mark(ctx') = x.m_last_pos
    BY <1>0, <2>1, CursorNow DEF Moves
  <2>3. ctl'.mode = "return" /\ ctl'.at = c /\ ctl'.res = x.m_cached_result
    BY <1>0, <2>1, Controls
  <2>4. /\ ModeHere \in BOOLEAN /\ ctl.e = Ref(r) /\ r \in Rules
        /\ <<ModeHere, ctl.e>> \in L
    BY <1>0, <2>1, CalledSituated
  <2>5. <<c, r>> \in DOMAIN ctx.m_mem /\ <<c, r>>[1] = c /\ <<c, r>>[2] = r
    <3>1. ctx.m_mem \in [(0..n) \X Rules -> RuleStates(n) \cup {Absent}]
      BY <1>0, Facts DEF ContextOK, Contexts
    <3> QED
      BY <1>0, <2>4, <3>1
  <2>6. Settled(ctx, <<c, r>>)
    BY <2>1, <2>5 DEF Settled
  <2> HIDE DEF c, r
  <2>7. Derives(D, ModeHere, Ref(r), c, x.m_last_pos, x.m_cached_result.success)
    BY <2>4, <2>5, <2>6 DEF Answered
  <2>8. Derives(D, ModeHere, ctl.e, c, mark(ctx'), ctl'.res.success)
    BY <2>2, <2>3, <2>4, <2>7
  <2> QED
    BY <1>0, <2>1, <2>3, <2>8, SoundAtOnce DEF c
<1>2. CASE NonTerminalEnter
  <2> DEFINE r == ctl.e.rule
             f == [NewFrame("NonTerminal", ctl.e)
                     EXCEPT !.lr = Len(ctx.m_lr_stack) + 1]
             x == [rule |-> r, pos |-> c, last_pos |-> c, is_head |-> FALSE]
  <2>1. /\ ctl.mode = "call" /\ ctl.e.op = "NonTerminal" /\ Push(f)
        /\ ctx' = update_rule_state(lr_push(rule_state(ctx, r, c), x), r, c, f.rs)
        /\ Call(gram.body[r])
    BY <1>2 DEF NonTerminalEnter, Calling
  <2>2. /\ f.kind = "NonTerminal" /\ f.e = ctl.e /\ f.start = c
        /\ ~ f.best.success
    BY DEF NewFrame, Failed
  <2>3. mark(ctx') = c
    <3> HIDE DEF f, x, r, c
    <3> QED
      BY <1>0, <1>c, <2>1, RuleCursor
  <2>4. ctl'.mode = "call" /\ ctl'.e = gram.body[r]
    BY <1>0, <2>1, Controls
  <2>5. ModeHere \in BOOLEAN /\ <<ModeHere, gram.body[r]>> \in L
    BY <1>0, <2>1, CalledSituated
  <2> HIDE DEF f, x
  <2>6. Waiting(gram, n, D, ModeHere, f, c)
    BY <2>2 DEF Waiting, RunsSkipper
  <2>7. Callee(gram, f) = gram.body[r]
    BY <2>2 DEF Callee, ListOps
  <2>8. (ModeHere /\ ~ InnerSkipScope(f)) = ModeHere
    BY <2>2, <2>5 DEF InnerSkipScope
  <2>9. <<ModeHere /\ ~ InnerSkipScope(f), ctl'.e>> \in L
    BY <2>4, <2>5, <2>8
  <2>10. f.kind # "Skipper"
    BY <2>2
  <2> QED
    BY <1>0, <2>1, <2>2, <2>3, <2>4, <2>6, <2>7, <2>9, <2>10, SoundCall
<1>3. CASE NonTerminalGrow
  <2> DEFINE rs == [m_last_pos |-> c, m_cached_result |-> ctl.res]
             f == [Top EXCEPT !.best = ctl.res, !.rs = rs]
             l == [ctx EXCEPT !.m_lr_stack[Top.lr].last_pos = c]
             d == update_rule_state(l, ThisRule, p, rs)
             g == IF MyLR.is_head THEN clear_siblings_at(d, p, ThisRule) ELSE d
  <2>1. /\ stack # <<>> /\ Top.kind = "NonTerminal" /\ ctl.mode = "return"
        /\ ctl.res.success
    BY <1>3 DEF NonTerminalGrow, ReturnedTo, At
  <2>2. /\ HasMemo(ctx, ThisRule, p) /\ Top \in Frames /\ ctl.at = p
        /\ Derives(D, s, b, p, c, ctl.res.success) /\ ModeHere = s
        /\ <<s, b>> \in L
    BY <2>1, RuleHere
  <2>3. SetTop(f) /\ ctx' = reset(g, p) /\ Call(b)
    BY <1>3, <2>2 DEF NonTerminalGrow
  <2>4. /\ f.kind = Top.kind /\ f.e = e /\ f.start = p /\ f.best = ctl.res
        /\ f.rs.m_last_pos = c
    BY <2>2 DEF Frames
  <2>5. mark(ctx') = p
    <3>1. Points(l, c)
      BY <1>0 DEF Points
    <3> HIDE DEF l, rs, c
    <3>2. \A u, v, w : Points(update_rule_state(l, u, v, w), c)
      BY <3>1, PointsKept
    <3>3. Points(d, c)
      BY <3>2
    <3> HIDE DEF d
    <3>4. \A u, v : Points(clear_siblings_at(d, u, v), c)
      BY <3>3, PointsKept
    <3>5. Points(g, c)
      BY <3>3, <3>4
    <3> HIDE DEF g
    <3>6. \A u : Points(reset(g, u), u)
      BY <3>5, PointsKept
    <3> QED
      BY <1>c, <2>3, <3>6
  <2> HIDE DEF f, g
  <2>6. ctl'.mode = "call" /\ ctl'.e = b
    BY <1>0, <2>3, Controls
  <2>7. Matches(s, b, p, c) \in D
    BY <2>1, <2>2 DEF Derives
  <2>8. Waiting(gram, n, D, s, f, p)
    BY <2>1, <2>4, <2>7 DEF Waiting, RunsSkipper, ThisRule
  <2>9. Callee(gram, f) = b
    BY <2>1, <2>4 DEF Callee, ListOps, ThisRule
  <2>10. <<ModeHere, ctl'.e>> \in L
    BY <2>2, <2>6
  <2> QED
    BY <1>0, <2>1, <2>3, <2>4, <2>5, <2>6, <2>8, <2>9, <2>10, SoundOn
<1>4. CASE NonTerminalFixedPoint
  <2> DEFINE best == IF Top.best.success THEN Top.best ELSE ctl.res
             rs == [m_last_pos |-> MyLR.last_pos, m_cached_result |-> best]
             f == [Top EXCEPT !.best = best, !.rs = rs]
             d == update_rule_state(ctx, ThisRule, p, rs)
  <2>1. /\ stack # <<>> /\ Top.kind = "NonTerminal" /\ ctl.mode = "return"
        /\ ctl.res.success /\ c <= MyLR.last_pos /\ SetTop(f)
        /\ ctx' = reset(d, MyLR.last_pos) /\ Goto("finish")
    BY <1>4 DEF NonTerminalFixedPoint, ReturnedTo, At
  <2>2. /\ Top \in Frames /\ Derives(D, s, b, p, c, ctl.res.success)
        /\ Top.best.success => Matches(s, b, p, MyLR.last_pos) \in D
        /\ ~ Top.best.success => MyLR.last_pos = p
        /\ p <= c /\ p \in 0..n
    BY <2>1, RuleHere
  <2>3. /\ f.kind = Top.kind /\ f.e = e /\ f.start = p /\ f.best = best
        /\ f.rs.m_last_pos = MyLR.last_pos
    BY <2>2 DEF Frames
  <2>4. mark(ctx') = MyLR.last_pos
    <3> HIDE DEF rs, c
    <3>2. \A u, v, w : Points(update_rule_state(ctx, u, v, w), c)
      BY <1>0, PointsKept
    <3>3. Points(d, c)
      BY <3>2
    <3> HIDE DEF d
    <3>6. \A u : Points(reset(d, u), u)
      BY <3>3, PointsKept
    <3> QED
      BY <1>c, <2>1, <3>6
  <2>5. ctl'.mode = "finish"
    BY <1>0, <2>1, Controls
  <2>6. Matches(s, b, p, MyLR.last_pos) \in D
    <3>1. Matches(s, b, p, c) \in D
      BY <2>1, <2>2 DEF Derives
    <3>2. ~ Top.best.success => MyLR.last_pos = c
      BY <1>0, <2>1, <2>2
    <3> QED
      BY <2>2, <3>1, <3>2
  <2>7. best.success
    BY <2>1
  <2> HIDE DEF f, best
  <2>8. Derives(D, s, gram.body[f.e.rule], f.start, mark(ctx'), f.best.success)
    BY <2>3, <2>4, <2>6, <2>7 DEF Derives, ThisRule
  <2> QED
    BY <1>0, <2>1, <2>3, <2>4, <2>5, <2>8, SoundOn
<1>5. CASE NonTerminalBodyFailed
  <2>1. /\ stack # <<>> /\ Top.kind = "NonTerminal" /\ ctl.mode = "return"
        /\ ~ ctl.res.success /\ stack' = stack
        /\ ctx' = reset(ctx, MyLR.last_pos) /\ Goto("finish")
    BY <1>5 DEF NonTerminalBodyFailed, ReturnedTo, At
  <2>2. /\ Derives(D, s, b, p, c, ctl.res.success)
        /\ Top.best.success => Matches(s, b, p, MyLR.last_pos) \in D
        /\ Top.rs.m_last_pos = MyLR.last_pos
    BY <2>1, RuleHere
  <2>3. SetTop(Top)
    BY <1>0, <2>1, Facts, TopFacts DEF SetTop, Top, StackOK
  <2>4. mark(ctx') = MyLR.last_pos /\ ctl'.mode = "finish"
    BY <1>0, <2>1, CursorNow, Controls DEF Moves
  <2>5. Derives(D, s, b, p, mark(ctx'), Top.best.success)
    BY <2>1, <2>2, <2>4 DEF Derives
  <2>6. b = gram.body[Top.e.rule]
    BY DEF ThisRule
  <2> QED
    BY <1>0, <2>1, <2>2, <2>3, <2>4, <2>5, <2>6, SoundOn
<1>6. ASSUME NEW success \in BOOLEAN, Finishing(success)
      PROVE  /\ stack # <<>> /\ Top.kind = "NonTerminal" /\ p \in 0..n
             /\ IF success THEN Matches(s, e, p, c) \in D
                ELSE IF ThisRule \notin gram.recover THEN Fails(s, e, p) \in D
                ELSE \A q \in p..n :
                       Synced(gram, input, ThisRule, p, q) => Matches(s, e, p, q) \in D
  <2>1. /\ stack # <<>> /\ Top.kind = "NonTerminal" /\ ctl.mode = "finish"
        /\ Top.best.success = success
    BY <1>6 DEF Finishing, At
  <2>2. /\ NonTerminalRule(gram, input, s, e, p, D) /\ p \in 0..n
        /\ Derives(D, s, b, p, c, success)
    BY <2>1, RuleHere
  <2>3. b = gram.body[e.rule] /\ ThisRule = e.rule
    BY DEF ThisRule
  <2> HIDE DEF s, e, p, b, c
  <2> QED
    BY <1>0, <2>1, <2>2, <2>3 DEF NonTerminalRule, Derives
<1>7. ASSUME NEW q, mark(ctx') = q, NEW r, Return(r, p), Pop, stack # <<>>,
             Top.kind = "NonTerminal", Derives(D, s, e, p, q, r.success)
      PROVE  StaysSound(L, D)
  <2>1. ctl'.mode = "return" /\ ctl'.at = p /\ ctl'.res = r
    BY <1>0, <1>7, Controls
  <2> QED
    BY <1>0, <1>7, <2>1, SoundReturn
<1>8. CASE NonTerminalFailed
  <2>1. /\ Finishing(FALSE) /\ ThisRule \notin gram.recover
        /\ Return(Failed, p) /\ Pop
    BY <1>0, <1>8 DEF NonTerminalFailed, Recovers
  <2>2. Fails(s, e, p) \in D /\ stack # <<>> /\ Top.kind = "NonTerminal"
    BY <1>6, <2>1
  <2>3. Derives(D, s, e, p, mark(ctx'), Failed.success)
    BY <1>f, <2>2 DEF Derives
  <2> QED
    BY <1>7, <2>1, <2>2, <2>3
<1>9. CASE NonTerminalRecovered
  <2>1. /\ Finishing(FALSE) /\ ThisRule \in gram.recover
        /\ Return(Matched(nullptr), p) /\ Pop
    BY <1>9 DEF NonTerminalRecovered, Recovers
  <2>2. PICK scan \in p..n :
          /\ ScanStops(ThisRule, p, scan)
          /\ \E x, y, z :
               ctx' = update_rule_state(record_diagnostic(reset(
                        record_failure(LeaveRule(ctx), p, x), ResumeAt(scan)), y),
                        ThisRule, p, z)
    BY <1>9 DEF NonTerminalRecovered
  <2>3. mark(ctx') = ResumeAt(scan)
    <3> DEFINE d == LeaveRule(ctx)
    <3>1. Points(d, c)
      BY <1>0, RuleCursor
    <3> HIDE DEF d, p, c
    <3>2. \A q, x, u, r, y, z :
            Points(update_rule_state(record_diagnostic(reset(
                     record_failure(d, q, x), u), y), r, q, z), u)
      BY <3>1, RuleCursor
    <3>3. Points(ctx', ResumeAt(scan))
      BY <2>2, <3>2 DEF d
    <3> QED
      BY <1>c, <3>3
  <2>4. /\ stack # <<>> /\ Top.kind = "NonTerminal" /\ p \in 0..n
        /\ \A q \in p..n :
             Synced(gram, input, ThisRule, p, q) => Matches(s, e, p, q) \in D
    BY <1>6, <2>1
  <2>5. ResumeAt(scan) \in p..n /\ Synced(gram, input, ThisRule, p, ResumeAt(scan))
    <3> HIDE DEF p
    <3>1. \A q \in (p + 1)..scan : input[q] \notin gram.sync[ThisRule]
      <4> SUFFICES ASSUME NEW q \in (p + 1)..scan
                   PROVE  input[q] \notin gram.sync[ThisRule]
        OBVIOUS
      <4>1. q - 1 \in p..(scan - 1) /\ q - 1 + 1 = q
        BY <1>0, <2>2, <2>4
      <4> QED
        BY <2>2, <4>1 DEF ScanStops
    <3>2. CASE scan < n
      <4>1. /\ ResumeAt(scan) = scan + 1 /\ input[scan + 1] \in gram.sync[ThisRule]
            /\ scan + 1 \in (p + 1)..n /\ scan + 1 \in p..n /\ scan + 1 - 1 = scan
        BY <1>0, <2>2, <2>4, <3>2 DEF ScanStops, ResumeAt
      <4> QED
        BY <3>1, <4>1 DEF Synced
    <3>3. CASE ~ (scan < n)
      <4>1. ResumeAt(scan) = n /\ scan = n /\ n \in p..n
        BY <1>0, <2>2, <2>4, <3>3 DEF ResumeAt
      <4> QED
        BY <3>1, <4>1 DEF Synced
    <3> QED
      BY <3>2, <3>3
  <2>6. Derives(D, s, e, p, ResumeAt(scan), Matched(nullptr).success)
    BY <1>f, <2>4, <2>5 DEF Derives
  <2> QED
    BY <1>7, <2>1, <2>3, <2>4, <2>6
<1>10. CASE NonTerminalMatched
  <2>1. Finishing(TRUE) /\ Pop
    BY <1>10 DEF NonTerminalMatched
  <2>2. PICK t : /\ Return(Matched(t), p)
                 /\ \E u, v, x : ctx' = update_rule_state(
                      IF u THEN make_node(LeaveRule(ctx), v)
                      ELSE edit_node(LeaveRule(ctx), t, v), ThisRule, p, x)
    BY <1>10 DEF NonTerminalMatched
  <2>3. mark(ctx') = c
    <3> DEFINE d == LeaveRule(ctx)
    <3>1. Points(d, c)
      BY <1>0, RuleCursor
    <3> HIDE DEF d, p, c
    <3>2. (\A x : Points(make_node(d, x), c)) /\ \A x, y : Points(edit_node(d, x, y), c)
      BY <3>1, PointsKept
    <3>3. PICK u, v, x : ctx' = update_rule_state(
            IF u THEN make_node(d, v) ELSE edit_node(d, t, v), ThisRule, p, x)
      BY <2>2 DEF d
    <3> DEFINE h == IF u THEN make_node(d, v) ELSE edit_node(d, t, v)
    <3>4. Points(h, c)
      BY <3>2
    <3> HIDE DEF h
    <3>5. \A y, z, w : Points(update_rule_state(h, y, z, w), c)
      BY <3>4, PointsKept
    <3>6. Points(ctx', c)
      BY <3>3, <3>5 DEF h
    <3> QED
      BY <1>c, <3>6
  <2>4. Matches(s, e, p, c) \in D /\ stack # <<>> /\ Top.kind = "NonTerminal"
    BY <1>6, <2>1
  <2>5. Derives(D, s, e, p, c, Matched(t).success)
    BY <1>f, <2>4 DEF Derives
  <2> QED
    BY <1>7, <2>1, <2>2, <2>3, <2>4, <2>5
<1> QED
  BY <1>1, <1>2, <1>3, <1>4, <1>5, <1>8, <1>9, <1>10 DEF NonTerminalStep

-----------------------------------------------------------------------------
(* Without left recursion no rule is called where it is in progress.       *)

\* The call y at q is made by the call x at p, or by a call that x makes: the
\* input has been consumed in between, or C knows of it.
After(C, x, p, y, q) == p < q \/ (p = q /\ <<x, y>> \in C)

\* What L, D, N and C have to do with the grammar.
Guided(L, D, N, C) ==
  /\ Grounded(L, D)
  /\ \A j \in D : Advances(N, j)
  /\ HoldsLeftCalls(gram, L, N, C)
  /\ \A x \in L : x[2].op = "NonTerminal" => <<x, x>> \notin C

\* Each active call is made by those around it; the skipper's own frame is not
\* a parse().
Chained(C) ==
  \A j, k \in 1..Len(stack) :
    j < k /\ stack[j].kind # "Skipper" /\ stack[k].kind # "Skipper" =>
      After(C, <<ModeOf(j), stack[j].e>>, stack[j].start,
            <<ModeOf(k), stack[k].e>>, stack[k].start)

\* What is left of derivations that go forward are the derivations.
LEMMA GoForward ==
  ASSUME NEW N, NEW D, \A j \in D : Advances(N, j)
  PROVE  /\ \A s, e, p, q : Matches(s, e, p, q) \in D => p <= q
         /\ \A s, e, n, p, q :
              Got(s, e, n, p, q) \in D => GotAdvances(N, s, e, n, p, q)
<1>1. Advancing(N, D) = D
  BY DEF Advancing
<1> QED
  BY <1>1, AdvancingHolds

\* What C holds of an expression in its mode.
CallsLeft(g, N, C, s, e) ==
  /\ e.op \notin {"Sequence", "Lexeme"} =>
       \A k \in 1..Len(e.kids) : <<<<s, e>>, <<s, e.kids[k]>>>> \in C
  /\ e.op = "Lexeme" => <<<<s, e>>, <<FALSE, e.kids[1]>>>> \in C
  /\ e.op = "Sequence" =>
       \A k \in 1..Len(e.kids) :
         (\A j \in 1..(k - 1) : ChildIn(<<s, e>>, j) \in N) =>
           /\ <<<<s, e>>, <<s, e.kids[k]>>>> \in C
           /\ s /\ k > 1 => <<<<s, e>>, SkipperCall(g)>> \in C
  /\ e.op = "NonTerminal" => <<<<s, e>>, <<s, g.body[e.rule]>>>> \in C

LEMMA LeftCalls ==
  ASSUME NEW g, NEW L \in SUBSET Situations, Parses(g, L), NEW N, NEW C,
         HoldsLeftCalls(g, L, N, C), NEW s, NEW e, <<s, e>> \in L
  PROVE  CallsLeft(g, N, C, s, e)
<1> DEFINE x == <<s, e>>
<1>1. x[1] = s /\ x[2] = e /\ x \in L
  OBVIOUS
<1>2. s \in BOOLEAN /\ Len(e.kids) \in Nat /\ (e.op \in UnaryOps => Len(e.kids) = 1)
  <2>1. Placed(g, L, s, e)
    BY Situated
  <2> QED
    BY <2>1 DEF Placed
<1>3. /\ \A k \in 1..Len(x[2].kids) :
           (x[2].op = "Sequence" => \A j \in 1..(k - 1) : ChildIn(x, j) \in N) =>
             /\ <<x, ChildIn(x, k)>> \in C
             /\ x[2].op = "Sequence" /\ x[1] /\ k > 1 => <<x, SkipperCall(g)>> \in C
      /\ x[2].op = "NonTerminal" => <<x, BodyOf(g, x)>> \in C
  BY <1>1 DEF HoldsLeftCalls
<1>4. e.op # "Lexeme" => \A k : ChildIn(x, k) = <<s, e.kids[k]>>
  <2> SUFFICES ASSUME e.op # "Lexeme", NEW k PROVE ChildIn(x, k) = <<s, e.kids[k]>>
    OBVIOUS
  <2>1. (s /\ e.op # "Lexeme") = s
    BY <1>2
  <2> QED
    BY <1>1, <2>1 DEF ChildIn
<1>5. e.op = "Lexeme" => ChildIn(x, 1) = <<FALSE, e.kids[1]>> /\ 1 \in 1..Len(e.kids)
  <2> SUFFICES ASSUME e.op = "Lexeme"
               PROVE  ChildIn(x, 1) = <<FALSE, e.kids[1]>> /\ 1 \in 1..Len(e.kids)
    OBVIOUS
  <2>1. (s /\ e.op # "Lexeme") = FALSE
    OBVIOUS
  <2>2. Len(e.kids) = 1
    BY <1>2 DEF UnaryOps
  <2>3. ChildIn(x, 1) = <<s /\ e.op # "Lexeme", e.kids[1]>>
    BY <1>1 DEF ChildIn
  <2>4. ChildIn(x, 1) = <<FALSE, e.kids[1]>>
    BY <2>1, <2>3
  <2>5. 1 \in 1..Len(e.kids)
    BY <2>2
  <2> QED
    BY <2>4, <2>5
<1>6. BodyOf(g, x) = <<s, g.body[e.rule]>>
  BY <1>1 DEF BodyOf
<1> HIDE DEF x
<1> QED
  BY <1>1, <1>3, <1>4, <1>5, <1>6 DEF x, CallsLeft

\* What a call waits for comes after it.
LEMMA DirectCall ==
  ASSUME Inv, NEW L, NEW D, NEW N, NEW C, Guided(L, D, N, C), Linked(L, D),
         NEW k \in 1..Len(stack), stack[k].kind # "Skipper", NEW p \in 0..Len(input),
         Waiting(gram, Len(input), D, ModeOf(k), stack[k], p)
  PROVE  After(C, <<ModeOf(k), stack[k].e>>, stack[k].start,
               <<AutoIn(gram, stack, k), Callee(gram, stack[k])>>, p)
<1> DEFINE n == Len(input)
           f == stack[k]
           m == ModeOf(k)
<1>1. /\ L \in SUBSET Situations /\ Parses(gram, L)
      /\ HoldsLeftCalls(gram, L, N, C) /\ \A j \in D : Advances(N, j)
  BY DEF Guided, Grounded
<1>2. /\ f \in Frames /\ FrameOK(f) /\ n \in Nat
  BY Facts DEF StackOK, CallOK
<1>3. f.start \in 0..n /\ f.i \in Nat /\ f.kind \in FrameKinds
  BY <1>2 DEF Frames
<1>4. f.e.op = f.kind /\ (f.kind \in ListOps => f.i < Len(f.e.kids))
  BY <1>2 DEF FrameOK
<1>5. Link(gram, n, L, D, stack, k)
  BY DEF Linked
<1>6. <<m, f.e>> \in L /\ m \in BOOLEAN
  BY <1>5 DEF Link, ModeOf, AutoIn
<1>7. AutoIn(gram, stack, k) = (m /\ ~ InnerSkipScope(f))
  BY AutoWithin DEF ModeOf
<1>8. /\ f.kind # "Lexeme" => AutoIn(gram, stack, k) = m
      /\ f.kind = "Lexeme" => AutoIn(gram, stack, k) = FALSE
  BY <1>6, <1>7 DEF InnerSkipScope
<1>w. Waiting(gram, n, D, m, f, p)
  OBVIOUS
<1> HIDE DEF f, m
<1>9. /\ Len(f.e.kids) \in Nat /\ (f.e.op \in UnaryOps => Len(f.e.kids) = 1)
  <2> DEFINE e == f.e
  <2>1. <<m, e>> \in L
    BY <1>6
  <2> HIDE DEF e
  <2>2. Len(e.kids) \in Nat /\ (e.op \in UnaryOps => Len(e.kids) = 1)
    <3>1. Placed(gram, L, m, e)
      BY <1>1, <2>1, Situated
    <3> QED
      BY <1>1, <2>1, <3>1 DEF Placed
  <2> QED
    BY <2>2 DEF e
<1>10. CallsLeft(gram, N, C, m, f.e)
  BY <1>1, <1>6, LeftCalls
<1>11. CASE f.kind \in RunsSkipper
  <2>1. PICK q \in 0..n : /\ Got(m, f.e, f.i, f.start, q) \in D
                          /\ Resumes(gram, D, m, f.i, q, p)
    BY <1>w, <1>11 DEF Waiting, Ready
  <2>2. q <= p
    <3>1. \A s, e, x, y : Matches(s, e, x, y) \in D => x <= y
      BY <1>1, GoForward
    <3>2. Matches(FALSE, Ref(gram.skipper), q, p) \in D => q <= p
      BY <3>1
    <3>4. q <= q
      BY <1>2, <2>1
    <3>3. p = q \/ Matches(FALSE, Ref(gram.skipper), q, p) \in D
      BY <2>1 DEF Resumes
    <3> QED
      BY <3>2, <3>3, <3>4
  <2>3. GotAdvances(N, m, f.e, f.i, f.start, q)
    BY <1>1, <2>1, GoForward
  <2>4. f.start <= q /\ f.start <= p /\ (p = f.start => q = f.start)
    BY <1>3, <2>2, <2>3 DEF GotAdvances
  <2>5. CASE f.kind = "Sequence"
    <3>1. Callee(gram, f) = f.e.kids[f.i + 1] /\ AutoIn(gram, stack, k) = m
      BY <1>8, <2>5 DEF Callee, ListOps
    <3>8. (f.i + 1) - 1 = f.i
      BY <1>3
    <3>9. f.i + 1 \in 1..Len(f.e.kids)
      BY <1>3, <1>4, <1>9, <2>5 DEF ListOps
    <3>2. f.i + 1 \in 1..Len(f.e.kids) /\ (f.i + 1) - 1 = f.i
      BY <3>8, <3>9
    <3>3. q = f.start => \A j \in 1..f.i : ChildIn(<<m, f.e>>, j) \in N
      BY <1>4, <2>3, <2>5 DEF GotAdvances
    <3>4. p = f.start => <<<<m, f.e>>, <<m, f.e.kids[f.i + 1]>>>> \in C
      <4> DEFINE l == f.i + 1
      <4>2. l \in 1..Len(f.e.kids) /\ l - 1 = f.i
        BY <3>2
      <4> HIDE DEF l
      <4>3. (\A j \in 1..(l - 1) : ChildIn(<<m, f.e>>, j) \in N) =>
              <<<<m, f.e>>, <<m, f.e.kids[l]>>>> \in C
        BY <1>4, <1>10, <2>5, <4>2 DEF CallsLeft
      <4>1. (\A j \in 1..f.i : ChildIn(<<m, f.e>>, j) \in N) =>
              <<<<m, f.e>>, <<m, f.e.kids[f.i + 1]>>>> \in C
        BY <4>2, <4>3 DEF l
      <4> QED
        BY <2>4, <3>3, <4>1
    <3>5. f.start < p \/ f.start = p
      BY <1>3, <2>4
    <3> DEFINE y == <<m, f.e.kids[f.i + 1]>>
    <3>6. After(C, <<m, f.e>>, f.start, y, p)
      BY <3>4, <3>5 DEF After
    <3>7. y = <<AutoIn(gram, stack, k), Callee(gram, f)>>
      BY <3>1
    <3> QED
      BY <3>6, <3>7 DEF f, m
  <2>6. CASE f.kind = "Repetition"
    <3>1. Callee(gram, f) = f.e.kids[1] /\ AutoIn(gram, stack, k) = m
      BY <1>8, <2>6 DEF Callee, ListOps
    <3>2. 1 \in 1..Len(f.e.kids)
      <4>1. Len(f.e.kids) = 1
        BY <1>4, <1>9, <2>6 DEF UnaryOps
      <4> QED
        BY <4>1
    <3>3. <<<<m, f.e>>, <<m, f.e.kids[1]>>>> \in C
      BY <1>4, <1>10, <2>6, <3>2 DEF CallsLeft
    <3>5. f.start < p \/ f.start = p
      BY <1>3, <2>4
    <3> QED
      BY <3>1, <3>3, <3>5 DEF After, f, m
  <2> QED
    BY <1>11, <2>5, <2>6 DEF RunsSkipper
<1>12. CASE f.kind \notin RunsSkipper
  <2>1. p = f.start
    BY <1>w, <1>12 DEF Waiting
  <2>2. <<<<m, f.e>>, <<AutoIn(gram, stack, k), Callee(gram, f)>>>> \in C
    <3>1. CASE f.kind = "Alternation"
      <4>1. Callee(gram, f) = f.e.kids[f.i + 1] /\ AutoIn(gram, stack, k) = m
        BY <1>8, <3>1 DEF Callee, ListOps
      <4>2. f.i + 1 \in 1..Len(f.e.kids)
        BY <1>3, <1>4, <1>9, <3>1 DEF ListOps
      <4> QED
        BY <1>4, <1>10, <3>1, <4>1, <4>2 DEF CallsLeft
    <3>2. CASE f.kind \in {"Not", "And", "Lexeme"}
      <4>1. Callee(gram, f) = f.e.kids[1]
        BY <3>2 DEF Callee, ListOps
      <4>2. 1 \in 1..Len(f.e.kids)
        <5>1. Len(f.e.kids) = 1
          BY <1>4, <1>9, <3>2 DEF UnaryOps
        <5> QED
          BY <5>1
      <4> QED
        BY <1>4, <1>8, <1>10, <3>2, <4>1, <4>2 DEF CallsLeft
    <3>3. CASE f.kind = "NonTerminal"
      <4>1. Callee(gram, f) = gram.body[f.e.rule] /\ AutoIn(gram, stack, k) = m
        BY <1>8, <3>3 DEF Callee, ListOps
      <4> QED
        BY <1>4, <1>10, <3>3, <4>1 DEF CallsLeft
    <3>4. f.kind # "Skipper"
      BY DEF f
    <3> QED
      BY <1>3, <1>12, <3>1, <3>2, <3>3, <3>4 DEF FrameKinds, UnaryOps, ListOps, RunsSkipper
  <2> QED
    BY <2>1, <2>2 DEF After, f, m
<1> QED
  BY <1>11, <1>12

\* So does the skipper, once something has been parsed.
LEMMA PausedCall ==
  ASSUME Inv, NEW L, NEW D, NEW N, NEW C, Guided(L, D, N, C), Linked(L, D),
         NEW k \in 1..Len(stack), stack[k].kind \in RunsSkipper, ModeOf(k),
         NEW p \in 0..Len(input), Paused(D, ModeOf(k), stack[k], p)
  PROVE  After(C, <<ModeOf(k), stack[k].e>>, stack[k].start, SkipperCall(gram), p)
<1> DEFINE f == stack[k]
           m == ModeOf(k)
<1>1. /\ L \in SUBSET Situations /\ Parses(gram, L)
      /\ HoldsLeftCalls(gram, L, N, C) /\ \A j \in D : Advances(N, j)
  BY DEF Guided, Grounded
<1>2. /\ f \in Frames /\ FrameOK(f) /\ Len(input) \in Nat
  BY Facts DEF StackOK, CallOK
<1>3. f.start \in 0..Len(input) /\ f.i \in Nat
  BY <1>2 DEF Frames
<1>4. f.e.op = f.kind /\ (f.kind \in ListOps => f.i < Len(f.e.kids))
  BY <1>2 DEF FrameOK, RunsSkipper
<1>5. <<m, f.e>> \in L
  <2>1. Link(gram, Len(input), L, D, stack, k)
    BY DEF Linked
  <2>2. f.kind # "Skipper"
    BY DEF RunsSkipper
  <2> QED
    BY <2>1, <2>2 DEF Link, ModeOf
<1>6. f.i > 0 /\ Got(m, f.e, f.i, f.start, p) \in D
  BY DEF Paused
<1>7. m /\ f.kind \in RunsSkipper
  OBVIOUS
<1> HIDE DEF f, m
<1>8. Len(f.e.kids) \in Nat
  <2> DEFINE e == f.e
  <2>1. <<m, e>> \in L
    BY <1>5
  <2> HIDE DEF e
  <2>2. Len(e.kids) \in Nat
    <3>1. Placed(gram, L, m, e)
      BY <1>1, <2>1, Situated
    <3> QED
      BY <1>1, <2>1, <3>1 DEF Placed
  <2> QED
    BY <2>2 DEF e
<1>9. CallsLeft(gram, N, C, m, f.e)
  BY <1>1, <1>5, LeftCalls
<1>10. GotAdvances(N, m, f.e, f.i, f.start, p)
  BY <1>1, <1>6, GoForward
<1>11. f.start <= p
  BY <1>10 DEF GotAdvances
<1>12. CASE f.kind = "Repetition"
  <2>1. f.start < p
    BY <1>4, <1>6, <1>10, <1>12 DEF GotAdvances
  <2> QED
    BY <2>1 DEF After, f, m
<1>13. CASE f.kind = "Sequence"
  <2> DEFINE l == f.i + 1
  <2>1. l - 1 = f.i /\ l > 1
    BY <1>3, <1>6
  <2>2. l \in 1..Len(f.e.kids)
    BY <1>3, <1>4, <1>8, <1>13 DEF ListOps
  <2> HIDE DEF l
  <2>3. (\A j \in 1..(l - 1) : ChildIn(<<m, f.e>>, j) \in N) =>
          <<<<m, f.e>>, SkipperCall(gram)>> \in C
    BY <1>4, <1>7, <1>9, <1>13, <2>1, <2>2 DEF CallsLeft
  <2>4. p = f.start => \A j \in 1..f.i : ChildIn(<<m, f.e>>, j) \in N
    BY <1>4, <1>10, <1>13 DEF GotAdvances
  <2>5. p = f.start => <<<<m, f.e>>, SkipperCall(gram)>> \in C
    BY <2>1, <2>3, <2>4
  <2>6. f.start < p \/ f.start = p
    BY <1>3, <1>11
  <2> QED
    BY <2>5, <2>6 DEF After, f, m
<1> QED
  BY <1>7, <1>12, <1>13 DEF RunsSkipper

\* Calls of calls.
LEMMA AfterThat ==
  ASSUME NEW g, NEW L, NEW N, NEW C, HoldsLeftCalls(g, L, N, C),
         NEW x \in L, NEW y \in L, NEW z \in L,
         NEW p \in Nat, NEW q \in Nat, NEW r \in Nat,
         After(C, x, p, y, q), After(C, y, q, z, r)
  PROVE  After(C, x, p, z, r)
<1>1. <<x, y>> \in C /\ <<y, z>> \in C => <<x, z>> \in C
  BY DEF HoldsLeftCalls
<1> QED
  BY <1>1 DEF After

\* What is about to be called comes after every active call.
LEMMA CallAfter ==
  ASSUME Inv, NEW L, NEW D, NEW N, NEW C, Guided(L, D, N, C), Linked(L, D),
         Chained(C), NEW p \in 0..Len(input),
         <<ModeHere, Asked(gram, stack, Len(stack))>> \in L,
         Awaits(gram, Len(input), D, stack, Len(stack), p),
         NEW j \in 1..Len(stack), stack[j].kind # "Skipper"
  PROVE  After(C, <<ModeOf(j), stack[j].e>>, stack[j].start,
               <<ModeHere, Asked(gram, stack, Len(stack))>>, p)
<1> DEFINE d == Len(stack)
           n == Len(input)
           X(k) == <<ModeOf(k), stack[k].e>>
           y == <<ModeHere, Asked(gram, stack, d)>>
<1>1. /\ d \in Nat \ {0} /\ n \in Nat /\ d \in 1..d /\ d > 0 /\ d # 0
      /\ HoldsLeftCalls(gram, L, N, C) /\ Parses(gram, L)
      /\ L \in SUBSET Situations
  BY Facts DEF StackOK, Guided, Grounded
<1>2. \A k \in 1..d : stack[k].start \in 0..n /\ EntryOK(stack, k)
  <2>1. StackOK(stack, ctx.m_lr_stack)
    BY Facts
  <2>2. \A k \in 1..d : EntryOK(stack, k)
    BY <2>1 DEF StackOK, CallOK
  <2>3. \A k \in 1..d : stack[k] \in Frames
    BY <2>1 DEF StackOK
  <2>4. \A k \in 1..d : stack[k].start \in 0..n
    BY <2>3 DEF Frames
  <2> QED
    BY <2>2, <2>4
<1>3. \A k \in 1..d : Link(gram, n, L, D, stack, k)
  BY DEF Linked
<1>4. \A k \in 1..d : stack[k].kind # "Skipper" => X(k) \in L
  BY <1>3 DEF Link, ModeOf
<1>5. ASSUME NEW k \in 1..d, stack[k].kind # "Skipper", j <= k,
             After(C, X(k), stack[k].start, y, p)
      PROVE  After(C, X(j), stack[j].start, y, p)
  <2>1. CASE j = k
    BY <1>5, <2>1
  <2>2. CASE j < k
    <3>1. After(C, X(j), stack[j].start, X(k), stack[k].start)
      BY <1>5, <2>2 DEF Chained
    <3>2. /\ stack[j].start \in Nat /\ stack[k].start \in Nat /\ p \in Nat
          /\ X(j) \in L /\ X(k) \in L /\ y \in L
      <4>1. X(j) \in L /\ X(k) \in L /\ y \in L
        BY <1>4, <1>5
      <4>2. stack[j].start \in 0..n /\ stack[k].start \in 0..n /\ p \in 0..n
        BY <1>2
      <4> HIDE DEF X, y
      <4> QED
        BY <1>1, <4>1, <4>2
    <3>3. After(C, X(k), stack[k].start, y, p) /\ HoldsLeftCalls(gram, L, N, C)
      BY <1>1, <1>5
    <3> HIDE DEF X, y
    <3>4. <<X(j), X(k)>> \in C /\ <<X(k), y>> \in C => <<X(j), y>> \in C
      BY <3>2, <3>3 DEF HoldsLeftCalls
    <3> QED
      BY <3>1, <3>2, <3>3, <3>4 DEF After
  <2> QED
    BY <1>1, <1>5, <2>1, <2>2
<1>6. CASE stack[d].kind # "Skipper"
  <2>1. Waiting(gram, n, D, ModeOf(d), stack[d], p)
    BY <1>1 DEF Awaits, ModeOf
  <2>2. After(C, X(d), stack[d].start,
              <<AutoIn(gram, stack, d), Callee(gram, stack[d])>>, p)
    BY <1>1, <1>6, <2>1, DirectCall
  <2>3. y = <<AutoIn(gram, stack, d), Callee(gram, stack[d])>>
    BY <1>1 DEF ModeHere, Asked
  <2>4. j <= d
    BY <1>1
  <2> QED
    BY <1>1, <1>5, <1>6, <2>2, <2>3, <2>4
<1>7. CASE stack[d].kind = "Skipper"
  <2> DEFINE k == d - 1
  <2>1. k \in 1..d /\ k + 1 = d /\ d > 1 /\ j <= k
    BY <1>1, <1>7
  <2>2. d - 2 = k - 1 /\ d - 1 = k
    BY <1>1
  <2>3. /\ stack[d].e = Ref(gram.skipper) /\ AutoIn(gram, stack, k)
        /\ Paused(D, ModeOf(k), stack[k], stack[d].start)
    BY <1>1, <1>3, <1>7, <2>1, <2>2 DEF Link, ModeOf
  <2>4. stack[k].kind \in RunsSkipper /\ stack[k].kind # "Skipper"
    BY <1>1, <1>2, <1>7, <2>1, <2>2 DEF EntryOK, RunsSkipper
  <2>5. AutoIn(gram, stack, k) = (ModeOf(k) /\ ~ InnerSkipScope(stack[k]))
    BY <2>1, AutoWithin DEF ModeOf
  <2>6. p = stack[d].start
    BY <1>1, <1>7 DEF Awaits, Waiting, RunsSkipper
  <2>7. y = SkipperCall(gram)
    <3>1. ModeHere = (ModeOf(d) /\ ~ InnerSkipScope(stack[d]))
      BY <1>1, AutoWithin DEF ModeHere, ModeOf
    <3>2. InnerSkipScope(stack[d])
      BY <1>7 DEF InnerSkipScope
    <3>3. ModeHere = FALSE
      BY <3>1, <3>2
    <3>4. Asked(gram, stack, d) = Ref(gram.skipper)
      BY <1>1, <1>7, <2>3 DEF Asked, Callee, ListOps
    <3> QED
      BY <3>3, <3>4 DEF SkipperCall
  <2> HIDE DEF k
  <2>8. k \in 1..Len(stack) /\ ModeOf(k) /\ Paused(D, ModeOf(k), stack[k], p)
    BY <2>1, <2>3, <2>5, <2>6
  <2>9. After(C, X(k), stack[k].start, SkipperCall(gram), p)
    BY <2>4, <2>8, PausedCall
  <2> QED
    BY <1>5, <2>1, <2>4, <2>7, <2>9
<1> QED
  BY <1>6, <1>7

\* Each active call keeps coming after those around it, and so does a new one.
LEMMA ChainedStep ==
  ASSUME Inv, Inv', UNCHANGED setup, Shaped, NEW L, NEW D, NEW N, NEW C,
         Guided(L, D, N, C), Linked(L, D), Chained(C), StaysSound(L, D)
  PROVE  Chained(C)'
<1> DEFINE d == Len(stack)
           Old(k) == /\ k \in 1..d /\ stack'[k].kind = stack[k].kind
                     /\ stack'[k].e = stack[k].e
                     /\ stack'[k].start = stack[k].start
           Mode(k) == AutoIn(gram, stack', k - 1)
           X(k) == <<ModeOf(k), stack[k].e>>
           Y(k) == <<Mode(k), stack'[k].e>>
<1>1. /\ d \in Nat /\ Len(stack') \in Nat
      /\ \A k \in 1..Len(stack') :
           Old(k) \/ (k = d + 1 /\ Opens(stack'[k]))
  BY CallBefore
<1>2. gram' = gram /\ input' = input
  BY DEF setup
<1>3. ASSUME NEW k \in 1..Len(stack') PROVE Mode(k) = ModeOf(k)
  <2>1. \A i \in 1..(k - 1) : Old(i)
    <3> HIDE DEF Old
    <3> SUFFICES ASSUME NEW i \in 1..(k - 1) PROVE Old(i)
      OBVIOUS
    <3>1. k <= d + 1
      BY <1>1 DEF Old
    <3>2. i \in 1..Len(stack') /\ i # d + 1
      BY <1>1, <3>1
    <3> QED
      BY <1>1, <3>2
  <2>2. \A i \in 1..(k - 1) : InnerSkipScope(stack'[i]) <=> InnerSkipScope(stack[i])
    BY <2>1 DEF InnerSkipScope
  <2>3. Mode(k) <=> ModeOf(k)
    BY <2>2 DEF AutoIn, ModeOf
  <2> QED
    BY <2>3 DEF AutoIn, ModeOf
<1>4. ASSUME NEW j \in 1..Len(stack'), NEW k \in 1..Len(stack'), j < k,
             stack'[j].kind # "Skipper", stack'[k].kind # "Skipper"
      PROVE  After(C, Y(j), stack'[j].start, Y(k), stack'[k].start)
  <2>1. j # d + 1 /\ Old(j)
    <3> HIDE DEF Old
    <3>1. k <= d + 1
      BY <1>1 DEF Old
    <3> QED
      BY <1>1, <1>4, <3>1
  <2>2. j \in 1..d /\ Y(j) = X(j) /\ stack'[j].start = stack[j].start
        /\ stack[j].kind # "Skipper"
    BY <1>3, <1>4, <2>1
  <2>3. CASE Old(k)
    <3>1. /\ k \in 1..d /\ Y(k) = X(k) /\ stack'[k].start = stack[k].start
          /\ stack[k].kind # "Skipper"
      BY <1>3, <1>4, <2>3
    <3>2. After(C, X(j), stack[j].start, X(k), stack[k].start)
      BY <1>4, <2>2, <3>1 DEF Chained
    <3> HIDE DEF X, Y
    <3> QED
      BY <2>2, <3>1, <3>2
  <2>4. CASE k = d + 1 /\ Opens(stack'[k])
    <3> DEFINE f == stack'[k]
               p == f.start
    <3>1. f \in Frames /\ stack' = Append(stack, f)
      BY <2>4 DEF Opens
    <3>2. stack \in Seq(Frames) /\ stack' \in Seq(Frames)
      BY StackTyped
    <3>3. \A i \in 1..d : stack'[i] = stack[i]
      BY <3>1, <3>2
    <3>4. k - 1 = d /\ d \in 0..d
      BY <1>1, <2>4
    <3>5. Link(gram, Len(input), L, D, stack', k)
      BY DEF StaysSound
    <3>6. /\ <<AutoIn(gram, stack', k - 1), f.e>> \in L
          /\ f.e = Asked(gram, stack', k - 1)
          /\ Awaits(gram, Len(input), D, stack', k - 1, p)
      BY <1>4, <3>5 DEF Link
    <3> HIDE DEF f, p
    <3> DEFINE n == Len(input)
    <3> HIDE DEF n
    <3>7. /\ AutoIn(gram, stack', d) = AutoIn(gram, stack, d)
          /\ Asked(gram, stack', d) = Asked(gram, stack, d)
          /\ Awaits(gram, n, D, stack', d, p) <=> Awaits(gram, n, D, stack, d, p)
      BY <1>1, <3>3, <3>4, Outer
    <3>8. /\ <<ModeHere, Asked(gram, stack, d)>> \in L
          /\ f.e = Asked(gram, stack, d)
          /\ Awaits(gram, n, D, stack, d, p)
      BY <3>4, <3>6, <3>7 DEF ModeHere, n
    <3>9. p \in 0..Len(input)
      BY <3>1 DEF Frames, p
    <3>10. After(C, X(j), stack[j].start, <<ModeHere, Asked(gram, stack, d)>>, p)
      BY <2>2, <3>8, <3>9, CallAfter DEF n
    <3>11. Y(k) = <<ModeHere, Asked(gram, stack, d)>>
      BY <3>4, <3>7, <3>8 DEF ModeHere, f
    <3> HIDE DEF X, Y
    <3> QED
      BY <2>2, <3>10, <3>11 DEF f, p
  <2> QED
    BY <1>1, <2>3, <2>4
<1> HIDE DEF d, Old, X
<1>5. \A j \in 1..Len(stack') : ModeOf(j)' = Mode(j)
  BY <1>2 DEF ModeOf
<1> QED
  BY <1>4, <1>5 DEF Chained

\* A rule is about to be parsed where it is in progress.
SelfCalled ==
  /\ ctl.mode = "call" /\ ctl.e.op = "NonTerminal"
  /\ lr_in_progress(ctx, ctl.e.rule, mark(ctx))

\* Without left recursion, nothing is called where it is in progress.
LEMMA NoReenter ==
  ASSUME Steady, NEW L, NEW D, NEW N, NEW C, Guided(L, D, N, C), Sound(L, D),
         Chained(C)
  PROVE  ~ SelfCalled
<1> DEFINE r == ctl.e.rule
           p == mark(ctx)
<1> SUFFICES ASSUME ctl.mode = "call", ctl.e.op = "NonTerminal",
                    lr_in_progress(ctx, r, p)
             PROVE  FALSE
  BY DEF SelfCalled
<1>1. L \in SUBSET Situations /\ Parses(gram, L)
  BY DEF Guided, Grounded
<1>2. Inv /\ MirrorInv /\ Linked(L, D) /\ DueNow(L, D)
  BY <1>1, SteadyFacts DEF Sound
<1>3. /\ <<ModeHere, ctl.e>> \in L /\ ctl.e = Asked(gram, stack, Len(stack))
      /\ Awaits(gram, Len(input), D, stack, Len(stack), p)
  BY <1>2 DEF DueNow, Due, ModeHere
<1>4. PICK i \in 1..Len(ctx.m_lr_stack) :
        ctx.m_lr_stack[i].pos = p /\ ctx.m_lr_stack[i].rule = r
  BY DEF lr_in_progress
<1>5. Mirrors(stack, ctx.m_lr_stack)
  BY <1>2 DEF MirrorInv
<1>6. PICK j \in RuleFrames(stack) : stack[j].lr = i
  BY <1>4, <1>5 DEF Mirrors
<1>7. /\ j \in 1..Len(stack) /\ stack[j].kind = "NonTerminal"
      /\ stack[j].e.rule = r /\ stack[j].start = p
  BY <1>4, <1>5, <1>6 DEF Mirrors, RuleFrames
<1>8. p \in 0..Len(input) /\ Len(input) \in Nat
  BY <1>2, Facts
<1>9. After(C, <<ModeOf(j), stack[j].e>>, p, <<ModeHere, ctl.e>>, p)
  BY <1>2, <1>3, <1>7, <1>8, CallAfter
<1>10. stack[j].e.op = "NonTerminal" /\ <<ModeOf(j), stack[j].e>> \in L
  <2>1. Link(gram, Len(input), L, D, stack, j)
    BY <1>2, <1>7 DEF Linked
  <2>2. FrameOK(stack[j])
    BY <1>2, <1>7, Facts DEF StackOK, CallOK
  <2> QED
    BY <1>7, <2>1, <2>2 DEF Link, ModeOf, FrameOK
<1>11. <<<<ModeOf(j), stack[j].e>>, <<ModeHere, ctl.e>>>> \in C
  BY <1>8, <1>9 DEF After
<1> DEFINE s == ModeHere
           e == ctl.e
           t == ModeOf(j)
           f == stack[j].e
<1>12. /\ <<s, e>> \in L /\ <<t, f>> \in L /\ <<<<t, f>>, <<s, e>>>> \in C
       /\ e.op = "NonTerminal" /\ f.op = "NonTerminal" /\ e.rule = f.rule
  BY <1>3, <1>7, <1>10, <1>11
<1> HIDE DEF s, e, t, f
<1>13. /\ e = Ref(e.rule) /\ f = Ref(f.rule) /\ <<~ s, e>> \notin L
       /\ s \in BOOLEAN /\ t \in BOOLEAN
  <2>1. L \in SUBSET Situations /\ Parses(gram, L)
    BY <1>1
  <2>2. <<s, e>> \in L /\ e.op = "NonTerminal"
    BY <1>12
  <2>3. <<t, f>> \in L /\ f.op = "NonTerminal"
    BY <1>12
  <2>4. e = Ref(e.rule) /\ <<~ s, e>> \notin L /\ s \in BOOLEAN
    BY ONLY <2>1, <2>2, SituatedRef
  <2>5. f = Ref(f.rule) /\ t \in BOOLEAN
    BY ONLY <2>1, <2>3, SituatedRef
  <2> QED
    BY <2>4, <2>5
<1>14. f = e /\ t = s
  <2>1. f = e
    <3>1. Ref(e.rule) = Ref(f.rule)
      BY <1>12
    <3> QED
      BY <1>13, <3>1
  <2>2. <<t, e>> \in L
    BY <1>12, <2>1
  <2> QED
    BY <1>13, <2>1, <2>2
<1>15. <<<<s, e>>, <<s, e>>>> \in C
  BY <1>12, <1>14
<1>16. \A x \in L : x[2].op = "NonTerminal" => <<x, x>> \notin C
  BY DEF Guided
<1>17. <<s, e>>[2].op = "NonTerminal"
  BY <1>12
<1> QED
  BY <1>12, <1>15, <1>16, <1>17

-----------------------------------------------------------------------------
(* Every step keeps to the rules.                                          *)

\* Grammar::parse asks for the start rule, after the leading skip.
LEMMA GrammarSound ==
  ASSUME Inv, NEW L, NEW D, Grounded(L, D), GrammarStep
  PROVE  StaysSound(L, D)
<1>1. stack = <<>> /\ stack' = <<>>
  <2>1. stack' = stack /\ (stack = <<>> \/ ctl.mode = "idle")
    BY DEF GrammarStep, StartParse, StartRule, ParseReturns, ParseCatches,
           ParseThrows, Finish, TakeError, TakeDiagnostics
  <2>2. ctl.mode = "idle" => stack = <<>>
    BY Facts DEF ControlOK, TopOK
  <2> QED
    BY <2>1, <2>2
<1>2. Len(stack') = 0 /\ 1..Len(stack') = {}
  BY <1>1
<1>3. ctl'.mode \in {"idle", "skip"} \/ (ctl'.mode = "call" /\ ctl'.e = Ref(gram.start))
  <2>1. CASE StartParse
    BY <2>1, Facts DEF StartParse, Control
  <2>2. CASE StartRule
    BY <2>2, Controls DEF StartRule
  <2>3. CASE \E o : Finish(o)
    BY <2>3, Controls DEF Finish
  <2>4. CASE TakeError \/ TakeDiagnostics
    BY <2>4 DEF TakeError, TakeDiagnostics
  <2> QED
    BY <2>1, <2>2, <2>3, <2>4
    DEF GrammarStep, ParseReturns, ParseCatches, ParseThrows
<1>4. AutoIn(gram, stack', 0) = (gram.skipper # NoRule)
  BY DEF AutoIn
<1>5. <<gram.skipper # NoRule, Ref(gram.start)>> \in L
  BY DEF Grounded, Parses
<1>6. Due(gram, Len(input), L, D, stack', ctl', mark(ctx'))
  BY <1>2, <1>3, <1>4, <1>5 DEF Due, Asked, Awaits
<1> QED
  BY <1>2, <1>6 DEF StaysSound

\* Whatever the step.
LEMMA StepSound ==
  ASSUME Steady, NEW L, NEW D, NEW N, NEW C, Guided(L, D, N, C), Sound(L, D),
         Answered(L, D), Chained(C), Step
  PROVE  StaysSound(L, D)
<1>1. Grounded(L, D)
  BY DEF Guided
<1>2. Inv /\ ~ IsCut(ctx) /\ ctl.mode # "throw"
  BY <1>1, SteadyFacts DEF Grounded
<1>3. ~ NonTerminalReenter
  BY NoReenter DEF NonTerminalReenter, Calling, SelfCalled
<1>4. ~ Unwind
  BY <1>2 DEF Unwind
<1>5. CASE LeafStep \/ SequenceStep
  BY <1>1, <1>2, <1>5, LeafSound, SequenceSound
<1>6. CASE AlternationStep \/ RepetitionStep
  BY <1>1, <1>2, <1>6, AlternationSound, RepetitionSound
<1>7. CASE WrapperStep \/ SkipperStep
  BY <1>1, <1>2, <1>7, WrapperSound, SkipperSound
<1>8. CASE NonTerminalStep \/ GrammarStep
  BY <1>1, <1>2, <1>3, <1>8, NonTerminalSound, GrammarSound
<1> QED
  BY <1>4, <1>5, <1>6, <1>7, <1>8 DEF Step

\* What a rule puts into the memo as it returns can be derived.
LEMMA AnsweredStep ==
  ASSUME Steady, NEW L, NEW D, Grounded(L, D), Sound(L, D), Answered(L, D),
         Step, StaysSound(L, D)
  PROVE  Answered(L, D)'
<1>0. /\ L \in SUBSET Situations /\ Parses(gram, L) /\ Inv /\ MirrorInv
      /\ Seeded /\ ~ IsCut(ctx) /\ ctl.mode # "throw"
  BY SteadyFacts DEF Grounded
<1>1. Inv' /\ UNCHANGED setup
  BY <1>0, StepShape, SetupKept DEF Next
<1>2. DOMAIN ctx'.m_mem = DOMAIN ctx.m_mem
  BY <1>0, MemoStep
<1> SUFFICES ASSUME NEW k \in DOMAIN ctx'.m_mem, Settled(ctx', k),
                    NEW s \in BOOLEAN, <<s, Ref(k[2])>> \in L
             PROVE  Derives(D, s, Ref(k[2]), k[1], ctx'.m_mem[k].m_last_pos,
                            ctx'.m_mem[k].m_cached_result.success)
  BY DEF Answered
<1>3. CASE Settled(ctx, k) /\ ctx'.m_mem[k] = ctx.m_mem[k]
  BY <1>2, <1>3 DEF Answered
<1>4. CASE /\ Answers /\ k = MyEntry
           /\ NonTerminalFailed => ctx'.m_mem[k].m_cached_result = Failed
           /\ NonTerminalRecovered =>
                /\ ctx'.m_mem[k].m_cached_result = Matched(nullptr)
                /\ ctx'.m_mem[k].m_last_pos = mark(ctx')
           /\ NonTerminalMatched =>
                /\ \E t \in Nat \ {nullptr} :
                     ctx'.m_mem[k].m_cached_result = Matched(t)
                /\ ctx'.m_mem[k].m_last_pos = Top.rs.m_last_pos
  <2> DEFINE n == Len(input)
             m == ModeOf(Len(stack))
             e == Top.e
             p == Top.start
             b == gram.body[ThisRule]
             c == mark(ctx)
             a == ctx'.m_mem[k]
  <2>1. stack # <<>> /\ Top.kind = "NonTerminal" /\ ctl.mode = "finish"
    BY <1>4 DEF Answers, NonTerminalFailed, NonTerminalRecovered,
                NonTerminalMatched, Finishing, At
  <2>2. k[1] = p /\ k[2] = ThisRule
    BY <1>4 DEF MyEntry
  <2>3. /\ m \in BOOLEAN /\ e = Ref(ThisRule) /\ <<~ m, e>> \notin L
        /\ NonTerminalRule(gram, input, m, e, p, D)
        /\ Derives(D, m, b, p, c, Top.best.success)
        /\ Top.best.success => c = Top.rs.m_last_pos
    BY <2>1, RuleHere
  <2>4. s = m
    <3> HIDE DEF m, e
    <3>1. <<s, e>> \in L
      BY <2>2, <2>3
    <3> QED
      BY <2>3, <3>1
  <2>5. Failed.success = FALSE /\ \A t : Matched(t).success = TRUE
    BY DEF Failed, Matched
  <2>6. c \in 0..n /\ ThisRule = e.rule /\ e = Ref(k[2]) /\ p = k[1]
    BY <1>0, <2>2, <2>3, Facts DEF ThisRule
  <2>7. CASE NonTerminalFailed
    <3>1. a.m_cached_result.success = FALSE
      BY <1>4, <2>5, <2>7
    <3>2. ~ Top.best.success /\ ThisRule \notin gram.recover
      BY <1>0, <2>7 DEF NonTerminalFailed, Finishing, Recovers
    <3>3. Fails(m, b, p) \in D
      BY <2>3, <3>2 DEF Derives
    <3>4. Fails(m, e, p) \in D
      <4> HIDE DEF m, e, p
      <4> QED
        BY <2>3, <2>6, <3>2, <3>3 DEF NonTerminalRule
    <3> QED
      BY <2>4, <2>6, <3>1, <3>4 DEF Derives
  <2>8. CASE NonTerminalMatched
    <3>1. a.m_cached_result.success = TRUE /\ a.m_last_pos = Top.rs.m_last_pos
      BY <1>4, <2>5, <2>8
    <3>2. Top.best.success
      BY <2>8 DEF NonTerminalMatched, Finishing
    <3>3. Matches(m, b, p, c) \in D /\ a.m_last_pos = c
      BY <2>3, <3>1, <3>2 DEF Derives
    <3>4. Matches(m, e, p, c) \in D
      <4> HIDE DEF m, e, p, c
      <4> QED
        BY <2>3, <2>6, <3>3 DEF NonTerminalRule
    <3> QED
      BY <2>4, <2>6, <3>1, <3>3, <3>4 DEF Derives
  <2>9. CASE NonTerminalRecovered
    <3> DEFINE d == Len(stack)
    <3>1. a.m_cached_result.success = TRUE /\ a.m_last_pos = mark(ctx')
      BY <1>4, <2>5, <2>9
    <3>2. Pop /\ Return(Matched(nullptr), p)
      BY <2>9 DEF NonTerminalRecovered
    <3>3. ctl'.mode = "return" /\ ctl'.at = p /\ ctl'.res.success = TRUE
      BY <1>0, <2>5, <3>2, Controls
    <3>4. /\ d \in 1..d /\ d - 1 \in Nat /\ d - 1 \in 0..(d - 1)
          /\ Len(stack') = d - 1
          /\ \A j \in 1..(d - 1) : stack'[j] = stack[j]
      BY <1>0, <2>1, <3>2, Innermost, FrontFacts, Facts DEF Pop, Front
    <3>5. Link(gram, n, L, D, stack, d) /\ Top = stack[d]
      BY <3>4 DEF Sound, Linked, Top
    <3>6. e = Asked(gram, stack, d - 1)
      BY <2>1, <3>5 DEF Link
    <3>7. Due(gram, n, L, D, stack', ctl', mark(ctx'))
      BY DEF StaysSound
    <3>8. m = AutoIn(gram, stack, d - 1)
      BY DEF ModeOf
    <3> HIDE DEF d, n, m, e, p
    <3>9. /\ AutoIn(gram, stack', d - 1) = m
          /\ Asked(gram, stack', d - 1) = e
      BY <3>4, <3>6, <3>8, Outer
    <3>10. Matches(m, e, p, mark(ctx')) \in D
      BY <3>3, <3>4, <3>7, <3>9 DEF Due, Derives
    <3> QED
      BY <2>4, <2>6, <3>1, <3>10 DEF Derives
  <2> QED
    BY <1>4, <2>7, <2>8, <2>9 DEF Answers
<1> QED
  BY <1>0, <1>3, <1>4, SettledStep

-----------------------------------------------------------------------------
(* The invariant, and what it means.                                       *)

\* Whatever the grammar needs of L, D, N and C, the calls, the memo and the
\* answers keep to D.
PackratInv ==
  \A L, D, N, C :
    Guided(L, D, N, C) => Sound(L, D) /\ Answered(L, D) /\ Chained(C)

\* A Context starts with an empty memo, and nothing is called yet.
LEMMA PackratInit == Init => PackratInv
<1> SUFFICES ASSUME Init, NEW L, NEW D, NEW C
             PROVE  Sound(L, D) /\ Answered(L, D) /\ Chained(C)
  BY DEF PackratInv
<1>1. /\ Inv /\ stack = <<>> /\ ctl.mode = "idle"
      /\ ctx = NewContext(Len(input))
  BY InitInv DEF Init
<1>2. Len(stack) = 0 /\ 1..Len(stack) = {}
  BY <1>1
<1>3. ~ \E k \in DOMAIN ctx.m_mem : Settled(ctx, k)
  <2> SUFFICES ASSUME NEW k \in DOMAIN ctx.m_mem, Settled(ctx, k)
               PROVE  FALSE
    OBVIOUS
  <2>1. k \in (0..Len(input)) \X Rules
    BY <1>1, Keys
  <2>2. k = <<k[1], k[2]>>
    BY <2>1
  <2>3. ctx.m_mem[k] = Absent
    BY <1>1, <2>1 DEF NewContext
  <2> QED
    BY <2>2, <2>3 DEF Settled, HasMemo
<1> QED
  BY <1>1, <1>2, <1>3 DEF Sound, Linked, DueNow, Due, Answered, Chained

\* PackratInv is inductive, given the invariants of Steady.
LEMMA PackratNext ==
  Steady /\ Steady' /\ PackratInv /\ [Next]_vars => PackratInv'
<1> SUFFICES ASSUME Steady, Steady', PackratInv, [Next]_vars,
                    NEW L, NEW D, NEW N, NEW C, Guided(L, D, N, C)'
             PROVE  Sound(L, D)' /\ Answered(L, D)' /\ Chained(C)'
  BY DEF PackratInv
<1>1. gram' = gram /\ input' = input
  BY SetupKept DEF setup
<1>2. Guided(L, D, N, C)
  BY <1>1 DEF Guided, Grounded
<1>3. Sound(L, D) /\ Answered(L, D) /\ Chained(C)
  BY <1>2 DEF PackratInv
<1>4. Inv /\ Inv'
  BY DEF Steady, RunInv
<1>5. CASE Step
  <2>1. StaysSound(L, D)
    BY <1>2, <1>3, <1>5, StepSound
  <2>2. Sound(L, D)'
    BY <1>1, <2>1 DEF StaysSound, Sound, Linked, DueNow
  <2>3. Answered(L, D)'
    BY <1>2, <1>3, <1>5, <2>1, AnsweredStep DEF Guided
  <2>4. Shaped /\ UNCHANGED setup
    BY <1>4, <1>5, StepShape, SetupKept
  <2>5. Chained(C)'
    BY <1>2, <1>3, <1>4, <2>1, <2>4, ChainedStep DEF Sound
  <2> QED
    BY <2>2, <2>3, <2>5
<1>6. CASE UNCHANGED vars
  BY <1>3, <1>6
  DEF vars, Sound, Linked, DueNow, Answered, Chained, Settled, ModeOf
<1> QED
  BY <1>5, <1>6 DEF Next, Terminated

\* All of it holds of every reachable state.
LEMMA PackratHolds == Spec => [](Steady /\ PackratInv)
<1>1. Inv /\ RunInv /\ SeedInv /\ TreeInv => Steady
  BY DEF Steady
<1>2. RunInv => Inv
  BY DEF RunInv
<1> QED
  BY <1>1, <1>2, PackratInit, PackratNext, RunInvHolds, SeedInit, SeedNext,
     TreeInit, TreeNext, PTL DEF Spec

\* What parse() returns to its caller, and what the memo keeps, follows from
\* the inference rules: for all D that are closed under them, thus for the
\* least, the judgements that have a derivation.
AnswersDerived ==
  \A L \in SUBSET Situations : \A D :
    /\ Parses(gram, L) /\ NotLeftRecursive(gram, L)
    /\ InferenceClosed(gram, input, L, D)
    => /\ ctl.mode = "return" =>
            Derives(D, ModeHere, Asked(gram, stack, Len(stack)), ctl.at,
                    mark(ctx), ctl.res.success)
       /\ Answered(L, D)

\* Without left recursion no rule is.
NoSelfCalls ==
  \A L \in SUBSET Situations :
    Parses(gram, L) /\ NotLeftRecursive(gram, L) => ~ SelfCalled

\* The judgements of D that go forward are guided.
LEMMA Guides ==
  ASSUME Inv, NEW L \in SUBSET Situations, NEW D, NEW N, NEW C,
         Parses(gram, L), HoldsEmpty(gram, L, N), HoldsLeftCalls(gram, L, N, C),
         \A x \in L : x[2].op = "NonTerminal" => <<x, x>> \notin C,
         InferenceClosed(gram, input, L, D)
  PROVE  Guided(L, Advancing(N, D), N, C)
<1>1. InferenceClosed(gram, input, L, Advancing(N, D))
  BY Facts, AdvancingClosed
<1>2. \A j \in Advancing(N, D) : Advances(N, j)
  BY DEF Advancing
<1> QED
  BY <1>1, <1>2 DEF Guided, Grounded

\* Some judgements are closed under the rules: all of them are.
LEMMA SomeClosed ==
  ASSUME Inv, NEW L \in SUBSET Situations, Parses(gram, L)
  PROVE  \E D : InferenceClosed(gram, input, L, D)
<1> DEFINE n == Len(input)
           D == {"match", "fail", "got"} \X BOOLEAN \X Exprs \X Nat
                  \X (0..n) \X (0..n)
<1>1. /\ \A s \in BOOLEAN, e \in Exprs, p \in 0..n, q \in 0..n :
           Matches(s, e, p, q) \in D
      /\ \A s \in BOOLEAN, e \in Exprs, p \in 0..n : Fails(s, e, p) \in D
      /\ \A s \in BOOLEAN, e \in Exprs, i \in Nat, p \in 0..n, q \in 0..n :
           Got(s, e, i, p, q) \in D
  BY DEF Matches, Fails, Got
<1> HIDE DEF D
<1>2. n \in Nat
  BY Facts
<1>3. ASSUME NEW x \in L, NEW p \in 0..n
      PROVE  LET s == x[1]
                 e == x[2]
             IN  /\ e.op \in {"Terminal", "Token", "TerminalSeq", "Matcher"} =>
                      LiteralRule(input, s, e, p, D)
                 /\ e.op = "Empty" => Matches(s, e, p, p) \in D
                 /\ e.op = "Sequence" => SequenceRule(gram, input, s, e, p, D)
                 /\ e.op = "Alternation" => AlternationRule(input, s, e, p, D)
                 /\ e.op = "Repetition" => RepetitionRule(gram, input, s, e, p, D)
                 /\ e.op \in {"Not", "And"} => PredicateRule(input, s, e, p, D)
                 /\ e.op = "Lexeme" => LexemeRule(input, s, e, p, D)
                 /\ e.op = "NonTerminal" => NonTerminalRule(gram, input, s, e, p, D)
  <2> DEFINE s == x[1]
             e == x[2]
  <2>1. s \in BOOLEAN /\ e \in Exprs /\ ExprOK(e) /\ Len(e.kids) \in Nat
    BY SituationFacts
  <2> HIDE DEF s, e
  <2>2. /\ \A q \in 0..n : Matches(s, e, p, q) \in D
        /\ Fails(s, e, p) \in D /\ p \in 0..n
        /\ \A i \in Nat, q \in 0..n : Got(s, e, i, p, q) \in D
    BY <1>1, <2>1
  <2>3. \A ok : \A q \in 0..n : Derives(D, s, e, p, q, ok)
    BY <2>2 DEF Derives
  <2>4. e.op \in {"Terminal", "Token", "TerminalSeq", "Matcher"} =>
          LiteralRule(input, s, e, p, D)
    <3>1. e.sym \in Seq(SUBSET Chars)
      BY <2>1 DEF ExprOK
    <3>2. LiteralAt(input, e.sym, p) => p + Len(e.sym) \in 0..n
      BY <1>2, <3>1 DEF LiteralAt
    <3> QED
      BY <2>2, <3>2 DEF LiteralRule, Derives
  <2>10. /\ \A i \in 0..(Len(e.kids) - 1) : i + 1 \in Nat
         /\ 0 \in Nat /\ Len(e.kids) \in Nat
    BY <2>1
  <2>5. SequenceRule(gram, input, s, e, p, D)
    BY <2>2, <2>10 DEF SequenceRule
  <2>6. AlternationRule(input, s, e, p, D)
    BY <2>2, <2>10 DEF AlternationRule
  <2>7. RepetitionRule(gram, input, s, e, p, D)
    <3>1. Iterates(gram, input, s, e, p, D)
      BY <2>2, <2>3 DEF Iterates
    <3> QED
      BY <3>1, RepetitionIterates
  <2>8. PredicateRule(input, s, e, p, D) /\ LexemeRule(input, s, e, p, D)
    BY <2>2, <2>3 DEF PredicateRule, LexemeRule
  <2>9. NonTerminalRule(gram, input, s, e, p, D)
    BY <1>2, <2>2 DEF NonTerminalRule
  <2> QED
    BY <2>2, <2>4, <2>5, <2>6, <2>7, <2>8, <2>9 DEF s, e
<1>4. InferenceClosed(gram, input, L, D)
  BY <1>3 DEF InferenceClosed
<1> QED
  BY <1>4

\* Grammar::parse and every parse() it makes give the answer the inference rules
\* give, and so does every entry of the memo, in every grammar without cuts and
\* left recursion whose rules are each parsed in one mode: packrat memo, shared
\* cursor, grow loop, recovery and earlier parses on the same Context included.
THEOREM AnswersSound == Spec => []AnswersDerived
<1>1. Steady /\ PackratInv => AnswersDerived
  <2> SUFFICES ASSUME Steady, PackratInv, NEW L \in SUBSET Situations, NEW D,
                      Parses(gram, L), NotLeftRecursive(gram, L),
                      InferenceClosed(gram, input, L, D)
               PROVE  /\ ctl.mode = "return" =>
                           Derives(D, ModeHere, Asked(gram, stack, Len(stack)),
                                   ctl.at, mark(ctx), ctl.res.success)
                      /\ Answered(L, D)
    BY DEF AnswersDerived
  <2>1. Inv
    BY DEF Steady, RunInv
  <2>2. PICK N \in SUBSET L, C \in SUBSET (L \X L) :
          /\ HoldsEmpty(gram, L, N)
          /\ HoldsLeftCalls(gram, L, N, C)
          /\ \A x \in L : x[2].op = "NonTerminal" => <<x, x>> \notin C
    BY DEF NotLeftRecursive
  <2> DEFINE E == Advancing(N, D)
  <2>3. Guided(L, E, N, C)
    BY <2>1, <2>2, Guides
  <2>4. \A s, e, p, q, ok : Derives(E, s, e, p, q, ok) => Derives(D, s, e, p, q, ok)
    BY DEF Advancing, Derives
  <2> HIDE DEF E
  <2>5. Sound(L, E) /\ Answered(L, E)
    BY <2>3 DEF PackratInv
  <2>6. Answered(L, D)
    BY <2>4, <2>5 DEF Answered
  <2>7. ctl.mode = "return" =>
          Derives(E, ModeHere, Asked(gram, stack, Len(stack)), ctl.at,
                  mark(ctx), ctl.res.success)
    BY <2>5 DEF Sound, DueNow, Due, ModeHere
  <2> QED
    BY <2>4, <2>6, <2>7
<1> QED
  BY <1>1, PackratHolds, PTL

\* Where the grammar has no left recursion, the engine sees none: no rule is
\* called at a position where it is in progress, so that lr_in_progress never
\* answers with a seed, also under a memo, a skipper and recoveries.
THEOREM SelfCallsAbsent == Spec => []NoSelfCalls
<1>1. Steady /\ PackratInv => NoSelfCalls
  <2> SUFFICES ASSUME Steady, PackratInv, NEW L \in SUBSET Situations,
                      Parses(gram, L), NotLeftRecursive(gram, L)
               PROVE  ~ SelfCalled
    BY DEF NoSelfCalls
  <2>1. Inv
    BY DEF Steady, RunInv
  <2>2. PICK N \in SUBSET L, C \in SUBSET (L \X L) :
          /\ HoldsEmpty(gram, L, N)
          /\ HoldsLeftCalls(gram, L, N, C)
          /\ \A x \in L : x[2].op = "NonTerminal" => <<x, x>> \notin C
    BY DEF NotLeftRecursive
  <2>3. PICK D : InferenceClosed(gram, input, L, D)
    BY <2>1, SomeClosed
  <2>4. Guided(L, Advancing(N, D), N, C)
    BY <2>1, <2>2, <2>3, Guides
  <2>5. Sound(L, Advancing(N, D)) /\ Chained(C)
    BY <2>4 DEF PackratInv
  <2> QED
    BY <2>4, <2>5, NoReenter
<1> QED
  BY <1>1, PackratHolds, PTL

-----------------------------------------------------------------------------
(* A rule's body is run twice at a position at most.                       *)

\* No rule in progress is the head of a left recursion.
NoHeads == \A k \in 1..Len(ctx.m_lr_stack) : ~ ctx.m_lr_stack[k].is_head

\* The frames of the LR stack stay as they are but where a rule writes.
LEMMA LrKept ==
  ASSUME Inv, Step, ~ NonTerminalStep
  PROVE  ctx'.m_lr_stack = ctx.m_lr_stack
<1>1. Len(input) \in Nat /\ ctx \in Contexts(Len(input))
  BY Facts DEF ContextOK
<1>2. \A F : Writes(ctx, ctx', F) /\ "m_lr_stack" \notin F =>
               ctx'.m_lr_stack = ctx.m_lr_stack
  BY <1>1, Unwritten
<1>3. /\ "m_lr_stack" \notin ErrorFields /\ "m_lr_stack" \notin EvalFields
      /\ "m_lr_stack" \notin {"m_diagnostics"} /\ "m_lr_stack" \notin {"m_skipper"}
      /\ "m_lr_stack" \notin {"m_skip_enabled"}
  BY DEF ErrorFields, EvalFields
<1>4. CASE GrammarStep
  BY <1>2, <1>3, <1>4, GrammarWrites
<1>5. CASE Skips
  BY <1>2, <1>3, <1>5, SkipWrites
<1>6. CASE SingleFail \/ TerminalSeqFail
  BY <1>2, <1>3, <1>6, TerminalWrites
<1>7. CASE /\ ~ GrammarStep /\ ~ Skips /\ ~ (SingleFail \/ TerminalSeqFail)
  BY <1>2, <1>3, <1>7, EvalWrites DEF Step
<1> QED
  BY <1>4, <1>5, <1>6, <1>7

\* A frame becomes a head only as its rule is called again where it is in
\* progress.
LEMMA HeadsStep ==
  ASSUME Inv, Step, ~ NonTerminalReenter, NoHeads
  PROVE  NoHeads'
<1> DEFINE l == ctx.m_lr_stack
           m == ctx'.m_lr_stack
<1>1. /\ Len(input) \in Nat /\ ctx \in Contexts(Len(input)) /\ Inv'
      /\ l \in Seq(LRFrames(Len(input))) /\ Len(l) \in Nat
  BY Facts, StepShape DEF ContextOK
<1>2. \A F : Writes(ctx, ctx', F) /\ "m_lr_stack" \notin F => m = l
  BY <1>1, Unwritten
<1>3. m = l => NoHeads'
  BY DEF NoHeads
<1>4. CASE ~ NonTerminalStep
  BY <1>3, <1>4, LrKept
<1>5. CASE Answers
  <2>1. m = SubSeq(l, 1, Top.lr - 1) /\ Top.lr \in 1..Len(l)
    BY <1>5, AnswerLeaves, RuleTop
  <2>2. Len(m) = Top.lr - 1 /\ \A k \in 1..Len(m) : k \in 1..Len(l) /\ m[k] = l[k]
    BY <1>1, <2>1
  <2> QED
    BY <2>2 DEF NoHeads
<1>6. CASE NonTerminalMemoHit \/ NonTerminalBodyFailed
  <2>1. \E x : ctx' = reset(ctx, x)
    BY <1>6 DEF NonTerminalMemoHit, NonTerminalBodyFailed
  <2>2. m = l
    BY <1>1, <2>1 DEF reset, Contexts
  <2> QED
    BY <1>3, <2>2
<1>7. CASE NonTerminalFixedPoint
  <2> DEFINE F == {"m_position", "m_mem"}
  <2>1. "m_position" \in F /\ "m_mem" \in F /\ "m_lr_stack" \notin F
    OBVIOUS
  <2>2. \E x, y, z, w : ctx' = reset(update_rule_state(ctx, x, y, z), w)
    BY <1>7 DEF NonTerminalFixedPoint
  <2> HIDE DEF F
  <2>3. \A x, y, z : Writes(ctx, update_rule_state(ctx, x, y, z), F)
    BY <2>1, Footprints
  <2>4. \A d, w : Writes(ctx, d, F) => Writes(ctx, reset(d, w), F)
    BY <2>1, Footprints, WritesTrans
  <2> QED
    BY <1>2, <1>3, <2>1, <2>2, <2>3, <2>4
<1>8. CASE NonTerminalEnter
  <2> DEFINE r == ctl.e.rule
             p == mark(ctx)
             f == [NewFrame("NonTerminal", ctl.e)
                     EXCEPT !.lr = Len(ctx.m_lr_stack) + 1]
             x == [rule |-> r, pos |-> p, last_pos |-> p, is_head |-> FALSE]
             b == rule_state(ctx, r, p)
             c == lr_push(b, x)
  <2>1. ctx' = update_rule_state(c, r, p, f.rs)
    BY <1>8 DEF NonTerminalEnter
  <2>2. Plain(ctx, b) /\ Plain(c, ctx')
    BY <2>1, PlainMethods
  <2>3. DOMAIN b = DOMAIN ctx /\ b.m_lr_stack = l
    BY <1>1, <2>2, PlainKeeps DEF Plain, Writes
  <2>4. ~ x.is_head
    OBVIOUS
  <2> HIDE DEF b, f, x
  <2>5. DOMAIN c = DOMAIN ctx /\ c.m_lr_stack = Append(l, x)
    BY <1>1, <2>3 DEF lr_push, Contexts
  <2> HIDE DEF c
  <2>6. m = Append(l, x)
    BY <1>1, <2>2, <2>5 DEF Plain, Writes, PlainFields, Contexts
  <2>7. /\ Len(m) = Len(l) + 1 /\ m[Len(l) + 1] = x
        /\ \A k \in 1..Len(l) : m[k] = l[k]
    BY <1>1, <2>6
  <2>8. \A k \in 1..Len(m) : k \in 1..Len(l) \/ k = Len(l) + 1
    BY <1>1, <2>7
  <2> QED
    BY <2>4, <2>7, <2>8 DEF NoHeads
<1>9. CASE NonTerminalGrow
  <2> DEFINE rs == [m_last_pos |-> mark(ctx), m_cached_result |-> ctl.res]
             b == [ctx EXCEPT !.m_lr_stack[Top.lr].last_pos = mark(ctx)]
             c == update_rule_state(b, ThisRule, Top.start, rs)
             F == {"m_position", "m_mem"}
  <2>1. /\ stack # <<>> /\ Top.kind = "NonTerminal"
        /\ \/ ctx' = reset(c, mark(ctx))
           \/ ctx' = reset(c, Top.start)
           \/ ctx' = reset(clear_siblings_at(c, Top.start, ThisRule), Top.start)
    BY <1>9 DEF NonTerminalGrow, ReturnedTo, At
  <2>2. Top.lr \in 1..Len(l) /\ l[Top.lr] \in LRFrames(Len(input))
    BY <1>1, <2>1, RuleTop
  <2>3. /\ DOMAIN b = DOMAIN ctx
        /\ b.m_lr_stack = [l EXCEPT ![Top.lr].last_pos = mark(ctx)]
    BY <1>1 DEF Contexts
  <2>4. /\ Len(b.m_lr_stack) = Len(l)
        /\ \A k \in 1..Len(l) : b.m_lr_stack[k].is_head = l[k].is_head
    <3> DEFINE y == [l[Top.lr] EXCEPT !.last_pos = mark(ctx)]
    <3>1. y.is_head = l[Top.lr].is_head
      BY <2>2 DEF LRFrames
    <3>2. b.m_lr_stack = [l EXCEPT ![Top.lr] = y]
      BY <2>3
    <3> HIDE DEF y, b
    <3>3. Len(b.m_lr_stack) = Len(l)
      BY <1>1, <3>2
    <3>4. \A k \in 1..Len(l) : b.m_lr_stack[k] = IF k = Top.lr THEN y ELSE l[k]
      BY <1>1, <2>2, <3>2
    <3> QED
      BY <3>1, <3>3, <3>4
  <2>5. "m_position" \in F /\ "m_mem" \in F /\ "m_lr_stack" \notin F
    OBVIOUS
  <2> HIDE DEF b, rs, F
  <2>6. Writes(b, c, F)
    BY <2>5, Footprints
  <2> HIDE DEF c
  <2>7. /\ \A d, w : Writes(b, d, F) => Writes(b, reset(d, w), F)
        /\ \A w, y : Writes(b, clear_siblings_at(c, w, y), F)
    BY <2>5, <2>6, Footprints, WritesTrans
  <2>8. Writes(b, ctx', F)
    BY <2>1, <2>6, <2>7
  <2>9. m = b.m_lr_stack
    BY <1>1, <2>3, <2>5, <2>8 DEF Writes, Contexts
  <2> QED
    BY <2>4, <2>9 DEF NoHeads
<1> QED
  BY <1>4, <1>5, <1>6, <1>7, <1>8, <1>9 DEF NonTerminalStep, Answers

\* A grammar without left recursion never has a head.
HeadsInv ==
  \A L \in SUBSET Situations :
    Parses(gram, L) /\ NotLeftRecursive(gram, L) => NoHeads

LEMMA HeadsNext ==
  Steady /\ Steady' /\ NoSelfCalls /\ HeadsInv /\ [Next]_vars => HeadsInv'
<1> SUFFICES ASSUME Steady, NoSelfCalls, HeadsInv, [Next]_vars,
                    NEW L \in SUBSET Situations,
                    (Parses(gram, L) /\ NotLeftRecursive(gram, L))'
             PROVE  NoHeads'
  BY DEF HeadsInv
<1>1. gram' = gram
  BY SetupKept DEF setup
<1>2. Parses(gram, L) /\ NotLeftRecursive(gram, L)
  BY <1>1
<1>3. Inv /\ NoHeads /\ ~ SelfCalled
  BY <1>2 DEF Steady, RunInv, HeadsInv, NoSelfCalls
<1>4. CASE Step
  BY <1>3, <1>4, HeadsStep DEF NonTerminalReenter, Calling, SelfCalled
<1>5. CASE UNCHANGED vars
  BY <1>3, <1>5 DEF vars, NoHeads
<1> QED
  BY <1>4, <1>5 DEF Next, Terminated

\* Nothing leaves the memo then, and answers stay.
LEMMA NothingLeaves ==
  ASSUME Inv, MirrorInv, Seeded, ~ IsCut(ctx), NoHeads, Step,
         NEW k \in DOMAIN ctx.m_mem, ctx.m_mem[k] # Absent
  PROVE  ctx'.m_mem[k] # Absent
<1> SUFFICES ASSUME ctx'.m_mem[k] = Absent PROVE FALSE
  OBVIOUS
<1>1. CASE ~ Memoises
  BY <1>1, MemoUntouched, ScopeForgets
<1>2. CASE NonTerminalEnter
  <2>1. PICK x \in RuleStates(Len(input)) : Assigns(<<mark(ctx), ctl.e.rule>>, x)
    BY <1>2, RuleEnters
  <2>2. Absent \notin RuleStates(Len(input))
    BY Facts
  <2> QED
    BY <2>1, <2>2 DEF Assigns
<1>3. CASE Memoises /\ ~ NonTerminalEnter
  <2>1. /\ stack # <<>> /\ Top.kind = "NonTerminal"
        /\ ctl.mode \in {"return", "finish"}
    BY <1>3
    DEF Memoises, NonTerminalGrow, NonTerminalFixedPoint, NonTerminalFailed,
        NonTerminalRecovered, NonTerminalMatched, ReturnedTo, Finishing, At
  <2>2. HasMemo(ctx, ThisRule, Top.start) /\ Top.lr \in 1..Len(ctx.m_lr_stack)
    BY <2>1, MineLast, RuleTop
  <2>3. ~ MyLR.is_head
    BY <2>2 DEF NoHeads, MyLR
  <2>4. CASE NonTerminalGrow
    BY <2>2, <2>3, <2>4, RuleGrows
  <2>5. CASE ~ NonTerminalGrow
    <3>1. PICK x \in RuleStates(Len(input)) : Updates(x)
      BY <1>3, <2>5, RuleUpdates DEF Memoises
    <3>2. Assigns(MyEntry, x)
      BY <2>1, <2>2, <3>1, UpdateStores
    <3>3. Absent \notin RuleStates(Len(input))
      BY Facts
    <3> QED
      BY <3>1, <3>2, <3>3 DEF Assigns
  <2> QED
    BY <2>4, <2>5
<1> QED
  BY <1>1, <1>2, <1>3

\* An entry of the memo, once made, is there for good, and an answer the same.
Remembers ==
  \A L \in SUBSET Situations :
    Parses(gram, L) /\ NotLeftRecursive(gram, L) =>
      \A k \in DOMAIN ctx.m_mem :
        /\ ctx.m_mem[k] # Absent => ctx'.m_mem[k] # Absent
        /\ Settled(ctx, k) => ctx'.m_mem[k] = ctx.m_mem[k]

\* "Packrat memoization for linear-time parsing": without cuts and left
\* recursion nothing that was parsed is forgotten, however often the parse
\* backtracks, recovers or is started again, and parse() runs the body of a rule
\* only where the memo has no entry for it.
THEOREM NothingForgotten == Spec => [][Remembers]_vars
<1>1. Inv /\ RunInv /\ SeedInv /\ TreeInv => Steady
  BY DEF Steady
<1>2. RunInv => Inv
  BY DEF RunInv
<1>3. Init => HeadsInv
  <2>1. ASSUME Init PROVE Len(ctx.m_lr_stack) = 0
    BY <2>1 DEF Init, NewContext
  <2> QED
    BY <2>1 DEF HeadsInv, NoHeads
<1>4. Steady /\ HeadsInv /\ [KeepsAnswers]_vars /\ [Next]_vars => [Remembers]_vars
  <2> SUFFICES ASSUME Steady, HeadsInv, KeepsAnswers, Step,
                      NEW L \in SUBSET Situations,
                      Parses(gram, L), NotLeftRecursive(gram, L),
                      NEW k \in DOMAIN ctx.m_mem
               PROVE  /\ ctx.m_mem[k] # Absent => ctx'.m_mem[k] # Absent
                      /\ Settled(ctx, k) => ctx'.m_mem[k] = ctx.m_mem[k]
    BY DEF Next, Terminated, vars, Remembers
  <2>1. Inv /\ MirrorInv /\ Seeded /\ ~ IsCut(ctx) /\ NoHeads
    BY SteadyFacts DEF HeadsInv
  <2>2. ctx.m_mem[k] # Absent => ctx'.m_mem[k] # Absent
    BY <2>1, NothingLeaves
  <2>3. Settled(ctx, k) => ctx'.m_mem[k] = ctx.m_mem[k]
    BY <2>1 DEF KeepsAnswers, NoHeads
  <2> QED
    BY <2>2, <2>3
<1> QED
  BY <1>1, <1>2, <1>3, <1>4, HeadsNext, RunInvHolds, SeedInit, SeedNext,
     TreeInit, TreeNext, SelfCallsAbsent, AnswersStay, PTL
  DEF Spec, AnswersKept

\* D has one outcome for an expression at a position.
Deterministic(D) ==
  \A s, e, p, q :
    Matches(s, e, p, q) \in D =>
      Fails(s, e, p) \notin D /\ \A r : Matches(s, e, p, r) \in D => r = q

\* Where the body of a rule has matched, its next run matches the same.
RunsAgree ==
  \A L \in SUBSET Situations : \A D :
    /\ Parses(gram, L) /\ NotLeftRecursive(gram, L)
    /\ InferenceClosed(gram, input, L, D) /\ Deterministic(D)
    => (At("return", "NonTerminal") /\ Top.best.success =>
          ctl.res.success /\ mark(ctx) = MyLR.last_pos)

\* "For an ordinary rule the first iteration matches and the second makes no
\* progress (and breaks)": also with a memo, a skipper and recoveries between
\* the two, wherever the rules determine what an expression matches.  With
\* NothingForgotten, a body is run twice at a position at most, by all parses on
\* a Context together.
THEOREM SecondRunAgrees == Spec => []RunsAgree
<1>1. Steady /\ PackratInv => RunsAgree
  <2> SUFFICES ASSUME Steady, PackratInv, NEW L \in SUBSET Situations, NEW D,
                      Parses(gram, L), NotLeftRecursive(gram, L),
                      InferenceClosed(gram, input, L, D), Deterministic(D),
                      At("return", "NonTerminal"), Top.best.success
               PROVE  ctl.res.success /\ mark(ctx) = MyLR.last_pos
    BY DEF RunsAgree
  <2>1. Inv
    BY DEF Steady, RunInv
  <2>2. PICK N \in SUBSET L, C \in SUBSET (L \X L) :
          /\ HoldsEmpty(gram, L, N)
          /\ HoldsLeftCalls(gram, L, N, C)
          /\ \A x \in L : x[2].op = "NonTerminal" => <<x, x>> \notin C
    BY DEF NotLeftRecursive
  <2> DEFINE E == Advancing(N, D)
             s == ModeOf(Len(stack))
             b == gram.body[ThisRule]
             p == Top.start
  <2>3. Guided(L, E, N, C)
    BY <2>1, <2>2, Guides
  <2>4. E \subseteq D
    BY DEF Advancing
  <2> HIDE DEF E
  <2>5. Sound(L, E) /\ Grounded(L, E)
    BY <2>3 DEF PackratInv, Guided
  <2>6. /\ Matches(s, b, p, MyLR.last_pos) \in E
        /\ Derives(E, s, b, p, mark(ctx), ctl.res.success)
    BY <2>5, RuleHere DEF At
  <2> HIDE DEF s, b, p
  <2>7. IF ctl.res.success THEN Matches(s, b, p, mark(ctx)) \in D
        ELSE Fails(s, b, p) \in D
    BY <2>4, <2>6 DEF Derives
  <2>8. Matches(s, b, p, MyLR.last_pos) \in D
    BY <2>4, <2>6
  <2> QED
    BY <2>7, <2>8 DEF Deterministic
<1> QED
  BY <1>1, PackratHolds, PTL

=============================================================================
