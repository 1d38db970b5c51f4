---------------------------- MODULE PegSemantics ----------------------------
(***************************************************************************)
(* What a parse means, without a memo: the documented behaviour of every   *)
(* expression as a recursive function of the grammar, the input and a      *)
(* position.  It is the reference PegMachine's answers are compared with.  *)
(*                                                                         *)
(* A situation s is [pos, cut, scoped, skip]: the position, the cut flag   *)
(* of the innermost scope, whether any scope is open and the auto-skip     *)
(* flag.  A verdict is [k, pos, cut, val, alias, rules]: matched up to     *)
(* pos, failed (at s.pos) or thrown; the scope's flag afterwards; and of a *)
(* match, its typed value (PegTypes), whether it is nothing but another    *)
(* rule's match, and the rules matched in it, in pre-order.                *)
(*                                                                         *)
(* seeds maps the <<position, rule>> of the rules being grown to the match *)
(* found so far: left recursion is the limit of growing from failure, with *)
(* every other rule evaluated afresh each time.                            *)
(***************************************************************************)
EXTENDS PegTypes, PegDerivations

Ok(pos, flag) ==
  [k |-> "ok", pos |-> pos, cut |-> flag,
   val |-> VoidValue, alias |-> FALSE, rules |-> <<>>]
Fail(s, flag) == [Ok(s.pos, flag) EXCEPT !.k = "fail"]
Throw(s) == [Ok(s.pos, s.cut) EXCEPT !.k = "throw"]
OpenScope(s) == [s EXCEPT !.cut = FALSE, !.scoped = TRUE]
After(s, v) == [s EXCEPT !.pos = v.pos, !.cut = v.cut]

\* The position after the first sync token of r at or after pos, or the end.
SyncPoint(g, in, r, pos) ==
  LET stops == {p \in pos + 1..Len(in) : in[p] \in g.sync[r]}
  IN  CHOOSE p \in stops \cup {Len(in)} :
        \A q \in stops \cup {Len(in)} : p <= q

RECURSIVE Meaning(_, _, _, _, _)
RECURSIVE SequenceFrom(_, _, _, _, _, _)
RECURSIVE ChoiceFrom(_, _, _, _, _, _)
RECURSIVE RepeatFrom(_, _, _, _, _, _)
RECURSIVE GrowFrom(_, _, _, _, _)

\* The skipper between two children: one rule, itself without auto-skip,
\* whose failure is no failure.
Skipped(g, in, s, seeds) ==
  IF s.skip /\ g.skipper # NoRule
  THEN Meaning(g, in, Ref(g.skipper), [s EXCEPT !.skip = FALSE], seeds)
  ELSE Ok(s.pos, s.cut)

\* The end of a series of matches, whose val is the list of their values,
\* and a match before such a series.
Done(pos, flag) == [Ok(pos, flag) EXCEPT !.val = <<>>]
Before(v, rest) ==
  [rest EXCEPT !.val = <<v.val>> \o @, !.rules = v.rules \o @]

\* "Matches child expressions in order; all must succeed."
SequenceFrom(g, in, kids, i, s, seeds) ==
  IF i > Len(kids) THEN Done(s.pos, s.cut)
  ELSE LET ws == IF i > 1 THEN Skipped(g, in, s, seeds) ELSE Ok(s.pos, s.cut)
           t  == After(s, ws)
           v  == Meaning(g, in, kids[i], t, seeds)
       IN  IF ws.k = "throw" THEN ws
           ELSE IF v.k = "ok"
           THEN Before(v, SequenceFrom(g, in, kids, i + 1, After(t, v), seeds))
           ELSE v

\* "Tries each alternative in order; first success wins. Cut-committed
\* failure throws."  s.cut is the flag of the choice's own scope.
ChoiceFrom(g, in, kids, i, s, seeds) ==
  IF i > Len(kids) THEN Fail(s, s.cut)
  ELSE LET v == Meaning(g, in, kids[i], s, seeds)
       IN  IF v.k # "fail" THEN v
           ELSE IF v.cut THEN Throw(s)
           ELSE ChoiceFrom(g, in, kids, i + 1, s, seeds)

\* "Matches a child between min_rep and max_rep times"; an unbounded
\* repetition rethrows a committed failure, a bounded one stops at it.
\* n iterations have matched up to s.pos.
RepeatFrom(g, in, e, n, s, seeds) ==
  IF e.max_rep >= 0 /\ n >= e.max_rep THEN Done(s.pos, s.cut)
  ELSE LET ws == IF n > 0 THEN Skipped(g, in, s, seeds) ELSE Ok(s.pos, s.cut)
           t  == [s EXCEPT !.pos = ws.pos, !.cut = FALSE]
           v  == Meaning(g, in, e.kids[1], t, seeds)
       IN  CASE ws.k = "throw" -> ws
             [] ws.k # "throw" /\ v.k = "throw" -> v
             [] ws.k # "throw" /\ v.k = "ok" ->
                  Before(v, IF v.pos = t.pos THEN Done(v.pos, v.cut)
                            ELSE RepeatFrom(g, in, e, n + 1, After(t, v), seeds))
             [] ws.k # "throw" /\ v.k = "fail" ->
                  IF e.max_rep < 0 /\ v.cut THEN Throw(s)
                  ELSE IF n >= e.min_rep THEN Done(s.pos, v.cut)
                  ELSE Fail(s, v.cut)

\* What a repetition's values make: nothing, an optional or a vector.
RepeatValue(e, vs) ==
  IF IsVoid(e) THEN VoidValue
  ELSE IF ~ IsOptional(e) THEN VectorValue(vs)
  ELSE IF vs = <<>> \/ vs = <<NoTree>> THEN None
  ELSE Some(vs[1])

\* Rule r matched its body from pos on as v.  Without an action its value is
\* that of the rule it is an alias of, if it is one.
RuleMatch(g, r, pos, v) ==
  [v EXCEPT
     !.val = CASE r \in g.folds ->
                    ActionCall(r, pos, v.pos, Arguments(g.body[r], v.val))
               [] r \notin g.folds /\ v.alias -> v.val
               [] r \notin g.folds /\ ~ v.alias -> DefaultNode,
     !.alias = TRUE,
     !.rules = <<<<r, pos, v.pos>>>> \o v.rules]

\* Rule r at s.pos, having matched seed so far.
GrowFrom(g, in, r, s, seeds) ==
  LET key  == <<s.pos, r>>
      seed == seeds[key]
      v    == Meaning(g, in, g.body[r], s, seeds)
  IN  CASE v.k = "throw" -> v
        [] v.k = "ok" /\ v.pos > seed.pos ->
             GrowFrom(g, in, r, [s EXCEPT !.cut = v.cut],
                      [seeds EXCEPT ![key] = RuleMatch(g, r, s.pos, v)])
        [] v.k = "ok" /\ v.pos <= seed.pos ->
             IF seed.k = "ok" THEN [seed EXCEPT !.cut = v.cut]
             ELSE RuleMatch(g, r, s.pos, v)
        [] v.k = "fail" ->
             IF seed.k = "ok" THEN [seed EXCEPT !.cut = v.cut]
             ELSE IF r \in g.recover /\ ~ v.cut
             THEN [Ok(SyncPoint(g, in, r, s.pos), v.cut) EXCEPT !.val = NoTree]
             ELSE Fail(s, v.cut)

Meaning(g, in, e, s, seeds) ==
  CASE e.op \in {"Terminal", "Token", "TerminalSeq", "Matcher"} ->
         IF ~ LiteralAt(in, e.sym, s.pos) THEN Fail(s, s.cut)
         ELSE IF e.op = "Token"
         THEN [Ok(s.pos + 1, s.cut) EXCEPT !.val = ElementValue(in[s.pos + 1])]
         ELSE Ok(s.pos + Len(e.sym), s.cut)
    [] e.op = "Empty" -> Ok(s.pos, s.cut)
    [] e.op = "Cut" -> Ok(s.pos, s.scoped)
    [] e.op = "Sequence" ->
         LET v == SequenceFrom(g, in, e.kids, 1, s, seeds)
         IN  IF v.k = "ok" THEN [v EXCEPT !.val = Collapse("tuple", @, VoidValue)]
             ELSE IF v.k = "fail" THEN Fail(s, v.cut) ELSE v
    [] e.op = "Alternation" ->
         [ChoiceFrom(g, in, e.kids, 1, OpenScope(s), seeds)
            EXCEPT !.cut = s.cut]
    [] e.op = "Repetition" ->
         LET v == RepeatFrom(g, in, e, 0, OpenScope(s), seeds)
         IN  IF v.k = "fail" THEN Fail(s, s.cut)
             ELSE [v EXCEPT !.cut = s.cut,
                            !.val = IF v.k = "ok" THEN RepeatValue(e, @) ELSE @]
    [] e.op \in {"Not", "And"} ->
         LET v == Meaning(g, in, e.kids[1], s, seeds)
         IN  IF v.k = "throw" THEN v
             ELSE IF (v.k = "ok") = (e.op = "And") THEN Ok(s.pos, v.cut)
             ELSE Fail(s, v.cut)
    [] e.op = "Lexeme" ->
         Meaning(g, in, e.kids[1], [s EXCEPT !.skip = FALSE], seeds)
    [] e.op = "NonTerminal" ->
         LET key == <<s.pos, e.rule>>
         IN  IF key \in DOMAIN seeds
             THEN [seeds[key] EXCEPT !.cut = s.cut]
             ELSE GrowFrom(g, in, e.rule, s,
                    [x \in DOMAIN seeds \cup {key} |->
                       IF x = key THEN Fail(s, FALSE) ELSE seeds[x]])

NoSeeds == [x \in {} |-> Ok(0, FALSE)]

\* At the top no scope is open, and a cut is dropped.
AtTop(pos) == [pos |-> pos, cut |-> FALSE, scoped |-> FALSE, skip |-> TRUE]

RuleMeaning(g, in, r, pos) == Meaning(g, in, Ref(r), AtTop(pos), NoSeeds)

\* Grammar::parse from pos: leading skip, then the start rule.
ParseMeaning(g, in, pos) ==
  LET ws == Skipped(g, in, AtTop(pos), NoSeeds)
  IN  IF ws.k = "throw" THEN ws ELSE RuleMeaning(g, in, g.start, ws.pos)
=============================================================================
