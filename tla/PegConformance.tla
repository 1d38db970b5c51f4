--------------------------- MODULE PegConformance ---------------------------
(***************************************************************************)
(* PegMachine's answers against PegSemantics' meanings.                    *)
(***************************************************************************)
EXTENDS PegMachine, PegSemantics

RECURSIVE PositionAfter(_)
\* Where the n-th Grammar::parse on the Context leaves the cursor if it
\* returns normally: after the match, or after the leading skip.
PositionAfter(n) ==
  IF n = 0 THEN 0
  ELSE ParseMeaning(gram, input, PositionAfter(n - 1)).pos

\* The memo, the left-recursion machinery, cut eviction and the shared cursor
\* change no answer: every Grammar::parse on the Context returns true exactly
\* when the documented meaning of the start rule matches there, and leaves
\* the cursor at the end of that match.
ParseAgrees ==
  ctl.mode = "idle" /\ parses > 0 =>
    LET v == ParseMeaning(gram, input, PositionAfter(parses - 1))
    IN  /\ (outcome = "true") = (v.k = "ok")
        /\ v.k # "throw" => mark(ctx) = v.pos

RECURSIVE Mentions(_)
\* The rules an expression names.
Mentions(e) ==
  IF e.op = "NonTerminal" THEN {e.rule}
  ELSE UNION {Mentions(e.kids[k]) : k \in 1..Len(e.kids)}

\* The other rules that name r and that r names.
Partners(r) ==
  {q \in Rules \ {r} :
     /\ q \in Mentions(gram.body[r])
     /\ r \in Mentions(gram.body[q])}

\* Every answer a finished parse leaves in the memo is what its rule means at
\* its position (the skipper: without auto-skip), so a later memo hit replays
\* none that depended on its caller.  A rule in a cycle with another keeps
\* the answer it had inside the cycle (SharedPartner in MCPeg).
MemoSound ==
  ctl.mode = "idle" =>
    \A k \in DOMAIN ctx.m_mem :
      HasMemo(ctx, k[2], k[1]) /\ Partners(k[2]) = {} =>
        LET s == [AtTop(k[1]) EXCEPT !.skip = k[2] # gram.skipper]
            v == Meaning(gram, input, Ref(k[2]), s, NoSeeds)
            m == ctx.m_mem[k]
        IN  /\ m.m_cached_result.success = (v.k = "ok")
            /\ m.m_last_pos = v.pos
-----------------------------------------------------------------------------
(* The inference rules of PegDerivations against the meanings.             *)

RECURSIVE Reached(_, _)
\* X and what parsing X with g parses.
Reached(g, X) ==
  LET Y == X \cup UNION {{ChildIn(x, k) : k \in 1..Len(x[2].kids)} : x \in X}
             \cup {BodyOf(g, x) : x \in {y \in X : y[2].op = "NonTerminal"}}
  IN  IF Y = X THEN X ELSE Reached(g, Y)

\* The expressions of a parse with g, in their modes.
SituationsOf(g) ==
  Reached(g, {<<g.skipper # NoRule, Ref(g.start)>>}
               \cup IF g.skipper = NoRule THEN {} ELSE {SkipperCall(g)})

RECURSIVE LeastEmpty(_, _, _)
LeastEmpty(g, L, N) ==
  LET M == N \cup {x \in L : ~ HoldsEmpty(g, {x}, N)}
  IN  IF M = N THEN N ELSE LeastEmpty(g, L, M)

\* The calls <<x, y>> that HoldsLeftCalls asks for, without calls of calls.
DirectLeftCalls(g, L, N) ==
  {c \in L \X L : ~ HoldsLeftCalls(g, {c[1]}, N, (L \X L) \ {c})}

RECURSIVE Followed(_, _)
Followed(C, X) ==
  LET Y == X \cup {c[2] : c \in {d \in C : d[1] \in X}}
  IN  IF Y = X THEN X ELSE Followed(C, Y)

\* NotLeftRecursive(g, L), for the least N and C.
CallsGoForward(g, L) ==
  LET C == DirectLeftCalls(g, L, LeastEmpty(g, L, {}))
  IN  \A x \in L : x[2].op = "NonTerminal" =>
        x \notin Followed(C, {c[2] : c \in {d \in C : d[1] = x}})

RECURSIVE Iterations(_, _, _, _, _)
\* How many iterations of e there may be, and where each ends, after n up to s.
Iterations(g, in, e, n, s) ==
  LET m == IF n > 0 THEN Skipped(g, in, s, NoSeeds).pos ELSE s.pos
      v == Meaning(g, in, e.kids[1], [s EXCEPT !.pos = m], NoSeeds)
  IN  {<<n, s.pos>>} \cup
      IF v.k # "ok" \/ v.pos = m \/ n + 1 = e.max_rep THEN {}
      ELSE Iterations(g, in, e, n + 1, [s EXCEPT !.pos = v.pos])

\* What the meanings say of the situation x at p.
JudgementsAt(g, in, x, p) ==
  LET e == x[2]
      s == [AtTop(p) EXCEPT !.skip = x[1]]
      v == Meaning(g, in, e, s, NoSeeds)
      kids(n) == SubSeq(e.kids, 1, n)
      work ==
        CASE e.op = "Sequence" ->
               {<<n, SequenceFrom(g, in, kids(n), 1, s, NoSeeds).pos>> :
                  n \in {m \in 0..Len(e.kids) :
                           SequenceFrom(g, in, kids(m), 1, s, NoSeeds).k = "ok"}}
          [] e.op = "Alternation" ->
               {<<n, p>> : n \in {m \in 0..Len(e.kids) :
                           ChoiceFrom(g, in, kids(m), 1, s, NoSeeds).k = "fail"}}
          [] e.op = "Repetition" -> Iterations(g, in, e, 0, s)
          [] OTHER -> {}
  IN  {IF v.k = "ok" THEN Matches(x[1], e, p, v.pos) ELSE Fails(x[1], e, p)}
        \cup {Got(x[1], e, w[1], p, w[2]) : w \in work}

\* The inference rules, one for each way a parse() ends, give the documented
\* meanings: these are closed under the rules, in each grammar without cuts and
\* left recursion whose rules are each parsed in one mode.
RulesGiveMeanings ==
  parses = 0 =>
    LET L == SituationsOf(gram)
        D == UNION {JudgementsAt(gram, input, x, p) : x \in L, p \in 0..Len(input)}
    IN  Parses(gram, L) /\ CallsGoForward(gram, L) =>
          InferenceClosed(gram, input, L, D)
=============================================================================
