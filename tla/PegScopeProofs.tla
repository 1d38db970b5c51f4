---------------------------- MODULE PegScopeProofs ----------------------------
(***************************************************************************)
(* Proofs about PegMachine's scopes: the cut scopes and the left-recursion *)
(* stack follow the active calls, and the error tracker tells the truth.   *)
(***************************************************************************)
EXTENDS PegProofs, FiniteSetTheorems

-----------------------------------------------------------------------------
(* The shape of a step: what it does to the calls, the cut scopes and the  *)
(* left-recursion stack.                                                   *)

CutKinds == {"Alternation", "Repetition"}

\* The calls of t are those of s; their other locals may differ.
SameCalls(s, t) ==
  /\ t \in Seq(Frames) /\ Len(t) = Len(s)
  /\ \A k \in 1..Len(s) :
       /\ t[k].kind = s[k].kind /\ t[k].e = s[k].e
       /\ t[k].start = s[k].start /\ t[k].lr = s[k].lr
       /\ t[k].prev = s[k].prev

\* The same rules are in progress at the same places.
SameRules(l, m) ==
  /\ Len(m) = Len(l)
  /\ \A k \in 1..Len(l) : m[k].rule = l[k].rule /\ m[k].pos = l[k].pos

\* The same cut scopes are open; only cut() commits one.
SameScopesOpen(u, v) ==
  /\ Len(v) = Len(u)
  /\ \A k \in 1..Len(u) : v[k].cut => u[k].cut \/ Calling("Cut")

Stays ==
  /\ SameCalls(stack, stack')
  /\ SameRules(ctx.m_lr_stack, ctx'.m_lr_stack)
  /\ SameScopesOpen(ctx.m_cut, ctx'.m_cut)

\* A call begins: of the expression ctl.e, or of the skipper.
Opens(f) ==
  /\ f \in Frames /\ stack' = Append(stack, f)
  /\ IF f.kind = "Skipper" THEN f.e = Ref(ctx.m_skipper) /\ ctl.mode = "skip"
     ELSE f.e = ctl.e /\ ctl.mode = "call"
  /\ IF f.kind = "NonTerminal"
     THEN /\ f.lr = Len(ctx.m_lr_stack) + 1
          /\ \E x : /\ ctx'.m_lr_stack = Append(ctx.m_lr_stack, x)
                    /\ x.rule = f.e.rule /\ x.pos = f.start
     ELSE ctx'.m_lr_stack = ctx.m_lr_stack
  /\ IF f.kind \in CutKinds
     THEN \E x : ctx'.m_cut = Append(ctx.m_cut, x) /\ ~ x.cut
     ELSE ctx'.m_cut = ctx.m_cut

\* The innermost call ends; a throw leaves its LR frame behind.
Closes ==
  /\ stack # <<>> /\ stack' = Front(stack)
  /\ ctx'.m_lr_stack =
       IF Top.kind = "NonTerminal" /\ ctl.mode # "throw"
       THEN SubSeq(ctx.m_lr_stack, 1, Top.lr - 1)
       ELSE ctx.m_lr_stack
  /\ ctx'.m_cut = IF Top.kind \in CutKinds THEN Front(ctx.m_cut) ELSE ctx.m_cut

Shaped == Stays \/ (\E f : Opens(f)) \/ Closes

SameErrors ==
  /\ ctx'.m_has_error = ctx.m_has_error /\ ctx'.m_expected = ctx.m_expected
  /\ ctx'.m_furthest_failure_pos = ctx.m_furthest_failure_pos

\* A plain step, or part of a step, changes no scope.
LEMMA PlainStep ==
  ASSUME Inv, Plain(ctx, ctx')
  PROVE  /\ ctx'.m_cut = ctx.m_cut /\ ctx'.m_lr_stack = ctx.m_lr_stack
         /\ SameErrors
<1>1. Len(input) \in Nat /\ ctx \in Contexts(Len(input))
  BY Facts DEF ContextOK
<1> QED
  BY <1>1, PlainKeeps DEF SameErrors

\* A step that changes no call and no scope.
LEMMA PlainStays ==
  ASSUME Inv, stack' = stack, ctx'.m_cut = ctx.m_cut,
         ctx'.m_lr_stack = ctx.m_lr_stack
  PROVE  Stays
BY Facts DEF Stays, SameCalls, SameRules, SameScopesOpen, StackOK

\* Popping a call that is neither a NonTerminal nor a cut scope.
LEMMA PlainCloses ==
  ASSUME Inv, stack # <<>>, Pop, Top.kind \notin CutKinds \cup {"NonTerminal"},
         ctx'.m_cut = ctx.m_cut, ctx'.m_lr_stack = ctx.m_lr_stack
  PROVE  Closes
BY DEF Closes, Pop, Front

\* The innermost call: its frame and what TopOK needs.
LEMMA Innermost ==
  ASSUME Inv, stack # <<>>
  PROVE  /\ Top \in Frames /\ Len(stack) \in Nat /\ Len(stack) \in 1..Len(stack)
         /\ Top = stack[Len(stack)]
BY Facts, TopFacts DEF Top

\* Leaf expressions: only cut() commits a scope.
LEMMA LeafShape == Inv /\ LeafStep => Shaped
<1> SUFFICES ASSUME Inv, LeafStep PROVE Stays
  BY DEF Shaped
<1>1. stack' = stack
  BY DEF LeafStep, TerminalMatch, TokenMatch, SingleFail, TerminalSeqMatch,
         TerminalSeqFail, MatcherMatch, MatcherFail, Empty, Cut, Leaf
<1>2. Len(input) \in Nat /\ ctx \in Contexts(Len(input))
  BY Facts DEF ContextOK
<1>3. CASE TerminalMatch \/ TokenMatch \/ TerminalSeqMatch \/ MatcherMatch
           \/ MatcherFail \/ Empty
  <2>1. Plain(ctx, ctx')
    <3>1. CASE TerminalMatch \/ MatcherFail \/ Empty
      BY <3>1, PlainMethods DEF TerminalMatch, MatcherFail, Empty
    <3>2. CASE TokenMatch
      BY <3>2, PlainMethods, PlainTrans DEF TokenMatch
    <3>3. CASE TerminalSeqMatch
      BY <3>3, PlainMethods DEF TerminalSeqMatch
    <3>4. CASE MatcherMatch
      BY <3>4, PlainMethods, PlainTrans DEF MatcherMatch
    <3> QED
      BY <1>3, <3>1, <3>2, <3>3, <3>4
  <2> QED
    BY <1>1, <2>1, PlainStep, PlainStays
<1>4. CASE SingleFail \/ TerminalSeqFail
  <2>1. Writes(ctx, ctx', ErrorFields)
    BY <1>4, ScopeMethods DEF SingleFail, TerminalSeqFail, record_expected
  <2> QED
    BY <1>1, <1>2, <2>1, Unwritten, PlainStays DEF ErrorFields
<1>5. CASE Cut
  <2>1. ctx' = cut(ctx, TRUE) /\ Calling("Cut")
    BY <1>5 DEF Cut
  <2>2. Writes(ctx, ctx', {"m_cut"})
    BY <2>1, ScopeMethods
  <2>3. ctx'.m_lr_stack = ctx.m_lr_stack
    BY <1>2, <2>2, Unwritten
  <2>4. ctx.m_cut \in Seq(CutRecords(Len(input)))
    BY <1>2, FieldTypes
  <2>5. Len(ctx'.m_cut) = Len(ctx.m_cut)
    BY <1>2, <2>1, <2>4 DEF cut, Contexts
  <2> QED
    BY <1>1, <2>1, <2>3, <2>5, Facts
       DEF Stays, SameCalls, SameRules, SameScopesOpen, StackOK
<1> QED
  BY <1>3, <1>4, <1>5 DEF LeafStep
\* The stack a step leaves, by Inv'.
LEMMA StackTyped ==
  ASSUME Inv, Inv', UNCHANGED setup
  PROVE  stack \in Seq(Frames) /\ stack' \in Seq(Frames)
<1>1. Frames' = Frames
  BY DEF setup, Frames
<1> QED
  BY <1>1 DEF Inv, TypeOK

\* A frame that is pushed is a frame, given that the step preserves Inv.
LEMMA PushedFrame ==
  ASSUME Inv, Inv', UNCHANGED setup, NEW f, Push(f)
  PROVE  f \in Frames
<1>1. stack \in Seq(Frames) /\ stack' \in Seq(Frames)
  BY StackTyped
<1>2. Len(stack') = Len(stack) + 1 /\ Len(stack) \in Nat
      /\ stack'[Len(stack) + 1] = f
  BY <1>1 DEF Push
<1> QED
  BY <1>1, <1>2

\* Opening a call that is neither a NonTerminal nor a cut scope.
LEMMA PlainOpens ==
  ASSUME Inv, Inv', Inner, ctl.mode = "call", NEW f, Push(f), f.e = ctl.e,
         f.kind \notin CutKinds \cup {"NonTerminal", "Skipper"},
         Plain(ctx, ctx')
  PROVE  Shaped
<1>1. f \in Frames
  BY PushedFrame DEF Inner
<1>2. ctx'.m_cut = ctx.m_cut /\ ctx'.m_lr_stack = ctx.m_lr_stack
  BY PlainStep
<1>3. Opens(f)
  BY <1>1, <1>2 DEF Opens, Push
<1> QED
  BY <1>3 DEF Shaped

\* Opening a cut scope.
LEMMA ScopeOpens ==
  ASSUME Inv, Inv', Inner, ctl.mode = "call", NEW f, Push(f), f.e = ctl.e,
         f.kind \in CutKinds, Plain(init_cut(ctx), ctx')
  PROVE  Shaped
<1>1. f \in Frames
  BY PushedFrame DEF Inner
<1>2. Len(input) \in Nat /\ ctx \in Contexts(Len(input)) /\ ContextOK(ctx, Len(input))
  BY Facts DEF ContextOK
<1>3. Kept(ctx, init_cut(ctx), Len(input))
  BY <1>2, InitCutOK
<1>4. ctx'.m_cut = init_cut(ctx).m_cut
      /\ ctx'.m_lr_stack = init_cut(ctx).m_lr_stack
  BY <1>2, <1>3, PlainKeeps DEF Kept, ContextOK
<1>5. init_cut(ctx).m_cut = Append(ctx.m_cut, [pos |-> mark(ctx), cut |-> FALSE])
  BY <1>2 DEF init_cut, Contexts
<1>6. ctx'.m_lr_stack = ctx.m_lr_stack
  BY <1>3, <1>4 DEF Kept, SameScopes
<1>7. \E x : ctx'.m_cut = Append(ctx.m_cut, x) /\ ~ x.cut
  <2> WITNESS [pos |-> mark(ctx), cut |-> FALSE]
  <2> QED
    BY <1>4, <1>5
<1>8. f.kind \notin {"NonTerminal", "Skipper"}
  BY DEF CutKinds
<1>9. Opens(f)
  BY <1>1, <1>6, <1>7, <1>8 DEF Opens, Push
<1> QED
  BY <1>9 DEF Shaped

\* Leaving a cut scope, after plain steps on the Context.
LEMMA ScopeCloses ==
  ASSUME Inv, stack # <<>>, Pop, Top.kind \in CutKinds,
         NEW c, Plain(ctx, c), ctx' = remove_cut(c)
  PROVE  Shaped
<1>1. Len(input) \in Nat /\ ctx \in Contexts(Len(input))
  BY Facts DEF ContextOK
<1>2. c.m_cut = ctx.m_cut /\ c.m_lr_stack = ctx.m_lr_stack
  BY <1>1, PlainKeeps
<1>3. DOMAIN c = DOMAIN ctx /\ "m_cut" \in DOMAIN ctx /\ "m_lr_stack" \in DOMAIN ctx
  BY <1>1 DEF Plain, Writes, Contexts
<1>4. ctx'.m_lr_stack = c.m_lr_stack
  BY <1>3, ScopeMethods DEF Writes
<1>5. ctx'.m_cut = SubSeq(c.m_cut, 1, Len(c.m_cut) - 1)
  BY <1>3 DEF remove_cut
<1>6. Closes
  BY <1>2, <1>4, <1>5 DEF Closes, Pop, Front, CutKinds
<1> QED
  BY <1>6 DEF Shaped

\* cut(FALSE) commits nothing.
LEMMA CutOff ==
  ASSUME Inv, ctx' = cut(ctx, FALSE)
  PROVE  /\ SameScopesOpen(ctx.m_cut, ctx'.m_cut)
         /\ ctx'.m_lr_stack = ctx.m_lr_stack
<1>1. Len(input) \in Nat /\ ctx \in Contexts(Len(input))
  BY Facts DEF ContextOK
<1>2. ctx.m_cut \in Seq(CutRecords(Len(input)))
  BY <1>1, FieldTypes
<1>3. ctx'.m_lr_stack = ctx.m_lr_stack
  <2>1. Writes(ctx, ctx', {"m_cut"})
    BY DEF Writes, cut
  <2> QED
    BY <1>1, <2>1 DEF Writes, Contexts
<1>4. CASE ctx.m_cut = <<>>
  BY <1>4 DEF cut, SameScopesOpen
<1>5. CASE ctx.m_cut # <<>>
  <2> DEFINE x == [pos |-> mark(ctx), cut |-> FALSE]
             m == Len(ctx.m_cut)
             t == [ctx.m_cut EXCEPT ![m] = x]
  <2>1. ctx'.m_cut = t
    BY <1>1, <1>5 DEF cut, Contexts
  <2>2. ~ x.cut /\ x \in CutRecords(Len(input))
    BY Facts DEF CutRecords
  <2> HIDE DEF x
  <2>3. /\ t \in Seq(CutRecords(Len(input))) /\ Len(t) = m
        /\ \A k \in 1..m : t[k] = IF k = m THEN x ELSE ctx.m_cut[k]
    BY <1>2, <1>5, <2>2
  <2> HIDE DEF t
  <2> QED
    BY <1>3, <2>1, <2>2, <2>3 DEF SameScopesOpen
<1> QED
  BY <1>3, <1>4, <1>5

\* Editing the locals of the innermost call changes no call.
LEMMA EditedTop ==
  ASSUME Inv, Inv', UNCHANGED setup, stack # <<>>, NEW f, SetTop(f),
         f.kind = Top.kind, f.e = Top.e, f.start = Top.start, f.lr = Top.lr,
         f.prev = Top.prev
  PROVE  SameCalls(stack, stack')
<1>1. /\ stack \in Seq(Frames) /\ Len(stack) \in Nat /\ stack' \in Seq(Frames)
      /\ Len(stack) \in 1..Len(stack)
  BY StackTyped, Facts, TopFacts
<1>2. /\ Len(stack') = Len(stack)
      /\ \A k \in 1..Len(stack) :
           stack'[k] = IF k = Len(stack) THEN f ELSE stack[k]
  BY <1>1 DEF SetTop
<1> QED
  BY <1>1, <1>2 DEF SameCalls, Top

\* A call goes on with other locals and the same scopes.
LEMMA PlainEdit ==
  ASSUME Inv, Inv', Inner, stack # <<>>, NEW f, SetTop(f), Plain(ctx, ctx'),
         f.kind = Top.kind, f.e = Top.e, f.start = Top.start, f.lr = Top.lr,
         f.prev = Top.prev
  PROVE  Stays
<1>1. SameCalls(stack, stack')
  BY EditedTop DEF Inner
<1>2. ctx'.m_cut = ctx.m_cut /\ ctx'.m_lr_stack = ctx.m_lr_stack
  BY PlainStep
<1> QED
  BY <1>1, <1>2 DEF Stays, SameRules, SameScopesOpen

\* Sequences.
LEMMA SequenceShape == Inv /\ Inv' /\ SequenceStep => Shaped
<1> SUFFICES ASSUME Inv, Inv', SequenceStep PROVE Shaped
  OBVIOUS
<1>1. CASE SequenceEnter
  <2> DEFINE f == [NewFrame("Sequence", ctl.e) EXCEPT !.node = NextNode(ctx)]
  <2>1. f.kind = "Sequence" /\ f.e = ctl.e
    BY DEF NewFrame
  <2>2. Plain(ctx, ctx') /\ Inner /\ ctl.mode = "call" /\ Push(f)
    BY <1>1, PlainMethods DEF SequenceEnter, Calling
  <2> HIDE DEF f
  <2> QED
    BY <2>1, <2>2, PlainOpens DEF CutKinds
<1>2. CASE SequenceChild
  <2>1. Plain(ctx, ctx') /\ stack' = stack
    BY <1>2, PlainMethods DEF SequenceChild
  <2> QED
    BY <2>1, PlainStep, PlainStays DEF Shaped
<1>3. CASE SequenceChildMatched
  <2> DEFINE f == [Top EXCEPT !.i = @ + 1]
  <2>1. /\ stack # <<>> /\ SetTop(f) /\ Plain(ctx, ctx') /\ Inner
    BY <1>3, PlainMethods DEF SequenceChildMatched, ReturnedTo, At
  <2>2. Top \in Frames
    BY <2>1, Innermost
  <2>3. /\ f.kind = Top.kind /\ f.e = Top.e /\ f.start = Top.start
        /\ f.lr = Top.lr /\ f.prev = Top.prev
    BY <2>2 DEF Frames
  <2> HIDE DEF f
  <2> QED
    BY <2>1, <2>3, PlainEdit DEF Shaped
<1>4. CASE SequenceMatched
  <2>1. /\ stack # <<>> /\ Top.kind = "Sequence" /\ Pop /\ Plain(ctx, ctx')
    BY <1>4, PlainMethods, PlainTrans DEF SequenceMatched, ReturnedTo, At
  <2> QED
    BY <2>1, PlainStep, PlainCloses DEF Shaped, CutKinds
<1>5. CASE SequenceFailed
  <2>1. /\ stack # <<>> /\ Top.kind = "Sequence" /\ Pop /\ Plain(ctx, ctx')
    BY <1>5, PlainMethods DEF SequenceFailed, ReturnedTo, At
  <2> QED
    BY <2>1, PlainStep, PlainCloses DEF Shaped, CutKinds
<1> QED
  BY <1>1, <1>2, <1>3, <1>4, <1>5 DEF SequenceStep

\* Alternations.
LEMMA AlternationShape == Inv /\ Inv' /\ AlternationStep => Shaped
<1> SUFFICES ASSUME Inv, Inv', AlternationStep PROVE Shaped
  OBVIOUS
<1>1. CASE AlternationEnter
  <2> DEFINE f == NewFrame("Alternation", ctl.e)
  <2>1. f.kind = "Alternation" /\ f.e = ctl.e
    BY DEF NewFrame
  <2>2. /\ Inner /\ ctl.mode = "call" /\ Push(f)
        /\ Plain(init_cut(ctx), ctx')
    BY <1>1, PlainMethods DEF AlternationEnter, Calling
  <2> HIDE DEF f
  <2> QED
    BY <2>1, <2>2, ScopeOpens DEF CutKinds
<1>2. CASE AlternationMatched
  <2> DEFINE c == stamp_winner(ctx, ctl.res.tree, Top.i)
  <2>1. /\ stack # <<>> /\ Top.kind = "Alternation" /\ Pop
        /\ ctx' = remove_cut(c)
    BY <1>2 DEF AlternationMatched, ReturnedTo, At
  <2>2. Plain(ctx, c)
    BY PlainMethods DEF stamp_winner
  <2> HIDE DEF c
  <2> QED
    BY <2>1, <2>2, ScopeCloses DEF CutKinds
<1>3. CASE AlternationNext
  <2> DEFINE f == [Top EXCEPT !.i = @ + 1]
  <2>1. /\ stack # <<>> /\ SetTop(f) /\ Plain(ctx, ctx') /\ Inner
    BY <1>3, PlainMethods DEF AlternationNext, ReturnedTo, At
  <2>2. Top \in Frames
    BY <2>1, Innermost
  <2>3. /\ f.kind = Top.kind /\ f.e = Top.e /\ f.start = Top.start
        /\ f.lr = Top.lr /\ f.prev = Top.prev
    BY <2>2 DEF Frames
  <2> HIDE DEF f
  <2> QED
    BY <2>1, <2>3, PlainEdit DEF Shaped
<1>4. CASE AlternationExhausted
  <2>1. /\ stack # <<>> /\ Top.kind = "Alternation" /\ Pop
        /\ ctx' = remove_cut(ctx)
    BY <1>4 DEF AlternationExhausted, ReturnedTo, At
  <2> QED
    BY <2>1, PlainMethods, ScopeCloses DEF CutKinds
<1>5. CASE AlternationThrow
  <2>1. Plain(ctx, ctx') /\ stack' = stack
    BY <1>5, PlainMethods DEF AlternationThrow
  <2> QED
    BY <2>1, PlainStep, PlainStays DEF Shaped
<1> QED
  BY <1>1, <1>2, <1>3, <1>4, <1>5 DEF AlternationStep

\* Repetitions.
LEMMA RepetitionShape == Inv /\ Inv' /\ RepetitionStep => Shaped
<1> SUFFICES ASSUME Inv, Inv', RepetitionStep PROVE Shaped
  OBVIOUS
<1>1. CASE RepetitionEnter
  <2> DEFINE f == [NewFrame("Repetition", ctl.e) EXCEPT !.node = NextNode(ctx)]
  <2>1. f.kind = "Repetition" /\ f.e = ctl.e
    BY DEF NewFrame
  <2>2. /\ Inner /\ ctl.mode = "call" /\ Push(f)
        /\ Plain(init_cut(ctx), ctx')
    BY <1>1, PlainMethods DEF RepetitionEnter, Calling
  <2> HIDE DEF f
  <2> QED
    BY <2>1, <2>2, ScopeOpens DEF CutKinds
<1>2. CASE RepetitionChild
  <2> DEFINE f == [Top EXCEPT !.iter = mark(ctx)]
  <2>1. /\ stack # <<>> /\ SetTop(f) /\ Inner /\ ctx' = cut(ctx, FALSE)
    BY <1>2 DEF RepetitionChild, At
  <2>2. Top \in Frames
    BY <2>1, Innermost
  <2>3. /\ f.kind = Top.kind /\ f.e = Top.e /\ f.start = Top.start
        /\ f.lr = Top.lr /\ f.prev = Top.prev
    BY <2>2 DEF Frames
  <2> HIDE DEF f
  <2>4. SameCalls(stack, stack')
    BY <2>1, <2>3, EditedTop DEF Inner
  <2>5. /\ SameScopesOpen(ctx.m_cut, ctx'.m_cut)
        /\ ctx'.m_lr_stack = ctx.m_lr_stack
    BY <2>1, CutOff
  <2> QED
    BY <2>4, <2>5 DEF Shaped, Stays, SameRules
<1>3. CASE RepetitionChildMatched
  <2> DEFINE f == [Top EXCEPT !.i = @ + 1, !.last = mark(ctx)]
  <2>1. /\ stack # <<>> /\ SetTop(f) /\ Plain(ctx, ctx') /\ Inner
    BY <1>3, PlainMethods DEF RepetitionChildMatched, ReturnedTo, At
  <2>2. Top \in Frames
    BY <2>1, Innermost
  <2>3. /\ f.kind = Top.kind /\ f.e = Top.e /\ f.start = Top.start
        /\ f.lr = Top.lr /\ f.prev = Top.prev
    BY <2>2 DEF Frames
  <2> HIDE DEF f
  <2> QED
    BY <2>1, <2>3, PlainEdit DEF Shaped
<1>4. CASE RepetitionMatched
  <2> DEFINE c == push_child(ctx, Top.node, ctl.res.tree)
  <2>1. /\ stack # <<>> /\ Top.kind = "Repetition" /\ Pop
        /\ \/ ctx' = remove_cut(reset(c, Top.start))
           \/ ctx' = remove_cut(set_end(c, Top.node))
    BY <1>4 DEF RepetitionMatched, ReturnedTo, At
  <2>2. Plain(ctx, c)
    BY PlainMethods
  <2> HIDE DEF c
  <2>3. Plain(ctx, reset(c, Top.start)) /\ Plain(ctx, set_end(c, Top.node))
    BY <2>2, PlainMethods, PlainTrans
  <2> QED
    BY <2>1, <2>3, ScopeCloses DEF CutKinds
<1>5. CASE RepetitionTooFew
  <2>1. /\ stack # <<>> /\ Top.kind = "Repetition" /\ Pop
        /\ ctx' = remove_cut(reset(ctx, Top.start))
    BY <1>5 DEF RepetitionTooFew, ReturnedTo, At
  <2> QED
    BY <2>1, PlainMethods, ScopeCloses DEF CutKinds
<1>6. CASE RepetitionEnds
  <2> DEFINE c == PadChildren(reset(ctx, Top.last), Top.node, Top.i)
  <2>1. /\ stack # <<>> /\ Top.kind = "Repetition" /\ Pop
        /\ ctx' = remove_cut(set_end(c, Top.node))
    BY <1>6 DEF RepetitionEnds, ReturnedTo, At
  <2>2. Plain(ctx, c)
    BY PlainMethods, PlainTrans DEF PadChildren
  <2> HIDE DEF c
  <2>3. Plain(ctx, set_end(c, Top.node))
    BY <2>2, PlainMethods, PlainTrans
  <2> QED
    BY <2>1, <2>3, ScopeCloses DEF CutKinds
<1>7. CASE RepetitionThrow
  <2>1. Plain(ctx, ctx') /\ stack' = stack
    BY <1>7, PlainMethods, PlainTrans DEF RepetitionThrow, PadChildren
  <2> QED
    BY <2>1, PlainStep, PlainStays DEF Shaped
<1> QED
  BY <1>1, <1>2, <1>3, <1>4, <1>5, <1>6, <1>7 DEF RepetitionStep

\* Predicates and lexemes.
LEMMA WrapperShape == Inv /\ Inv' /\ WrapperStep => Shaped
<1> SUFFICES ASSUME Inv, Inv', WrapperStep PROVE Shaped
  OBVIOUS
<1>1. CASE PredicateEnter
  <2>1. PICK op \in {"Not", "And"} :
          ctl.mode = "call" /\ Push(NewFrame(op, ctl.e)) /\ ctx' = ctx /\ Inner
    BY <1>1 DEF PredicateEnter, Calling
  <2> DEFINE f == NewFrame(op, ctl.e)
  <2>2. f.kind = op /\ f.e = ctl.e
    BY DEF NewFrame
  <2> HIDE DEF f
  <2>3. Push(f) /\ Plain(ctx, ctx')
    BY <2>1, PlainMethods DEF f
  <2> QED
    BY <2>1, <2>2, <2>3, PlainOpens DEF CutKinds
<1>2. CASE PredicateReturn
  <2>1. /\ stack # <<>> /\ Top.kind \in {"Not", "And"} /\ Pop
        /\ ctx' = reset(ctx, Top.start)
    BY <1>2 DEF PredicateReturn, At
  <2> QED
    BY <2>1, PlainMethods, PlainStep, PlainCloses DEF Shaped, CutKinds
<1>3. CASE LexemeEnter
  <2> DEFINE f == NewFrame("Lexeme", ctl.e)
  <2>1. f.kind = "Lexeme" /\ f.e = ctl.e
    BY DEF NewFrame
  <2>2. ctl.mode = "call" /\ Push(f) /\ Inner /\ Plain(ctx, ctx')
    BY <1>3, PlainMethods DEF LexemeEnter, Calling, Plain, Writes, PlainFields,
                              skip_enabled
  <2> HIDE DEF f
  <2> QED
    BY <2>1, <2>2, PlainOpens DEF CutKinds
<1>4. CASE LexemeReturn
  <2>1. /\ stack # <<>> /\ Top.kind = "Lexeme" /\ Pop
        /\ ctx' = skip_enabled(ctx, Top.prev)
    BY <1>4 DEF LexemeReturn, At
  <2> QED
    BY <2>1, PlainMethods, PlainStep, PlainCloses DEF Shaped, CutKinds
<1> QED
  BY <1>1, <1>2, <1>3, <1>4 DEF WrapperStep

\* Context::run_skipper.
LEMMA SkipperShape == Inv /\ Inv' /\ SkipperStep => Shaped
<1> SUFFICES ASSUME Inv, Inv', SkipperStep PROVE Shaped
  OBVIOUS
<1>1. CASE SkipperEnter
  <2> DEFINE f == NewFrame("Skipper", Ref(ctx.m_skipper))
  <2>1. f.kind = "Skipper" /\ f.e = Ref(ctx.m_skipper)
    BY DEF NewFrame
  <2>2. ctl.mode = "skip" /\ Push(f) /\ Inner /\ Plain(ctx, ctx')
    BY <1>1 DEF SkipperEnter, Plain, Writes, PlainFields, skip_enabled
  <2> HIDE DEF f
  <2>3. f \in Frames
    BY <2>2, PushedFrame DEF Inner
  <2>4. ctx'.m_cut = ctx.m_cut /\ ctx'.m_lr_stack = ctx.m_lr_stack
    BY <2>2, PlainStep
  <2>5. Opens(f)
    BY <2>1, <2>2, <2>3, <2>4 DEF Opens, Push, CutKinds
  <2> QED
    BY <2>5 DEF Shaped
<1>2. CASE SkipperNone
  <2>1. Plain(ctx, ctx') /\ stack' = stack
    BY <1>2, PlainMethods DEF SkipperNone
  <2> QED
    BY <2>1, PlainStep, PlainStays DEF Shaped
<1>3. CASE SkipperReturn
  <2>1. /\ stack # <<>> /\ Top.kind = "Skipper" /\ Pop
        /\ ctx' = skip_enabled(ctx, Top.prev)
    BY <1>3 DEF SkipperReturn, At
  <2> QED
    BY <2>1, PlainMethods, PlainStep, PlainCloses DEF Shaped, CutKinds
<1> QED
  BY <1>1, <1>2, <1>3 DEF SkipperStep

\* lr_pop drops the entry of the innermost call and what lies above it.
LEMMA LeaveScopes ==
  ASSUME Inv, NEW d, Plain(LeaveRule(ctx), d)
  PROVE  /\ d.m_cut = ctx.m_cut
         /\ d.m_lr_stack = SubSeq(ctx.m_lr_stack, 1, Top.lr - 1)
<1> DEFINE c == lr_pop(ctx, Top.lr)
<1>1. "m_cut" \in DOMAIN ctx /\ "m_lr_stack" \in DOMAIN ctx
  BY Facts DEF ContextOK, Contexts
<1>2. /\ DOMAIN c = DOMAIN ctx /\ c.m_cut = ctx.m_cut
      /\ c.m_lr_stack = SubSeq(ctx.m_lr_stack, 1, Top.lr - 1)
  BY <1>1 DEF lr_pop
<1> HIDE DEF c
<1>3. LeaveRule(ctx) = IF MyLR.is_head THEN clear_growing_head(c, Top.start)
                       ELSE c
  BY DEF LeaveRule, c
<1>4. Plain(c, LeaveRule(ctx))
  BY <1>3, PlainMethods
<1>5. Plain(c, d)
  BY <1>4, PlainTrans
<1> QED
  BY <1>1, <1>2, <1>5 DEF Plain, Writes, PlainFields

\* A rule's call ends.
LEMMA RuleCloses ==
  ASSUME Inv, stack # <<>>, Top.kind = "NonTerminal", ctl.mode # "throw", Pop,
         ctx'.m_cut = ctx.m_cut,
         ctx'.m_lr_stack = SubSeq(ctx.m_lr_stack, 1, Top.lr - 1)
  PROVE  Shaped
<1>1. Closes
  BY DEF Closes, Pop, Front, CutKinds
<1> QED
  BY <1>1 DEF Shaped

\* A failing rule's item changes no scope.
LEMMA BlamesRule ==
  ASSUME Inv, NEW x, NEW d,
         Plain(record_failure(LeaveRule(ctx), Top.start, x), d)
  PROVE  /\ d.m_cut = ctx.m_cut
         /\ d.m_lr_stack = SubSeq(ctx.m_lr_stack, 1, Top.lr - 1)
<1> DEFINE c == LeaveRule(ctx)
           e == record_failure(c, Top.start, x)
<1>1. Plain(c, c)
  BY PlainMethods
<1>2. /\ c.m_cut = ctx.m_cut
      /\ c.m_lr_stack = SubSeq(ctx.m_lr_stack, 1, Top.lr - 1)
  BY <1>1, LeaveScopes
<1>3. DOMAIN c = DOMAIN ctx
  BY DEF LeaveRule, lr_pop, clear_growing_head
<1>4. "m_cut" \in DOMAIN c /\ "m_lr_stack" \in DOMAIN c
  BY <1>3, Facts DEF ContextOK, Contexts
<1> HIDE DEF c
<1>5. Writes(c, e, ErrorFields)
  BY ScopeMethods
<1> HIDE DEF e
<1>6. Plain(e, d)
  BY DEF e, c
<1> QED
  BY <1>2, <1>4, <1>5, <1>6 DEF Plain, Writes, PlainFields, ErrorFields

\* NonTerminal::parse.
LEMMA NonTerminalShape == Inv /\ Inv' /\ NonTerminalStep => Shaped
<1> SUFFICES ASSUME Inv, Inv', NonTerminalStep PROVE Shaped
  OBVIOUS
<1>0. /\ Len(input) \in Nat /\ ctx \in Contexts(Len(input))
      /\ ContextOK(ctx, Len(input))
  BY Facts DEF ContextOK
<1>1. CASE NonTerminalReenter
  <2> DEFINE c == mark_head(ctx, ctl.e.rule, mark(ctx))
  <2>1. /\ stack' = stack /\ Calling("NonTerminal")
        /\ Plain(c, ctx')
    BY <1>1, PlainMethods DEF NonTerminalReenter
  <2>2. ctl.e.rule \in Rules
    BY <2>1, Facts DEF Calling, ExprOK
  <2>3. /\ c \in Contexts(Len(input)) /\ SameRules(ctx.m_lr_stack, c.m_lr_stack)
    BY <1>0, <2>2, MarkHeadOK DEF ContextOK, SameRules
  <2>4. c.m_cut = ctx.m_cut
    BY <1>0 DEF mark_head, Contexts
  <2> HIDE DEF c
  <2>5. ctx'.m_cut = c.m_cut /\ ctx'.m_lr_stack = c.m_lr_stack
    BY <1>0, <2>1, <2>3, PlainKeeps
  <2> QED
    BY <2>1, <2>3, <2>4, <2>5, StackTyped
       DEF Shaped, Stays, SameCalls, SameScopesOpen, StackOK, Inv
<1>2. CASE NonTerminalMemoHit
  <2>1. Plain(ctx, ctx') /\ stack' = stack
    BY <1>2, PlainMethods DEF NonTerminalMemoHit
  <2> QED
    BY <2>1, PlainStep, PlainStays DEF Shaped
<1>3. CASE NonTerminalEnter
  <2> DEFINE r == ctl.e.rule
             p == mark(ctx)
             f == [NewFrame("NonTerminal", ctl.e)
                     EXCEPT !.lr = Len(ctx.m_lr_stack) + 1]
             x == [rule |-> r, pos |-> p, last_pos |-> p, is_head |-> FALSE]
             b == rule_state(ctx, r, p)
             c == lr_push(b, x)
  <2>1. /\ ctl.mode = "call" /\ Push(f) /\ Inner
        /\ ctx' = update_rule_state(c, r, p, f.rs)
    BY <1>3 DEF NonTerminalEnter, Calling
  <2>2. /\ f.kind = "NonTerminal" /\ f.e = ctl.e /\ f.start = p
        /\ f.lr = Len(ctx.m_lr_stack) + 1
    BY DEF NewFrame
  <2>3. x.rule = f.e.rule /\ x.pos = f.start
    BY <2>2
  <2>4. f \in Frames
    BY <2>1, PushedFrame DEF Inner
  <2>5. Plain(ctx, b) /\ Plain(c, ctx')
    BY <2>1, PlainMethods
  <2>6. DOMAIN b = DOMAIN ctx
    BY <2>5 DEF Plain, Writes
  <2>7. b.m_cut = ctx.m_cut /\ b.m_lr_stack = ctx.m_lr_stack
    BY <1>0, <2>5, PlainKeeps
  <2> HIDE DEF b, f, x
  <2>8. /\ DOMAIN c = DOMAIN ctx /\ c.m_cut = ctx.m_cut
        /\ c.m_lr_stack = Append(ctx.m_lr_stack, x)
    BY <1>0, <2>6, <2>7 DEF lr_push, Contexts
  <2> HIDE DEF c
  <2>9. ctx'.m_cut = c.m_cut /\ ctx'.m_lr_stack = c.m_lr_stack
    BY <1>0, <2>5, <2>8 DEF Plain, Writes, PlainFields, Contexts
  <2>10. Opens(f)
    BY <2>1, <2>2, <2>3, <2>4, <2>8, <2>9 DEF Opens, Push, CutKinds
  <2> QED
    BY <2>10 DEF Shaped
<1>4. CASE NonTerminalGrow
  <2> DEFINE rs == [m_last_pos |-> mark(ctx), m_cached_result |-> ctl.res]
             f == [Top EXCEPT !.best = ctl.res, !.rs = rs]
             b == [ctx EXCEPT !.m_lr_stack[Top.lr].last_pos = mark(ctx)]
             c == update_rule_state(b, ThisRule, Top.start, rs)
  <2>1. /\ stack # <<>> /\ Top.kind = "NonTerminal" /\ SetTop(f) /\ Inner
        /\ \/ ctx' = reset(c, mark(ctx))
           \/ ctx' = reset(c, Top.start)
           \/ ctx' = reset(clear_siblings_at(c, Top.start, ThisRule), Top.start)
    BY <1>4 DEF NonTerminalGrow, ReturnedTo, At
  <2>2. /\ f.kind = Top.kind /\ f.e = Top.e /\ f.start = Top.start
        /\ f.lr = Top.lr /\ f.prev = Top.prev
    BY <2>1, Innermost DEF Frames
  <2>3. SameCalls(stack, stack')
    BY <2>1, <2>2, EditedTop DEF Inner
  <2>4. /\ b \in Contexts(Len(input)) /\ SameRules(ctx.m_lr_stack, b.m_lr_stack)
    <3>1. Top.lr \in 1..Len(ctx.m_lr_stack) /\ mark(ctx) \in 0..Len(input)
      BY <2>1, RuleTop, Facts
    <3> QED
      BY SMTT(60), <1>0, <3>1, LrGrowOK DEF SameRules, ContextOK
  <2>5. b.m_cut = ctx.m_cut
    BY <1>0 DEF Contexts
  <2> HIDE DEF b, f, rs
  <2>6. Plain(b, c)
    BY PlainMethods
  <2> HIDE DEF c
  <2>7. Plain(b, ctx')
    <3>1. \A x, y : Plain(c, reset(c, x)) /\ Plain(c, clear_siblings_at(c, x, y))
      BY PlainMethods
    <3>2. \A x, y, z : Plain(c, reset(clear_siblings_at(c, x, y), z))
      BY <3>1, PlainMethods, PlainTrans
    <3> QED
      BY <2>1, <2>6, <3>1, <3>2, PlainTrans
  <2>8. ctx'.m_cut = b.m_cut /\ ctx'.m_lr_stack = b.m_lr_stack
    BY <1>0, <2>4, <2>7, PlainKeeps
  <2> QED
    BY <2>3, <2>4, <2>5, <2>8 DEF Shaped, Stays, SameScopesOpen
<1>5. CASE NonTerminalFixedPoint
  <2> DEFINE best == IF Top.best.success THEN Top.best ELSE ctl.res
             rs == [m_last_pos |-> MyLR.last_pos, m_cached_result |-> best]
             f == [Top EXCEPT !.best = best, !.rs = rs]
  <2>1. /\ stack # <<>> /\ SetTop(f) /\ Inner
        /\ ctx' = reset(update_rule_state(ctx, ThisRule, Top.start, rs),
                        MyLR.last_pos)
    BY <1>5 DEF NonTerminalFixedPoint, ReturnedTo, At
  <2>2. /\ f.kind = Top.kind /\ f.e = Top.e /\ f.start = Top.start
        /\ f.lr = Top.lr /\ f.prev = Top.prev
    BY <2>1, Innermost DEF Frames
  <2> HIDE DEF rs, f
  <2>3. Plain(ctx, ctx')
    BY <2>1, PlainMethods, PlainTrans
  <2> QED
    BY <2>1, <2>2, <2>3, PlainEdit DEF Shaped
<1>6. CASE NonTerminalBodyFailed
  <2>1. Plain(ctx, ctx') /\ stack' = stack
    BY <1>6, PlainMethods DEF NonTerminalBodyFailed
  <2> QED
    BY <2>1, PlainStep, PlainStays DEF Shaped
<1>7. CASE NonTerminalFailed
  <2> DEFINE c == record_failure(LeaveRule(ctx), Top.start, RuleItem(ThisRule))
  <2>1. /\ stack # <<>> /\ Top.kind = "NonTerminal" /\ ctl.mode # "throw" /\ Pop
        /\ Plain(c, ctx')
    BY <1>7, PlainMethods DEF NonTerminalFailed, Finishing, At
  <2> QED
    BY <2>1, BlamesRule, RuleCloses
<1>8. CASE NonTerminalRecovered
  <2> DEFINE c == record_failure(LeaveRule(ctx), Top.start, RuleItem(ThisRule))
             diag == [pos |-> Top.start, rule |-> ThisRule]
  <2>1. /\ stack # <<>> /\ Top.kind = "NonTerminal" /\ ctl.mode # "throw" /\ Pop
    BY <1>8 DEF NonTerminalRecovered, Finishing, At
  <2>2. PICK scan \in Top.start..Len(input) :
          ctx' = update_rule_state(
                   record_diagnostic(reset(c, ResumeAt(scan)), diag),
                   ThisRule, Top.start,
                   [m_last_pos |-> ResumeAt(scan),
                    m_cached_result |-> Matched(nullptr)])
    BY <1>8 DEF NonTerminalRecovered
  <2> HIDE DEF c, diag
  <2>3. /\ Plain(c, reset(c, ResumeAt(scan)))
        /\ Plain(reset(c, ResumeAt(scan)),
                 record_diagnostic(reset(c, ResumeAt(scan)), diag))
        /\ Plain(record_diagnostic(reset(c, ResumeAt(scan)), diag), ctx')
    BY <2>2, PlainMethods
  <2>4. Plain(c, ctx')
    BY <2>3, PlainTrans
  <2> QED
    BY <2>1, <2>4, BlamesRule, RuleCloses DEF c
<1>9. CASE NonTerminalMatched
  <2> DEFINE c == LeaveRule(ctx)
  <2>1. /\ stack # <<>> /\ Top.kind = "NonTerminal" /\ ctl.mode # "throw" /\ Pop
    BY <1>9 DEF NonTerminalMatched, Finishing, At
  <2>2. \E t, node, rs, d :
          /\ d = make_node(c, node) \/ d = edit_node(c, t, node)
          /\ ctx' = update_rule_state(d, ThisRule, Top.start, rs)
    BY <1>9 DEF NonTerminalMatched
  <2>3. Plain(c, ctx')
    BY <2>2, PlainMethods, PlainTrans
  <2> QED
    BY <2>1, <2>3, LeaveScopes, RuleCloses
<1> QED
  BY <1>1, <1>2, <1>3, <1>4, <1>5, <1>6, <1>7, <1>8, <1>9 DEF NonTerminalStep

\* A ParseError passes a call.
LEMMA UnwindShape == Inv /\ Unwind => Shaped
<1> SUFFICES ASSUME Inv, Unwind PROVE Closes
  BY DEF Shaped
<1>1. Len(input) \in Nat /\ ctx \in Contexts(Len(input))
  BY Facts DEF ContextOK
<1>2. stack # <<>> /\ stack' = Front(stack) /\ ctl.mode = "throw"
  BY DEF Unwind, Pop, Front
<1>3. CASE Top.kind \in CutKinds
  <2>1. ctx' = remove_cut(ctx)
    BY <1>3 DEF Unwind, CutKinds
  <2>2. ctx'.m_lr_stack = ctx.m_lr_stack
    BY <1>1, <2>1 DEF remove_cut, Contexts
  <2>3. ctx'.m_cut = Front(ctx.m_cut)
    BY <1>1, <2>1 DEF remove_cut, Contexts, Front
  <2> QED
    BY <1>2, <1>3, <2>2, <2>3 DEF Closes
<1>4. CASE Top.kind \notin CutKinds
  <2>1. Plain(ctx, ctx')
    BY <1>4, PlainMethods DEF Unwind, CutKinds
  <2> QED
    BY <1>2, <1>4, <2>1, PlainStep DEF Closes
<1> QED
  BY <1>3, <1>4

\* Grammar::parse and the calls between two parses.
LEMMA GrammarShape == Inv /\ GrammarStep => Shaped
<1> SUFFICES ASSUME Inv, GrammarStep PROVE Stays
  BY DEF Shaped
<1>1. stack' = stack
  BY DEF GrammarStep, StartParse, StartRule, ParseReturns, ParseCatches,
         ParseThrows, Finish, TakeError, TakeDiagnostics
<1>2. Len(input) \in Nat /\ ctx \in Contexts(Len(input))
  BY Facts DEF ContextOK
<1>3. CASE TakeError
  <2>1. Writes(ctx, ctx', ErrorFields)
    BY <1>3, ScopeMethods DEF TakeError
  <2> QED
    BY <1>1, <1>2, <2>1, Unwritten, PlainStays DEF ErrorFields
<1>4. CASE ~ TakeError
  <2>1. Plain(ctx, ctx')
    BY <1>4, PlainMethods
       DEF GrammarStep, StartParse, StartRule, ParseReturns, ParseCatches,
           ParseThrows, Finish, TakeDiagnostics
  <2> QED
    BY <1>1, <2>1, PlainStep, PlainStays
<1> QED
  BY <1>3, <1>4

\* Every step has one of the three shapes.
LEMMA StepShape == Inv /\ Step => Shaped /\ Inv'
<1> SUFFICES ASSUME Inv, Step PROVE Shaped /\ Inv'
  OBVIOUS
<1>1. Inv'
  BY NextInv DEF Next
<1> QED
  BY <1>1, LeafShape, SequenceShape, AlternationShape, RepetitionShape,
     WrapperShape, SkipperShape, NonTerminalShape, UnwindShape, GrammarShape
     DEF Step

-----------------------------------------------------------------------------
(* Every open cut scope belongs to an active call.                         *)

\* The cut scopes of a stack are finitely many, and change at its top only.
LEMMA CutFramesFinite ==
  ASSUME NEW s \in Seq(Frames)
  PROVE  IsFiniteSet(CutFrames(s)) /\ Cardinality(CutFrames(s)) \in Nat
<1>1. IsFiniteSet(1..Len(s))
  BY FS_Interval
<1>2. CutFrames(s) \in SUBSET (1..Len(s))
  BY DEF CutFrames
<1>3. IsFiniteSet(CutFrames(s))
  BY <1>1, <1>2, FS_Subset
<1> QED
  BY <1>3, FS_CardinalityType

\* Opening a call.
LEMMA CutFramesPush ==
  ASSUME NEW s \in Seq(Frames), NEW f \in Frames
  PROVE  /\ CutFrames(Append(s, f)) =
              IF f.kind \in CutKinds THEN CutFrames(s) \cup {Len(s) + 1}
              ELSE CutFrames(s)
         /\ Len(s) + 1 \notin CutFrames(s)
<1> DEFINE t == Append(s, f)
<1>1. /\ Len(t) = Len(s) + 1 /\ Len(s) \in Nat /\ t[Len(s) + 1] = f
      /\ \A k \in 1..Len(s) : t[k] = s[k]
  OBVIOUS
<1> HIDE DEF t
<1>2. CutFrames(t) = IF f.kind \in CutKinds THEN CutFrames(s) \cup {Len(s) + 1}
                     ELSE CutFrames(s)
  BY <1>1 DEF CutFrames, CutKinds
<1>3. Len(s) + 1 \notin CutFrames(s)
  BY <1>1 DEF CutFrames
<1> QED
  BY <1>2, <1>3 DEF t

\* Closing the innermost call.
LEMMA CutFramesPop ==
  ASSUME NEW s \in Seq(Frames), s # <<>>
  PROVE  /\ CutFrames(Front(s)) = CutFrames(s) \ {Len(s)}
         /\ Len(s) \in CutFrames(s) <=> s[Len(s)].kind \in CutKinds
<1> DEFINE m == Len(s) - 1
           t == SubSeq(s, 1, m)
<1>1. Len(s) \in Nat /\ Len(s) >= 1 /\ m \in Nat
  OBVIOUS
<1>2. Len(t) = m /\ \A k \in 1..m : t[k] = s[k]
  BY <1>1
<1> HIDE DEF t
<1>3. CutFrames(t) = CutFrames(s) \ {Len(s)}
  BY <1>1, <1>2 DEF CutFrames
<1>4. Len(s) \in CutFrames(s) <=> s[Len(s)].kind \in CutKinds
  BY <1>1 DEF CutFrames, CutKinds
<1> QED
  BY <1>3, <1>4 DEF t, Front

\* Whatever the shape of a step, the scopes and the calls stay in balance.
LEMMA BalancedStep ==
  ASSUME Inv, Inv', UNCHANGED setup, Shaped, CutScopesBalanced
  PROVE  CutScopesBalanced'
<1> DEFINE C == CutFrames(stack)
<1>1. stack \in Seq(Frames) /\ stack' \in Seq(Frames) /\ Len(stack) \in Nat
  BY StackTyped
<1>2. /\ Len(ctx.m_cut) = Cardinality(C) /\ Cardinality(C) \in Nat
      /\ IsFiniteSet(C)
  BY <1>1, CutFramesFinite DEF CutScopesBalanced
<1>3. ctx.m_cut \in Seq(CutRecords(Len(input)))
  BY Facts, FieldTypes DEF ContextOK
<1> SUFFICES Len(ctx'.m_cut) = Cardinality(CutFrames(stack'))
  BY DEF CutScopesBalanced
<1>4. CASE Stays
  <2>1. CutFrames(stack') = C
    BY <1>4 DEF Stays, SameCalls, CutFrames
  <2> QED
    BY <1>2, <1>4, <2>1 DEF Stays, SameScopesOpen
<1>5. CASE \E f : Opens(f)
  <2>1. PICK f : Opens(f)
    BY <1>5
  <2>2. f \in Frames /\ stack' = Append(stack, f)
    BY <2>1 DEF Opens
  <2>3. CASE f.kind \in CutKinds
    <3>1. Cardinality(CutFrames(stack')) = Cardinality(C) + 1
      BY <1>1, <1>2, <2>2, <2>3, CutFramesPush, FS_AddElement
    <3>2. Len(ctx'.m_cut) = Len(ctx.m_cut) + 1
      BY <1>3, <2>1, <2>3 DEF Opens
    <3> QED
      BY <1>2, <3>1, <3>2
  <2>4. CASE f.kind \notin CutKinds
    BY <1>1, <1>2, <2>1, <2>2, <2>4, CutFramesPush DEF Opens
  <2> QED
    BY <2>3, <2>4
<1>6. CASE Closes
  <2>1. stack # <<>> /\ stack' = Front(stack) /\ Top = stack[Len(stack)]
    BY <1>6 DEF Closes, Top
  <2>2. /\ CutFrames(stack') = C \ {Len(stack)}
        /\ Len(stack) \in C <=> Top.kind \in CutKinds
    BY <1>1, <2>1, CutFramesPop
  <2>3. CASE Top.kind \in CutKinds
    <3>1. Cardinality(CutFrames(stack')) = Cardinality(C) - 1
      BY <1>2, <2>2, <2>3, FS_RemoveElement
    <3>2. Cardinality(C) # 0
      BY <1>2, <2>2, <2>3, FS_EmptySet
    <3>3. ctx'.m_cut = SubSeq(ctx.m_cut, 1, Len(ctx.m_cut) - 1)
      BY <1>6, <2>3 DEF Closes, Front
    <3>4. Len(ctx'.m_cut) = Len(ctx.m_cut) - 1
      BY <1>2, <1>3, <3>2, <3>3
    <3> QED
      BY <1>2, <3>1, <3>4
  <2>4. CASE Top.kind \notin CutKinds
    <3>1. CutFrames(stack') = C
      BY <2>2, <2>4
    <3> QED
      BY <1>2, <1>6, <2>4, <3>1 DEF Closes
  <2> QED
    BY <2>3, <2>4
<1> QED
  BY <1>4, <1>5, <1>6 DEF Shaped

\* A step changes neither the grammar nor the input.
LEMMA SetupKept == [Next]_vars => UNCHANGED setup
BY DEF Next, Terminated, vars, setup, Step, LeafStep, SequenceStep,
       AlternationStep, RepetitionStep, WrapperStep, SkipperStep,
       NonTerminalStep, Unwind, GrammarStep, Inner, Leaf, TerminalMatch,
       TokenMatch, SingleFail, TerminalSeqMatch, TerminalSeqFail, MatcherMatch,
       MatcherFail, Empty, Cut, SequenceEnter, SequenceChild,
       SequenceChildMatched, SequenceMatched, SequenceFailed, AlternationEnter,
       AlternationMatched, AlternationNext, AlternationExhausted,
       AlternationThrow, RepetitionEnter, RepetitionChild,
       RepetitionChildMatched, RepetitionMatched, RepetitionTooFew,
       RepetitionEnds, RepetitionThrow, PredicateEnter, PredicateReturn,
       LexemeEnter, LexemeReturn, SkipperEnter, SkipperNone, SkipperReturn,
       NonTerminalReenter, NonTerminalMemoHit, NonTerminalEnter,
       NonTerminalGrow, NonTerminalFixedPoint, NonTerminalBodyFailed,
       NonTerminalFailed, NonTerminalRecovered, NonTerminalMatched, StartParse,
       StartRule, ParseReturns, ParseCatches, ParseThrows, Finish, TakeError,
       TakeDiagnostics

\* A step is a step of the code or changes nothing.
LEMMA CodeStep == [Next]_vars => Step \/ UNCHANGED vars
BY DEF Next, Terminated

\* init_cut and remove_cut pair up on every path through every grammar, also
\* when a ParseError leaves alternations and repetitions half-way.
THEOREM CutsBalance == Spec => []CutScopesBalanced
<1>1. Init => CutScopesBalanced
  <2> SUFFICES ASSUME Init PROVE CutScopesBalanced
    OBVIOUS
  <2>1. ctx.m_cut = <<>> /\ stack = <<>>
    BY DEF Init, NewContext
  <2>2. CutFrames(stack) = {}
    BY <2>1 DEF CutFrames
  <2> QED
    BY <2>1, <2>2, FS_EmptySet DEF CutScopesBalanced
<1>2. Inv /\ CutScopesBalanced /\ [Next]_vars => CutScopesBalanced'
  <2> SUFFICES ASSUME Inv, CutScopesBalanced, [Next]_vars
               PROVE  CutScopesBalanced'
    OBVIOUS
  <2>1. CASE Step
    BY <2>1, StepShape, SetupKept, BalancedStep
  <2>2. CASE UNCHANGED vars
    BY <2>2 DEF vars, CutScopesBalanced, CutFrames
  <2> QED
    BY <2>1, <2>2, CodeStep
<1> QED
  BY <1>1, <1>2, InitInv, NextInv, PTL DEF Spec

-----------------------------------------------------------------------------
(* The left-recursion stack mirrors the active NonTerminal calls.          *)

\* Where the control point goes.
LEMMA NextMode ==
  ASSUME Inv
  PROVE  /\ \A r, p : Return(r, p) => ctl'.mode = "return"
         /\ \A e : Call(e) => ctl'.mode = "call" /\ ctl'.e = e
         /\ \A m : Goto(m) => ctl'.mode = m /\ ctl'.e = ctl.e
BY DEF Inv, TypeOK, Control, Return, Call, Goto

\* While a parse runs it stays running, and once an error is thrown nothing
\* but unwinding happens to its calls.
Running ==
  /\ UNCHANGED driver
  /\ ctl.mode # "idle" /\ ctl'.mode # "idle"
  /\ ctl.mode = "throw" => ctl'.mode = "throw"

\* Every step but those of Grammar::parse itself is one of a running parse.
LEMMA RunningStep ==
  ASSUME Inv, Step, ~ GrammarStep
  PROVE  Running
<1>1. CASE LeafStep
  BY <1>1, NextMode
  DEF Running, Leaf, Calling, LeafStep, TerminalMatch, TokenMatch, SingleFail,
      TerminalSeqMatch, TerminalSeqFail, MatcherMatch, MatcherFail, Empty, Cut
<1>2. CASE SequenceStep
  BY <1>2, NextMode
  DEF Running, Inner, Calling, At, ReturnedTo, SequenceStep, SequenceEnter,
      SequenceChild, SequenceChildMatched, SequenceMatched, SequenceFailed
<1>3. CASE AlternationStep
  BY <1>3, NextMode
  DEF Running, Inner, Calling, At, ReturnedTo, AlternationStep,
      AlternationEnter, AlternationMatched, AlternationNext,
      AlternationExhausted, AlternationThrow
<1>4. CASE RepetitionStep
  <2>1. CASE RepetitionMatched
    <3>1. /\ ctl.mode = "return" /\ UNCHANGED driver
          /\ \E r, p : Return(r, p)
      BY <2>1 DEF RepetitionMatched, Inner, At, ReturnedTo
    <3> QED
      BY <3>1, NextMode DEF Running
  <2>2. CASE RepetitionEnter \/ RepetitionChild
    <3>1. /\ ctl.mode \in {"call", "go"} /\ UNCHANGED driver
          /\ Goto("go") \/ \E e : Call(e)
      BY <2>2 DEF Inner, Calling, At, RepetitionEnter, RepetitionChild
    <3> QED
      BY <3>1, NextMode DEF Running
  <2>3. CASE RepetitionChildMatched \/ RepetitionTooFew
    BY <2>3, NextMode
    DEF Running, Inner, At, ReturnedTo, RepetitionChildMatched,
        RepetitionTooFew
  <2>4. CASE RepetitionEnds
    BY <2>4, NextMode DEF Running, Inner, At, ReturnedTo, RepetitionEnds
  <2>5. CASE RepetitionThrow
    BY <2>5, NextMode DEF Running, Inner, At, ReturnedTo, RepetitionThrow
  <2> QED
    BY <1>4, <2>1, <2>2, <2>3, <2>4, <2>5 DEF RepetitionStep
<1>5. CASE WrapperStep
  BY <1>5, NextMode
  DEF Running, Inner, Calling, At, WrapperStep, PredicateEnter,
      PredicateReturn, LexemeEnter, LexemeReturn
<1>6. CASE SkipperStep
  <2>1. CASE SkipperEnter
    BY <2>1, NextMode DEF Running, Inner, SkipperEnter
  <2>2. CASE SkipperNone
    BY <2>2, NextMode DEF Running, Inner, SkipperNone
  <2>3. CASE SkipperReturn
    BY <2>3, NextMode DEF Running, Inner, At, SkipperReturn
  <2> QED
    BY <1>6, <2>1, <2>2, <2>3 DEF SkipperStep
<1>7. CASE NonTerminalStep
  <2>1. CASE NonTerminalReenter \/ NonTerminalMemoHit \/ NonTerminalEnter
    BY <2>1, NextMode
    DEF Running, Inner, Calling, NonTerminalReenter, NonTerminalMemoHit,
        NonTerminalEnter
  <2>2. CASE NonTerminalGrow
    BY <2>2, NextMode
    DEF Running, Inner, At, ReturnedTo, NonTerminalGrow
  <2>3. CASE NonTerminalFixedPoint \/ NonTerminalBodyFailed
    BY <2>3, NextMode
    DEF Running, Inner, At, ReturnedTo, NonTerminalFixedPoint,
        NonTerminalBodyFailed
  <2>4. CASE NonTerminalFailed \/ NonTerminalRecovered \/ NonTerminalMatched
    BY <2>4, NextMode
    DEF Running, Inner, At, Finishing, NonTerminalFailed, NonTerminalRecovered,
        NonTerminalMatched
  <2> QED
    BY <1>7, <2>1, <2>2, <2>3, <2>4 DEF NonTerminalStep
<1>8. CASE Unwind
  BY <1>8 DEF Running, Inner, Unwind
<1> QED
  BY <1>1, <1>2, <1>3, <1>4, <1>5, <1>6, <1>7, <1>8 DEF Step

\* l lists exactly the NonTerminal calls of s.
Mirrors(s, l) ==
  /\ \A i \in 1..Len(l) : \E k \in RuleFrames(s) : s[k].lr = i
  /\ \A k \in RuleFrames(s) :
       /\ s[k].lr \in 1..Len(l)
       /\ \A j \in RuleFrames(s) : j < k => s[j].lr < s[k].lr
       /\ l[s[k].lr].rule = s[k].e.rule
       /\ l[s[k].lr].pos = s[k].start

\* The part of the invariant Inv does not have: a parse in progress is
\* running, and its LR stack mirrors its calls until it throws.
MirrorInv ==
  /\ ctl.mode # "idle" => outcome = "running"
  /\ ctl.mode = "idle" => outcome # "running"
  /\ ctl.mode \notin {"throw", "idle"} \/ outcome = "true" =>
       Mirrors(stack, ctx.m_lr_stack)

\* Whatever the shape of a step, the mirror image stays.
LEMMA MirrorStep ==
  ASSUME Inv, Inv', UNCHANGED setup, Shaped, ctl.mode # "throw",
         Mirrors(stack, ctx.m_lr_stack)
  PROVE  Mirrors(stack', ctx'.m_lr_stack)
<1> DEFINE R == RuleFrames(stack)
           l == ctx.m_lr_stack
<1>1. /\ stack \in Seq(Frames) /\ stack' \in Seq(Frames) /\ Len(stack) \in Nat
      /\ l \in Seq(LRFrames(Len(input))) /\ Len(l) \in Nat
  BY StackTyped, Facts
<1>2. \A k \in 1..Len(stack) : stack[k] \in Frames
  BY <1>1
<1>3. CASE Stays
  <2>1. RuleFrames(stack') = R
    BY <1>3 DEF Stays, SameCalls, RuleFrames
  <2>2. /\ \A k \in R : /\ stack'[k].lr = stack[k].lr /\ stack'[k].e = stack[k].e
                        /\ stack'[k].start = stack[k].start
                        /\ stack[k].lr \in 1..Len(l)
    BY <1>3 DEF Stays, SameCalls, RuleFrames, Mirrors
  <2>3. /\ Len(ctx'.m_lr_stack) = Len(l)
        /\ \A k \in 1..Len(l) : /\ ctx'.m_lr_stack[k].rule = l[k].rule
                                /\ ctx'.m_lr_stack[k].pos = l[k].pos
    BY <1>3 DEF Stays, SameRules
  <2>4. ASSUME NEW i \in 1..Len(ctx'.m_lr_stack)
        PROVE  \E k \in RuleFrames(stack') : stack'[k].lr = i
    <3>1. PICK k \in R : stack[k].lr = i
      BY <2>3, <2>4 DEF Mirrors
    <3> QED
      BY <2>1, <2>2, <3>1
  <2>5. ASSUME NEW k \in RuleFrames(stack')
        PROVE  /\ stack'[k].lr \in 1..Len(ctx'.m_lr_stack)
               /\ \A j \in RuleFrames(stack') :
                    j < k => stack'[j].lr < stack'[k].lr
               /\ ctx'.m_lr_stack[stack'[k].lr].rule = stack'[k].e.rule
               /\ ctx'.m_lr_stack[stack'[k].lr].pos = stack'[k].start
    <3>1. k \in R /\ stack'[k].lr = stack[k].lr /\ stack[k].lr \in 1..Len(l)
      BY <2>1, <2>2, <2>5
    <3>2. \A j \in R : j < k => stack[j].lr < stack[k].lr
      BY <3>1 DEF Mirrors
    <3>3. /\ l[stack[k].lr].rule = stack[k].e.rule
          /\ l[stack[k].lr].pos = stack[k].start
      BY <3>1 DEF Mirrors
    <3>4. \A j \in RuleFrames(stack') : j < k => stack'[j].lr < stack'[k].lr
      BY <2>1, <2>2, <3>1, <3>2
    <3> QED
      BY <2>2, <2>3, <3>1, <3>3, <3>4
  <2> QED
    BY <2>4, <2>5 DEF Mirrors
<1>4. CASE \E f : Opens(f)
  <2>1. PICK f : Opens(f)
    BY <1>4
  <2> DEFINE n == Len(stack) + 1
  <2>2. /\ f \in Frames /\ Len(stack') = n /\ stack'[n] = f
        /\ \A k \in 1..Len(stack) : stack'[k] = stack[k]
    BY <1>1, <2>1 DEF Opens
  <2>3. CASE f.kind # "NonTerminal"
    <3>1. RuleFrames(stack') = R /\ ctx'.m_lr_stack = l
      BY <1>1, <2>1, <2>2, <2>3 DEF RuleFrames, Opens
    <3>2. \A k \in R : stack'[k] = stack[k]
      BY <2>2 DEF RuleFrames
    <3> QED
      BY <3>1, <3>2 DEF Mirrors
  <2>4. CASE f.kind = "NonTerminal"
    <3>1. PICK x : /\ ctx'.m_lr_stack = Append(l, x)
                   /\ x.rule = f.e.rule /\ x.pos = f.start
      BY <2>1, <2>4 DEF Opens
    <3>2. f.lr = Len(l) + 1
      BY <2>1, <2>4 DEF Opens
    <3>3. /\ Len(ctx'.m_lr_stack) = Len(l) + 1 /\ ctx'.m_lr_stack[f.lr] = x
          /\ \A k \in 1..Len(l) : ctx'.m_lr_stack[k] = l[k]
      BY <1>1, <3>1, <3>2
    <3>4. RuleFrames(stack') = R \cup {n} /\ n \notin R
      BY <1>1, <2>2, <2>4 DEF RuleFrames
    <3>5. \A k \in R : /\ stack'[k] = stack[k] /\ stack[k].lr \in 1..Len(l)
                       /\ k \in Int /\ k < n
      BY <1>1, <2>2 DEF RuleFrames, Mirrors
    <3>7. ASSUME NEW i \in 1..Len(ctx'.m_lr_stack)
          PROVE  \E k \in RuleFrames(stack') : stack'[k].lr = i
      <4>1. CASE i \in 1..Len(l)
        BY <3>4, <3>5, <4>1 DEF Mirrors
      <4>2. CASE i = f.lr
        BY <2>2, <3>4, <4>2
      <4> QED
        BY <1>1, <3>2, <3>3, <4>1, <4>2
    <3>8. ASSUME NEW k \in RuleFrames(stack')
          PROVE  /\ stack'[k].lr \in 1..Len(ctx'.m_lr_stack)
                 /\ \A j \in RuleFrames(stack') :
                      j < k => stack'[j].lr < stack'[k].lr
                 /\ ctx'.m_lr_stack[stack'[k].lr].rule = stack'[k].e.rule
                 /\ ctx'.m_lr_stack[stack'[k].lr].pos = stack'[k].start
      <4>1. CASE k \in R
        <5>1. /\ stack'[k] = stack[k] /\ stack[k].lr \in 1..Len(l)
              /\ k \in Int /\ k < n
          BY <3>5, <4>1
        <5>2. \A j \in RuleFrames(stack') : j < k => j \in R
          BY <1>1, <3>4, <5>1
        <5>3. \A j \in R : j < k => stack[j].lr < stack[k].lr
          BY <4>1 DEF Mirrors
        <5>4. \A j \in RuleFrames(stack') :
                j < k => stack'[j].lr < stack'[k].lr
          BY <3>5, <5>1, <5>2, <5>3
        <5>5. /\ l[stack[k].lr].rule = stack[k].e.rule
              /\ l[stack[k].lr].pos = stack[k].start
          BY <4>1 DEF Mirrors
        <5>6. stack[k].lr \in 1..(Len(l) + 1)
          BY <1>1, <5>1
        <5> QED
          BY <3>3, <5>1, <5>4, <5>5, <5>6
      <4>2. CASE k = n
        <5>1. stack'[k] = f /\ f.lr \in 1..(Len(l) + 1)
          BY <1>1, <2>2, <3>2, <4>2
        <5>2. \A j \in RuleFrames(stack') : j < k => j \in R
          BY <1>1, <3>4, <4>2
        <5>3. \A j \in R : stack'[j].lr < f.lr
          BY <1>1, <3>2, <3>5
        <5> QED
          BY <3>1, <3>3, <5>1, <5>2, <5>3
      <4> QED
        BY <3>4, <4>1, <4>2
    <3> QED
      BY <3>7, <3>8 DEF Mirrors
  <2> QED
    BY <2>3, <2>4
<1>5. CASE Closes
  <2> DEFINE m == Len(stack)
  <2>1. stack # <<>> /\ stack' = Front(stack) /\ Top = stack[m]
    BY <1>5 DEF Closes, Top
  <2>2. /\ Len(stack') = m - 1 /\ m >= 1
        /\ \A k \in 1..(m - 1) : stack'[k] = stack[k]
    BY <1>1, <2>1, Facts, FrontFacts
  <2>3. RuleFrames(stack') = R \ {m} /\ \A k \in R : k <= m
    BY <1>1, <2>2 DEF RuleFrames
  <2>4. \A k \in R \ {m} : stack'[k] = stack[k] /\ stack[k].lr \in 1..Len(l)
    BY <1>1, <2>2 DEF RuleFrames, Mirrors
  <2>5. CASE Top.kind # "NonTerminal"
    <3>1. R \ {m} = R /\ ctx'.m_lr_stack = l
      BY <1>5, <2>1, <2>5 DEF RuleFrames, Closes
    <3> QED
      BY <2>3, <2>4, <3>1 DEF Mirrors
  <2>6. CASE Top.kind = "NonTerminal"
    <3>1. m \in R /\ Top.lr \in 1..Len(l)
      BY <1>1, <2>1, <2>2, <2>6 DEF RuleFrames, Mirrors
    <3>2. \A k \in R \ {m} : stack[k].lr < Top.lr
      BY <1>1, <2>1, <2>3, <3>1 DEF Mirrors, RuleFrames
    <3>3. Top.lr = Len(l)
      <4>1. Len(l) \in 1..Len(l)
        BY <1>1, <3>1
      <4>2. PICK k \in R : stack[k].lr = Len(l)
        BY <4>1 DEF Mirrors
      <4> QED
        BY <1>1, <2>1, <3>1, <3>2, <4>2
    <3>4. ctx'.m_lr_stack = SubSeq(l, 1, Len(l) - 1)
      BY <1>5, <2>6, <3>3 DEF Closes
    <3>5. /\ Len(ctx'.m_lr_stack) = Len(l) - 1
          /\ \A k \in 1..(Len(l) - 1) : ctx'.m_lr_stack[k] = l[k]
      BY <1>1, <3>1, <3>4
    <3>6. \A k \in R \ {m} : stack[k].lr \in 1..(Len(l) - 1)
      BY <1>1, <2>4, <3>2, <3>3
    <3>7. ASSUME NEW i \in 1..(Len(l) - 1)
          PROVE  \E k \in R \ {m} : stack[k].lr = i
      <4>1. i \in 1..Len(l) /\ i # Len(l)
        BY <1>1
      <4>2. PICK k \in R : stack[k].lr = i
        BY <4>1 DEF Mirrors
      <4> QED
        BY <2>1, <3>3, <4>1, <4>2
    <3>8. ASSUME NEW i \in 1..Len(ctx'.m_lr_stack)
          PROVE  \E k \in RuleFrames(stack') : stack'[k].lr = i
      BY <2>3, <2>4, <3>5, <3>7, <3>8
    <3>9. ASSUME NEW k \in RuleFrames(stack')
          PROVE  /\ stack'[k].lr \in 1..Len(ctx'.m_lr_stack)
                 /\ \A j \in RuleFrames(stack') :
                      j < k => stack'[j].lr < stack'[k].lr
                 /\ ctx'.m_lr_stack[stack'[k].lr].rule = stack'[k].e.rule
                 /\ ctx'.m_lr_stack[stack'[k].lr].pos = stack'[k].start
      <4>1. /\ k \in R /\ stack'[k] = stack[k]
            /\ stack[k].lr \in 1..(Len(l) - 1)
        BY <2>3, <2>4, <3>6, <3>9
      <4>2. /\ \A j \in R : j < k => stack[j].lr < stack[k].lr
            /\ l[stack[k].lr].rule = stack[k].e.rule
            /\ l[stack[k].lr].pos = stack[k].start
        BY <4>1 DEF Mirrors
      <4>3. \A j \in RuleFrames(stack') :
              j < k => stack'[j].lr < stack'[k].lr
        BY <2>3, <2>4, <4>1, <4>2
      <4> QED
        BY <3>5, <4>1, <4>2, <4>3
    <3> QED
      BY <3>8, <3>9 DEF Mirrors
  <2> QED
    BY <2>5, <2>6
<1> QED
  BY <1>3, <1>4, <1>5 DEF Shaped

\* An empty stack has an empty mirror image.
LEMMA MirrorEmpty ==
  ASSUME NEW l, Len(l) = 0
  PROVE  Mirrors(<<>>, l)
BY DEF Mirrors, RuleFrames

\* MirrorInv is inductive, given Inv.
LEMMA MirrorNext == Inv /\ MirrorInv /\ [Next]_vars => MirrorInv'
<1> SUFFICES ASSUME Inv, MirrorInv, [Next]_vars PROVE MirrorInv'
  OBVIOUS
<1>1. CASE Step /\ ~ GrammarStep
  <2>1. Shaped /\ Inv' /\ UNCHANGED setup /\ Running
    BY <1>1, StepShape, SetupKept, RunningStep
  <2> QED
    BY <2>1, MirrorStep DEF MirrorInv, Running, driver
<1>2. CASE GrammarStep
  <2>1. stack' = stack /\ (ctl.mode = "idle" => stack = <<>>)
    BY <1>2, Facts
    DEF GrammarStep, StartParse, StartRule, ParseReturns, ParseCatches,
        ParseThrows, Finish, TakeError, TakeDiagnostics, ControlOK, TopOK
  <2>2. CASE StartParse
    <3>1. Plain(ctx, ctx') /\ ctx.m_lr_stack = <<>> /\ ctl.mode = "idle"
      BY <2>2, PlainMethods DEF StartParse
    <3>2. Len(ctx'.m_lr_stack) = 0
      BY <3>1, PlainStep
    <3>3. ctl'.mode = "skip" /\ outcome' = "running"
      BY <2>2, Facts DEF StartParse, Control
    <3> QED
      BY <2>1, <3>1, <3>2, <3>3, MirrorEmpty DEF MirrorInv
  <2>3. CASE StartRule
    <3>1. /\ ctx' = ctx /\ ctl.mode = "go" /\ ctl'.mode = "call"
          /\ outcome' = outcome
      BY <2>3, NextMode DEF StartRule
    <3> QED
      BY <2>1, <3>1 DEF MirrorInv
  <2>4. CASE ParseReturns
    <3>1. /\ ctx' = ctx /\ ctl.mode = "return" /\ ctl'.mode = "idle"
          /\ outcome' \in {"true", "false"}
      BY <2>4, NextMode DEF ParseReturns, Finish
    <3> QED
      BY <2>1, <3>1 DEF MirrorInv
  <2>5. CASE ParseCatches \/ ParseThrows
    <3>1. ctl'.mode = "idle" /\ outcome' \in {"false", "exception"}
      BY <2>5, NextMode DEF ParseCatches, ParseThrows, Finish
    <3> QED
      BY <3>1 DEF MirrorInv
  <2>6. CASE TakeError
    BY <2>6 DEF MirrorInv, TakeError
  <2>7. CASE TakeDiagnostics
    <3>1. Plain(ctx, ctx')
      BY <2>7, PlainMethods DEF TakeDiagnostics
    <3> QED
      BY <2>1, <2>7, <3>1, PlainStep DEF MirrorInv, TakeDiagnostics, driver
  <2> QED
    BY <1>2, <2>2, <2>3, <2>4, <2>5, <2>6, <2>7 DEF GrammarStep
<1>3. CASE UNCHANGED vars
  BY <1>3 DEF vars, MirrorInv, Mirrors, RuleFrames
<1> QED
  BY <1>1, <1>2, <1>3, CodeStep

\* A Context starts with no parse.
LEMMA MirrorInit == Init => MirrorInv
BY DEF Init, MirrorInv

\* Until an error is thrown, m_lr_stack lists exactly the active
\* NonTerminal::parse calls, so that lr_pop pops its own frame and no other,
\* and a finished parse that matched leaves it empty.
THEOREM LrMirrors == Spec => []LrStackMirrorsCalls
<1>1. MirrorInv => LrStackMirrorsCalls
  <2>1. Mirrors(stack, ctx.m_lr_stack) =>
          {stack[k].lr : k \in RuleFrames(stack)} = 1..Len(ctx.m_lr_stack)
    BY DEF Mirrors
  <2> QED
    BY <2>1 DEF MirrorInv, Mirrors, LrStackMirrorsCalls
<1> QED
  BY <1>1, MirrorInit, MirrorNext, InitInv, NextInv, PTL DEF Spec

-----------------------------------------------------------------------------
(* What each step writes.                                                  *)

\* The steps that write the skip flag.
Skips ==
  \/ LexemeEnter \/ LexemeReturn \/ SkipperEnter \/ SkipperReturn
  \/ Unwind /\ Top.kind = "Lexeme"

\* The innermost call has a cut scope, and it is committed.
TopCommitted ==
  stack # <<>> /\ Top.kind \in CutKinds /\ IsCut(ctx)

\* What the other steps of combinators and leaf expressions write: they touch
\* the memo only when they leave a committed cut scope.
EvalFields ==
  {"m_position", "m_node_arena", "m_cut"} \cup
  (IF TopCommitted THEN {"m_mem", "m_last_cut"} ELSE {})

\* Leaving the innermost cut scope after calls that write no scope.
LEMMA EvalRemoves ==
  ASSUME Inv, stack # <<>>, Top.kind \in CutKinds,
         NEW c, Writes(ctx, c, {"m_position", "m_node_arena"})
  PROVE  Writes(ctx, remove_cut(c), EvalFields)
<1>1. Len(input) \in Nat /\ ctx \in Contexts(Len(input))
  BY Facts DEF ContextOK
<1>2. c.m_cut = ctx.m_cut
  BY <1>1, Unwritten
<1>3. IsCut(c) = IsCut(ctx)
  BY <1>2 DEF IsCut
<1>4. Writes(ctx, c, EvalFields)
  BY WritesMore DEF EvalFields
<1>5. Writes(c, remove_cut(c), EvalFields)
  BY <1>3, Footprints DEF EvalFields, TopCommitted
<1> QED
  BY <1>4, <1>5, WritesTrans

\* The step leaves the innermost cut scope, after calls that write no scope.
LeavesScope ==
  /\ stack # <<>> /\ Top.kind \in CutKinds
  /\ \E c : Writes(ctx, c, {"m_position", "m_node_arena"}) /\ ctx' = remove_cut(c)

\* The combinators and leaf expressions write the memo only so.
LEMMA EvalMoves ==
  ASSUME Inv, ~ Skips, ~ (SingleFail \/ TerminalSeqFail),
         \/ LeafStep \/ SequenceStep \/ AlternationStep \/ RepetitionStep
         \/ WrapperStep \/ SkipperStep \/ Unwind
  PROVE  Writes(ctx, ctx', {"m_position", "m_node_arena", "m_cut"}) \/ LeavesScope
<1> DEFINE F == {"m_position", "m_node_arena", "m_cut"}
           P == {"m_position", "m_node_arena"}
           G == Writes(ctx, ctx', F) \/ LeavesScope
<1> SUFFICES G
  OBVIOUS
<1>1. /\ "m_position" \in F /\ "m_node_arena" \in F /\ "m_cut" \in F
      /\ Writes(ctx, ctx, F)
  BY Footprints
<1>2. /\ "m_position" \in P /\ "m_node_arena" \in P
      /\ Writes(ctx, ctx, P)
  BY Footprints
<1>3. stack # <<>> /\ Top.kind \in CutKinds =>
        \A c : Writes(ctx, c, P) /\ ctx' = remove_cut(c) => G
  BY DEF LeavesScope
<1>d. Writes(ctx, ctx', F) => G
  OBVIOUS
<1>c. ReturnedTo("Alternation", TRUE) \/ ReturnedTo("Alternation", FALSE)
        \/ ReturnedTo("Repetition", TRUE) \/ ReturnedTo("Repetition", FALSE)
        => stack # <<>> /\ Top.kind \in CutKinds
  BY DEF ReturnedTo, At, CutKinds
<1>a. /\ \A d, x : Writes(ctx, d, F) => /\ Writes(ctx, reset(d, x), F)
                                       /\ Writes(ctx, make_node(d, x), F)
                                       /\ Writes(ctx, set_end(d, x), F)
      /\ \A d, x, y : Writes(ctx, d, F) => /\ Writes(ctx, edit_node(d, x, y), F)
                                          /\ Writes(ctx, push_child(d, x, y), F)
  BY <1>1, MoveThen
<1>b. /\ \A d, x : Writes(ctx, d, P) => /\ Writes(ctx, reset(d, x), P)
                                       /\ Writes(ctx, make_node(d, x), P)
                                       /\ Writes(ctx, set_end(d, x), P)
      /\ \A d, x, y : Writes(ctx, d, P) => /\ Writes(ctx, edit_node(d, x, y), P)
                                          /\ Writes(ctx, push_child(d, x, y), P)
  BY <1>2, MoveThen
<1> HIDE DEF F, P, G
<1>4. CASE LeafStep
  <2>1. Writes(ctx, next(ctx), F)
    BY <1>1, Footprints
  <2>2. CASE TerminalMatch \/ TerminalSeqMatch \/ MatcherFail \/ Empty
    BY <1>1, <2>1, <2>2, <1>a, <1>b, <1>d
    DEF TerminalMatch, TerminalSeqMatch, MatcherFail, Empty
  <2>3. CASE TokenMatch
    BY <1>1, <2>1, <2>3, <1>a, <1>b, <1>d DEF TokenMatch
  <2>4. CASE MatcherMatch
    <3>1. \A x : Writes(ctx, reset(ctx, x), F)
      BY <1>1, <1>a, <1>b, <1>d
    <3>2. \A x, y : Writes(ctx, make_node(reset(ctx, x), y), F)
      BY <1>1, <3>1, <1>a, <1>b, <1>d
    <3> QED
      BY <1>d, <2>4, <3>2 DEF MatcherMatch
  <2>5. CASE Cut
    <3>1. Writes(ctx, cut(ctx, TRUE), F)
      BY <1>1, Footprints
    <3> QED
      BY <1>d, <2>5, <3>1 DEF Cut
  <2> QED
    BY <1>4, <2>2, <2>3, <2>4, <2>5 DEF LeafStep
<1>5. CASE SequenceStep
  <2>1. \A x, y : Writes(ctx, push_child(ctx, x, y), F)
    BY <1>1, Footprints
  <2>2. CASE SequenceMatched
    BY <1>1, <2>1, <2>2, <1>a, <1>b, <1>d DEF SequenceMatched
  <2>3. CASE ~ SequenceMatched
    BY <1>1, <1>5, <2>1, <2>3, <1>a, <1>b, <1>d
    DEF SequenceStep, SequenceEnter, SequenceChild, SequenceChildMatched,
        SequenceFailed
  <2> QED
    BY <2>2, <2>3
<1>6. CASE AlternationStep
  <2>1. CASE AlternationMatched
    <3>1. Writes(ctx, stamp_winner(ctx, ctl.res.tree, Top.i), P)
      BY <1>2, <1>a, <1>b, <1>d DEF stamp_winner
    <3> QED
      BY <1>3, <1>c, <2>1, <3>1 DEF AlternationMatched
  <2>2. CASE AlternationEnter
    <3>1. Writes(ctx, init_cut(ctx), F)
      BY <1>1, Footprints
    <3> QED
      BY <1>d, <2>2, <3>1 DEF AlternationEnter
  <2>3. CASE AlternationNext \/ AlternationThrow
    BY <1>d, <1>1, <2>3 DEF AlternationNext, AlternationThrow
  <2>4. CASE AlternationExhausted
    BY <1>2, <1>3, <1>c, <2>4 DEF AlternationExhausted
  <2> QED
    BY <1>6, <2>1, <2>2, <2>3, <2>4 DEF AlternationStep
<1>7. CASE RepetitionStep
  <2> DEFINE c == reset(ctx, Top.last)
             p == PadChildren(c, Top.node, Top.i)
             d == push_child(ctx, Top.node, ctl.res.tree)
  <2>1. Writes(ctx, p, P) /\ Writes(ctx, d, P) /\ Writes(ctx, d, F)
        /\ Writes(ctx, p, F)
    <3>1. Writes(ctx, c, P) /\ Writes(ctx, c, F)
      BY <1>1, <1>2, <1>a, <1>b, <1>d
    <3>2. \E x : p = edit_node(c, Top.node, x)
      BY DEF PadChildren
    <3>3. Writes(ctx, d, P) /\ Writes(ctx, d, F)
      BY <1>1, <1>2, Footprints
    <3> HIDE DEF c, p, d
    <3> QED
      BY <1>1, <1>2, <3>1, <3>2, <3>3, <1>a, <1>b, <1>d
  <2>2. CASE RepetitionEnter
    <3>1. Writes(ctx, init_cut(ctx), F)
      BY <1>1, Footprints
    <3> QED
      BY <1>1, <2>2, <3>1, <1>a, <1>b, <1>d DEF RepetitionEnter
  <2>3. CASE RepetitionChild
    <3>1. Writes(ctx, cut(ctx, FALSE), F)
      BY <1>1, Footprints
    <3> QED
      BY <1>d, <2>3, <3>1 DEF RepetitionChild
  <2>4. CASE RepetitionChildMatched
    BY <1>d, <2>1, <2>4 DEF RepetitionChildMatched
  <2>5. CASE RepetitionMatched
    <3>1. \/ ctx' = remove_cut(reset(d, Top.start))
          \/ ctx' = remove_cut(set_end(d, Top.node))
      BY <2>5 DEF RepetitionMatched
    <3> HIDE DEF d
    <3>2. Writes(ctx, reset(d, Top.start), P) /\ Writes(ctx, set_end(d, Top.node), P)
      BY <1>2, <2>1, <1>a, <1>b, <1>d
    <3>3. ReturnedTo("Repetition", TRUE)
      BY <2>5 DEF RepetitionMatched
    <3> QED
      BY <1>3, <1>c, <3>1, <3>2, <3>3
  <2>6. CASE RepetitionTooFew
    <3>1. Writes(ctx, reset(ctx, Top.start), P)
      BY <1>2, <1>a, <1>b, <1>d
    <3> QED
      BY <1>3, <1>c, <2>6, <3>1 DEF RepetitionTooFew
  <2>7. CASE RepetitionEnds
    <3>1. ctx' = remove_cut(set_end(p, Top.node))
      BY <2>7 DEF RepetitionEnds
    <3> HIDE DEF p
    <3>2. Writes(ctx, set_end(p, Top.node), P)
      BY <1>2, <2>1, <1>a, <1>b, <1>d
    <3>3. ReturnedTo("Repetition", FALSE)
      BY <2>7 DEF RepetitionEnds
    <3> QED
      BY <1>3, <1>c, <3>1, <3>2, <3>3
  <2>8. CASE RepetitionThrow
    BY <1>d, <2>1, <2>8 DEF RepetitionThrow
  <2> QED
    BY <1>7, <2>2, <2>3, <2>4, <2>5, <2>6, <2>7, <2>8 DEF RepetitionStep
<1>8. CASE WrapperStep
  BY <1>1, <1>8, <1>a, <1>b, <1>d
  DEF WrapperStep, PredicateEnter, PredicateReturn, Skips
<1>9. CASE SkipperStep
  BY <1>d, <1>1, <1>9 DEF SkipperStep, SkipperNone, Skips
<1>10. CASE Unwind
  <2>1. \/ ctx' = ctx
        \/ ctx' = remove_cut(ctx) /\ stack # <<>> /\ Top.kind \in CutKinds
    BY <1>10 DEF Unwind, Skips, CutKinds
  <2> QED
    BY <1>d, <1>1, <1>2, <1>3, <2>1
<1> QED
  BY <1>4, <1>5, <1>6, <1>7, <1>8, <1>9, <1>10

\* The combinators and leaf expressions.
LEMMA EvalWrites ==
  ASSUME Inv, ~ Skips, ~ (SingleFail \/ TerminalSeqFail),
         \/ LeafStep \/ SequenceStep \/ AlternationStep \/ RepetitionStep
         \/ WrapperStep \/ SkipperStep \/ Unwind
  PROVE  Writes(ctx, ctx', EvalFields)
<1>1. Writes(ctx, ctx', {"m_position", "m_node_arena", "m_cut"}) =>
        Writes(ctx, ctx', EvalFields)
  BY WritesMore DEF EvalFields
<1>2. LeavesScope => Writes(ctx, ctx', EvalFields)
  BY EvalRemoves DEF LeavesScope
<1> QED
  BY <1>1, <1>2, EvalMoves

\* A failed terminal writes the error tracker.
LEMMA TerminalWrites ==
  SingleFail \/ TerminalSeqFail => Writes(ctx, ctx', ErrorFields)
BY ScopeMethods DEF SingleFail, TerminalSeqFail, record_expected

\* The lexemes and the skipper write the skip flag.
LEMMA SkipWrites == Skips => Writes(ctx, ctx', {"m_skip_enabled"})
<1>1. \A F : "m_skip_enabled" \in F => \A x : Writes(ctx, skip_enabled(ctx, x), F)
  BY Footprints
<1>2. \A x : Writes(ctx, skip_enabled(ctx, x), {"m_skip_enabled"})
  BY <1>1
<1> QED
  BY <1>2 DEF Skips, LexemeEnter, LexemeReturn, SkipperEnter, SkipperReturn,
              Unwind

\* What a rule writes as long as it does not fail.
RuleFields ==
  {"m_position", "m_node_arena", "m_mem", "m_lr_stack", "m_growing_head"}

\* Leaving a rule.
LEMMA LeaveWrites ==
  Writes(ctx, LeaveRule(ctx), {"m_lr_stack", "m_growing_head"})
<1> DEFINE F == {"m_lr_stack", "m_growing_head"}
           d == lr_pop(ctx, Top.lr)
<1>1. "m_lr_stack" \in F /\ "m_growing_head" \in F
  OBVIOUS
<1>2. LeaveRule(ctx) = d \/ LeaveRule(ctx) = clear_growing_head(d, Top.start)
  BY DEF LeaveRule
<1> HIDE DEF F
<1>3. Writes(ctx, d, F)
  BY <1>1, Footprints
<1> HIDE DEF d
<1>4. Writes(d, clear_growing_head(d, Top.start), F)
  BY <1>1, Footprints
<1>5. Writes(ctx, LeaveRule(ctx), F)
  BY <1>2, <1>3, <1>4, WritesTrans
<1> QED
  BY <1>5 DEF F

\* The rules.
LEMMA RuleWrites ==
  ASSUME NonTerminalStep, ~ (NonTerminalFailed \/ NonTerminalRecovered)
  PROVE  Writes(ctx, ctx', RuleFields)
<1> DEFINE F == RuleFields
<1> SUFFICES Writes(ctx, ctx', F)
  OBVIOUS
<1>1. /\ "m_position" \in F /\ "m_node_arena" \in F /\ "m_mem" \in F
      /\ "m_lr_stack" \in F /\ "m_growing_head" \in F /\ Writes(ctx, ctx, F)
  BY Footprints DEF RuleFields
<1>2. Writes(ctx, LeaveRule(ctx), F)
  BY LeaveWrites, WritesMore DEF RuleFields
<1>a. /\ \A d, x : Writes(ctx, d, F) => /\ Writes(ctx, reset(d, x), F)
                                       /\ Writes(ctx, make_node(d, x), F)
                                       /\ Writes(ctx, lr_push(d, x), F)
      /\ \A d, x, y : Writes(ctx, d, F) => /\ Writes(ctx, edit_node(d, x, y), F)
                                          /\ Writes(ctx, clear_siblings_at(d, x, y), F)
      /\ \A d, x, y, z :
           Writes(ctx, d, F) => Writes(ctx, update_rule_state(d, x, y, z), F)
  BY <1>1, MoveThen, MemoThen
<1> HIDE DEF F
<1>3. CASE NonTerminalReenter
  <2>1. Writes(ctx, mark_head(ctx, ctl.e.rule, mark(ctx)), F)
    BY <1>1, Footprints
  <2> QED
    BY <1>1, <1>3, <2>1, <1>a DEF NonTerminalReenter
<1>4. CASE NonTerminalMemoHit
  BY <1>1, <1>4, <1>a DEF NonTerminalMemoHit
<1>5. CASE NonTerminalEnter
  <2>1. \A x, y : Writes(ctx, rule_state(ctx, x, y), F)
    BY <1>1, Footprints
  <2>2. \A x, y, z : Writes(ctx, lr_push(rule_state(ctx, x, y), z), F)
    BY <1>1, <2>1, <1>a
  <2> QED
    BY <1>1, <1>5, <2>2, <1>a DEF NonTerminalEnter
<1>6. CASE NonTerminalGrow
  <2> DEFINE b == [ctx EXCEPT !.m_lr_stack[Top.lr].last_pos = mark(ctx)]
             rs == [m_last_pos |-> mark(ctx), m_cached_result |-> ctl.res]
             c == update_rule_state(b, ThisRule, Top.start, rs)
             e == clear_siblings_at(c, Top.start, ThisRule)
  <2>1. Writes(ctx, b, F)
    BY <1>1 DEF Writes
  <2>2. \E x : ctx' = reset(c, x) \/ ctx' = reset(e, x)
    BY <1>6 DEF NonTerminalGrow
  <2> HIDE DEF b
  <2>3. Writes(ctx, c, F)
    BY <1>1, <2>1, <1>a
  <2> HIDE DEF c
  <2>4. Writes(ctx, e, F)
    BY <1>1, <2>3, <1>a
  <2> HIDE DEF e
  <2> QED
    BY <1>1, <2>2, <2>3, <2>4, <1>a
<1>7. CASE NonTerminalFixedPoint
  <2>1. \E x, y, z, w : ctx' = reset(update_rule_state(ctx, x, y, z), w)
    BY <1>7 DEF NonTerminalFixedPoint
  <2>2. \A x, y, z : Writes(ctx, update_rule_state(ctx, x, y, z), F)
    BY <1>1, <1>a
  <2> QED
    BY <1>1, <2>1, <2>2, <1>a
<1>8. CASE NonTerminalBodyFailed
  BY <1>1, <1>8, <1>a DEF NonTerminalBodyFailed
<1>9. CASE NonTerminalMatched
  <2> DEFINE c == LeaveRule(ctx)
  <2>1. \E x, y, p, q, r :
          \/ ctx' = update_rule_state(make_node(c, x), p, q, r)
          \/ ctx' = update_rule_state(edit_node(c, y, x), p, q, r)
    BY <1>9 DEF NonTerminalMatched
  <2>2. Writes(ctx, c, F)
    BY <1>2
  <2> HIDE DEF c
  <2>3. \A x, y : Writes(ctx, make_node(c, x), F) /\ Writes(ctx, edit_node(c, y, x), F)
    BY <1>1, <2>2, <1>a
  <2> QED
    BY <1>1, <2>1, <2>3, <1>a
<1> QED
  BY <1>3, <1>4, <1>5, <1>6, <1>7, <1>8, <1>9 DEF NonTerminalStep

\* Grammar::parse sets the skipper; its caller takes errors and diagnostics.
LEMMA GrammarWrites ==
  /\ StartParse => Writes(ctx, ctx', {"m_skipper"})
  /\ TakeError => Writes(ctx, ctx', ErrorFields)
  /\ TakeDiagnostics => Writes(ctx, ctx', {"m_diagnostics"})
  /\ GrammarStep => \/ StartParse \/ TakeError \/ TakeDiagnostics
                    \/ ctx' = ctx
<1>1. \A F : /\ "m_skipper" \in F =>
                  \A x : Writes(ctx, internal_set_skipper(ctx, x), F)
             /\ "m_diagnostics" \in F => Writes(ctx, take_diagnostics(ctx), F)
  BY Footprints
<1>2. /\ \A x : Writes(ctx, internal_set_skipper(ctx, x), {"m_skipper"})
      /\ Writes(ctx, take_diagnostics(ctx), {"m_diagnostics"})
  BY <1>1
<1>3. Writes(ctx, take_error(ctx), ErrorFields)
  BY ScopeMethods
<1> QED
  BY <1>2, <1>3
  DEF StartParse, TakeError, TakeDiagnostics, GrammarStep, StartRule,
      ParseReturns, ParseCatches, ParseThrows, Finish

-----------------------------------------------------------------------------
(* The error tracker tells the truth.                                      *)

\* The steps that write the error tracker.
Tracks ==
  SingleFail \/ TerminalSeqFail \/ NonTerminalFailed \/ NonTerminalRecovered
  \/ TakeError

\* The other steps leave it alone.
LEMMA QuietStep ==
  ASSUME Inv, Step, ~ Tracks
  PROVE  Quiet(ctx, ctx')
<1>1. /\ EvalFields \subseteq QuietFields /\ {"m_skip_enabled"} \subseteq QuietFields
      /\ RuleFields \subseteq QuietFields /\ {"m_skipper"} \subseteq QuietFields
      /\ {"m_diagnostics"} \subseteq QuietFields
  BY DEF EvalFields, RuleFields, QuietFields, PlainFields
<1>2. \A F : F \subseteq QuietFields /\ Writes(ctx, ctx', F) => Quiet(ctx, ctx')
  BY WritesMore DEF Quiet
<1>3. CASE NonTerminalStep
  BY <1>1, <1>2, <1>3, RuleWrites DEF Tracks
<1>4. CASE GrammarStep
  <2>1. Writes(ctx, ctx, QuietFields)
    BY Footprints
  <2> QED
    BY <1>1, <1>2, <1>4, <2>1, GrammarWrites DEF Tracks, Quiet
<1>5. CASE Skips
  BY <1>1, <1>2, <1>5, SkipWrites
<1>6. CASE ~ Skips /\ ~ NonTerminalStep /\ ~ GrammarStep
  BY <1>1, <1>2, <1>6, EvalWrites DEF Tracks, Step
<1> QED
  BY <1>3, <1>4, <1>5, <1>6

\* The literal item is what the input holds from position q on.
Present(item, q) ==
  /\ q + Len(item.text) <= Len(input)
  /\ \A k \in 1..Len(item.text) : input[q + k] \in item.text[k]

\* item is blamed at pos, between steps that leave the tracker alone.
Blames(pos, item) ==
  \E c : Quiet(ctx, c) /\ Quiet(record_failure(c, pos, item), ctx')

\* A terminal that fails blames a literal the input does not hold there.
LEMMA TerminalBlames ==
  ASSUME Inv, SingleFail \/ TerminalSeqFail
  PROVE  /\ Blames(mark(ctx), LiteralItem(ctl.e))
         /\ ~ Present(LiteralItem(ctl.e), mark(ctx))
<1>1. Blames(mark(ctx), LiteralItem(ctl.e))
  <2>1. ctx' = record_failure(ctx, mark(ctx), LiteralItem(ctl.e))
    BY DEF SingleFail, TerminalSeqFail, record_expected
  <2>2. Quiet(ctx, ctx) /\ Quiet(ctx', ctx')
    BY Footprints DEF Quiet
  <2> QED
    BY <2>1, <2>2 DEF Blames
<1>2. LiteralItem(ctl.e).text = ctl.e.sym
  BY DEF LiteralItem
<1>3. CASE TerminalSeqFail
  <2>1. ~ LiteralHere(ctl.e.sym)
    BY <1>3 DEF TerminalSeqFail
  <2>2. ~ Present(LiteralItem(ctl.e), mark(ctx))
    BY <1>2, <2>1 DEF Present, LiteralHere, symbolConsumable
  <2> QED
    BY <1>1, <2>2
<1>4. CASE SingleFail
  <2>1. /\ ctl.e.op \in {"Terminal", "Token"} /\ ~ ElementHere(ctl.e)
        /\ Len(ctl.e.sym) = 1
    BY <1>4, Facts DEF SingleFail, ExprOK
  <2>2. /\ ctx.m_input_size = Len(input) /\ Len(input) \in Nat
        /\ mark(ctx) \in 0..Len(input)
    BY Facts DEF ContextOK, Contexts
  <2>3. ASSUME Present(LiteralItem(ctl.e), mark(ctx)) PROVE FALSE
    <3>1. mark(ctx) + 1 <= Len(input)
      BY <1>2, <2>1, <2>3 DEF Present
    <3>2. input[mark(ctx) + 1] \in ctl.e.sym[1]
      BY <1>2, <2>1, <2>3 DEF Present
    <3>3. ~ ended(ctx)
      BY <2>2, <3>1 DEF ended, mark
    <3> QED
      BY <2>1, <3>2, <3>3 DEF ElementHere, symbolConsumable
  <2> QED
    BY <1>1, <2>3
<1> QED
  BY <1>1, <1>3, <1>4

\* A rule that fails, recovering or not, blames its name or label.
LEMMA RuleBlames ==
  ASSUME NonTerminalFailed \/ NonTerminalRecovered
  PROVE  Blames(Top.start, RuleItem(ThisRule))
<1> DEFINE c == LeaveRule(ctx)
           r == record_failure(c, Top.start, RuleItem(ThisRule))
           F == QuietFields
<1>1. Quiet(ctx, c)
  BY LeaveWrites, WritesMore DEF Quiet, QuietFields, PlainFields
<1>2. "m_mem" \in F /\ "m_position" \in F /\ "m_diagnostics" \in F
  BY DEF QuietFields, PlainFields
<1> HIDE DEF r
<1>3. Writes(r, r, F)
  BY Footprints
<1>a. /\ \A d, x : Writes(r, d, F) => /\ Writes(r, reset(d, x), F)
                                     /\ Writes(r, record_diagnostic(d, x), F)
      /\ \A d, x, y, z :
           Writes(r, d, F) => Writes(r, update_rule_state(d, x, y, z), F)
  <2>1. "m_node_arena" \in F /\ "m_lr_stack" \in F /\ "m_growing_head" \in F
    BY DEF QuietFields, PlainFields
  <2>2. \A d, x : Writes(d, record_diagnostic(d, x), F)
    BY <1>2, Footprints
  <2> QED
    BY <1>2, <2>1, <2>2, MoveThen, MemoThen, WritesTrans
<1> HIDE DEF F
<1>4. CASE NonTerminalFailed
  <2>1. \E x, y, z : ctx' = update_rule_state(r, x, y, z)
    BY <1>4 DEF NonTerminalFailed, r
  <2> QED
    BY <1>1, <1>2, <1>3, <2>1, <1>a DEF Blames, r, Quiet, F
<1>5. CASE NonTerminalRecovered
  <2>1. \E s, d, x, y, z :
          ctx' = update_rule_state(record_diagnostic(reset(r, s), d), x, y, z)
    BY <1>5 DEF NonTerminalRecovered, r
  <2>2. \A x : Writes(r, reset(r, x), F)
    BY <1>2, <1>3, <1>a
  <2>3. \A x, y : Writes(r, record_diagnostic(reset(r, x), y), F)
    BY <1>2, <2>2, <1>a
  <2>4. Writes(r, ctx', F)
    BY <1>2, <2>1, <2>3, <1>a
  <2> QED
    BY <1>1, <2>4 DEF Blames, r, Quiet, F
<1> QED
  BY <1>4, <1>5

\* Blaming an item that is no literal, or a literal that is absent, keeps
\* every literal reported absent.
LEMMA BlameKeeps ==
  ASSUME Inv, input' = input, ExpectedLiteralsAbsent,
         NEW pos, NEW item, Blames(pos, item),
         item.kind = "Literal" => ~ Present(item, pos)
  PROVE  ExpectedLiteralsAbsent'
<1> DEFINE n == Len(input)
<1>1. n \in Nat /\ ctx \in Contexts(n)
  BY Facts DEF ContextOK
<1>2. PICK c : Quiet(ctx, c) /\ Quiet(record_failure(c, pos, item), ctx')
  BY DEF Blames
<1> DEFINE r == record_failure(c, pos, item)
<1>3. /\ DOMAIN c = DOMAIN ctx
      /\ c.m_has_error = ctx.m_has_error /\ c.m_expected = ctx.m_expected
      /\ c.m_furthest_failure_pos = ctx.m_furthest_failure_pos
  BY <1>1, <1>2, QuietKeeps
<1>4. DOMAIN r = DOMAIN ctx
  <2>1. Writes(c, r, ErrorFields)
    BY ScopeMethods
  <2> QED
    BY <1>3, <2>1 DEF Writes
<1>5. /\ ctx'.m_expected = r.m_expected
      /\ ctx'.m_furthest_failure_pos = r.m_furthest_failure_pos
  BY <1>1, <1>2, <1>4, QuietKeeps
<1>6. ASSUME NEW i \in ctx'.m_expected, i.kind = "Literal"
      PROVE  ~ Present(i, ctx'.m_furthest_failure_pos)
  <2>1. \/ i = item /\ r.m_furthest_failure_pos = pos
        \/ /\ c.m_has_error /\ i \in c.m_expected
           /\ r.m_furthest_failure_pos = c.m_furthest_failure_pos
    BY <1>1, <1>3, <1>5, <1>6, RecordedItems
  <2>2. CASE i = item /\ r.m_furthest_failure_pos = pos
    BY <1>5, <1>6, <2>2
  <2>3. CASE /\ c.m_has_error /\ i \in c.m_expected
             /\ r.m_furthest_failure_pos = c.m_furthest_failure_pos
    <3>1. ~ Present(i, ctx.m_furthest_failure_pos)
      BY <1>3, <1>6, <2>3 DEF ExpectedLiteralsAbsent, Present
    <3> QED
      BY <1>3, <1>5, <2>3, <3>1
  <2> QED
    BY <2>1, <2>2, <2>3
<1> HIDE DEF r
<1> QED
  BY <1>6 DEF ExpectedLiteralsAbsent, Present

\* A literal the error message of a failed parse lists as expected is never
\* what the input holds at the position the message names, whatever
\* backtracking, look-ahead, memo hits and recovery happened in between.
THEOREM LiteralsAbsent == Spec => []ExpectedLiteralsAbsent
<1>1. Init => ExpectedLiteralsAbsent
  BY DEF Init, NewContext, ExpectedLiteralsAbsent
<1>2. Inv /\ ExpectedLiteralsAbsent /\ [Next]_vars => ExpectedLiteralsAbsent'
  <2> SUFFICES ASSUME Inv, ExpectedLiteralsAbsent, [Next]_vars
               PROVE  ExpectedLiteralsAbsent'
    OBVIOUS
  <2>1. input' = input
    BY SetupKept DEF setup
  <2>2. Len(input) \in Nat /\ ctx \in Contexts(Len(input))
    BY Facts DEF ContextOK
  <2>3. CASE Step /\ ~ Tracks
    <3>1. Quiet(ctx, ctx')
      BY <2>3, QuietStep
    <3>2. /\ ctx'.m_has_error = ctx.m_has_error
          /\ ctx'.m_expected = ctx.m_expected
          /\ ctx'.m_furthest_failure_pos = ctx.m_furthest_failure_pos
      BY <2>2, <3>1, QuietKeeps
    <3> QED
      BY <2>1, <3>2 DEF ExpectedLiteralsAbsent
  <2>4. CASE SingleFail \/ TerminalSeqFail
    BY <2>1, <2>4, TerminalBlames, BlameKeeps
  <2>5. CASE NonTerminalFailed \/ NonTerminalRecovered
    <3>1. RuleItem(ThisRule).kind # "Literal"
      BY DEF RuleItem
    <3> QED
      BY <2>1, <2>5, <3>1, RuleBlames, BlameKeeps
  <2>6. CASE TakeError
    <3>1. ~ ctx'.m_has_error
      BY <2>2, <2>6 DEF TakeError, take_error, Contexts
    <3> QED
      BY <3>1 DEF ExpectedLiteralsAbsent
  <2>7. CASE UNCHANGED vars
    BY <2>7 DEF vars, ExpectedLiteralsAbsent
  <2> QED
    BY <2>3, <2>4, <2>5, <2>6, <2>7, CodeStep DEF Tracks
<1> QED
  BY <1>1, <1>2, InitInv, NextInv, PTL DEF Spec
=============================================================================
