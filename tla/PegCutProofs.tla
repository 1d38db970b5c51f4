----------------------------- MODULE PegCutProofs -----------------------------
(***************************************************************************)
(* What holds of PegMachine as long as cuts stay out: of the skipper, for  *)
(* auto-skip; of the whole grammar, for recursion, failures and recovery.  *)
(***************************************************************************)
EXTENDS PegScopeProofs

-----------------------------------------------------------------------------
(* Where the control point goes.                                           *)

\* The steps that begin to parse an expression.
CallingStep ==
  \/ SequenceChild \/ AlternationEnter \/ AlternationNext \/ RepetitionChild
  \/ PredicateEnter \/ LexemeEnter \/ SkipperEnter \/ NonTerminalEnter
  \/ NonTerminalGrow

\* The innermost call throws the ParseError of its committed scope.
ThrowsHere == \E kind \in CutKinds : At("return", kind) /\ IsCut(ctx)

\* Only the calling steps call, and only a committed scope throws.
LEMMA OtherSteps ==
  ASSUME Inv, Step, ~ GrammarStep, ~ CallingStep
  PROVE  /\ ctl'.mode # "call"
         /\ ctl'.mode = "throw" => ctl.mode = "throw" \/ ThrowsHere
<1>1. CASE LeafStep
  <2>1. \E r, p : Return(r, p)
    BY <1>1
    DEF LeafStep, TerminalMatch, TokenMatch, SingleFail, TerminalSeqMatch,
        TerminalSeqFail, MatcherMatch, MatcherFail, Empty, Cut
  <2> QED
    BY <2>1, NextMode
<1>2. CASE SequenceStep
  <2>1. (\E r, p : Return(r, p)) \/ Goto("go") \/ Goto("skip")
    BY <1>2 DEF CallingStep, SequenceStep, SequenceEnter, SequenceChildMatched,
                SequenceMatched, SequenceFailed
  <2> QED
    BY <2>1, NextMode
<1>3. CASE AlternationStep
  <2>1. \/ \E r, p : Return(r, p)
        \/ Goto("throw") /\ ThrowsHere
    BY <1>3 DEF CallingStep, AlternationStep, AlternationMatched,
                AlternationExhausted, AlternationThrow, ReturnedTo,
                ThrowsHere, CutKinds
  <2> QED
    BY <2>1, NextMode
<1>4. CASE RepetitionStep
  <2>1. CASE RepetitionMatched
    <3>1. \E r, p : Return(r, p)
      BY <2>1 DEF RepetitionMatched
    <3> QED
      BY <3>1, NextMode
  <2>2. CASE ~ RepetitionMatched
    <3>1. \/ (\E r, p : Return(r, p)) \/ Goto("go") \/ Goto("skip")
          \/ Goto("throw") /\ ThrowsHere
      BY <1>4, <2>2
      DEF CallingStep, RepetitionStep, RepetitionEnter, RepetitionChildMatched,
          RepetitionTooFew, RepetitionEnds, RepetitionThrow, ReturnedTo,
          ThrowsHere, CutKinds
    <3> QED
      BY <3>1, NextMode
  <2> QED
    BY <2>1, <2>2
<1>5. CASE WrapperStep
  <2>1. \E r, p : Return(r, p)
    BY <1>5 DEF CallingStep, WrapperStep, PredicateReturn, LexemeReturn
  <2> QED
    BY <2>1, NextMode
<1>6. CASE SkipperStep
  <2>1. Goto("go")
    BY <1>6 DEF CallingStep, SkipperStep, SkipperNone, SkipperReturn
  <2> QED
    BY <2>1, NextMode
<1>7. CASE NonTerminalStep
  <2>1. (\E r, p : Return(r, p)) \/ Goto("finish")
    BY <1>7 DEF CallingStep, NonTerminalStep, NonTerminalReenter,
                NonTerminalMemoHit, NonTerminalFixedPoint,
                NonTerminalBodyFailed, NonTerminalFailed, NonTerminalRecovered,
                NonTerminalMatched
  <2> QED
    BY <2>1, NextMode
<1>8. CASE Unwind
  BY <1>8 DEF Unwind
<1> QED
  BY <1>1, <1>2, <1>3, <1>4, <1>5, <1>6, <1>7, <1>8 DEF Step

\* E holds with an expression everything that parsing it may parse.
Closed(E) ==
  \A e \in E :
    /\ e \in Exprs
    /\ \A k \in 1..Len(e.kids) : e.kids[k] \in E
    /\ e.op = "NonTerminal" => gram.body[e.rule] \in E

\* Nothing in E, or parsed for something in E, is a cut.
CutFree(E) == Closed(E) /\ \A e \in E : e.op # "Cut"

\* The frame on top after a push, and after an edit of the innermost one.
LEMMA NewTop ==
  ASSUME Inv, NEW f
  PROVE  /\ Push(f) => stack' # <<>> /\ stack'[Len(stack')] = f
         /\ stack # <<>> /\ SetTop(f) => stack' # <<>> /\ stack'[Len(stack')] = f
<1>1. stack \in Seq(Frames) /\ Len(stack) \in Nat
  BY Facts DEF StackOK
<1>2. ASSUME Push(f) PROVE stack' # <<>> /\ stack'[Len(stack')] = f
  BY <1>1, <1>2 DEF Push
<1>3. ASSUME stack # <<>>, SetTop(f)
      PROVE  stack' # <<>> /\ stack'[Len(stack')] = f
  BY <1>1, <1>3 DEF SetTop
<1> QED
  BY <1>2, <1>3

\* A call made by an innermost call in E is of an expression in E.
LEMMA CallsInside ==
  ASSUME Inv, CallingStep, NEW E, Closed(E), ctl'.mode = "call",
         stack'[Len(stack')].e \in E
  PROVE  ctl'.e \in E
<1> DEFINE top == stack'[Len(stack')]
<1>1. \A e \in E : \A k \in 1..Len(e.kids) : e.kids[k] \in E
  BY DEF Closed
<1>14. \A e \in E : e.op = "NonTerminal" => gram.body[e.rule] \in E
  BY DEF Closed
<1>2. \A e \in E : e \in Exprs /\ ExprOK(e)
  BY MachineAssumption DEF Closed
<1>3. \A e \in E : /\ e.op \in UnaryOps \cup ListOps => e.kids[1] \in E
                   /\ e.op = "NonTerminal" => gram.body[e.rule] \in E
  <2> SUFFICES ASSUME NEW e \in E
               PROVE  /\ e.op \in UnaryOps \cup ListOps => e.kids[1] \in E
                      /\ e.op = "NonTerminal" => gram.body[e.rule] \in E
    OBVIOUS
  <2>1. /\ e.kids \in Seq(Exprs) /\ (e.op \in UnaryOps => Len(e.kids) = 1)
        /\ e.op \in ListOps => Len(e.kids) >= 1
    <3>1. ExprOK(e)
      BY <1>2
    <3> QED
      BY <3>1 DEF ExprOK
  <2>2. e.op \in UnaryOps \cup ListOps => 1 \in 1..Len(e.kids)
    <3>1. CASE e.op \in UnaryOps
      <4>1. Len(e.kids) = 1
        BY <2>1, <3>1
      <4> QED
        BY <4>1
    <3>2. CASE e.op \in ListOps
      <4>1. Len(e.kids) \in Nat /\ Len(e.kids) >= 1
        BY <2>1, <3>2
      <4> QED
        BY <4>1
    <3> QED
      BY <3>1, <3>2
  <2>3. \A k \in 1..Len(e.kids) : e.kids[k] \in E
    BY <1>1
  <2> QED
    BY <1>14, <2>2, <2>3
<1>4. ASSUME stack # <<>>
      PROVE  /\ Top \in Frames /\ FrameOK(Top) /\ Top = stack[Len(stack)]
             /\ Top.i \in Nat /\ Top.e.kids \in Seq(Exprs)
             /\ Top.kind # "Skipper" => Top.e.op = Top.kind
             /\ Top.kind \in ListOps => Top.i < Len(Top.e.kids)
  <2>1. Top \in Frames /\ FrameOK(Top)
    BY <1>4, TopOKFacts
  <2> QED
    BY <2>1, FrameTypes DEF FrameOK, Top, ExprOK
<1>5. CASE SequenceChild
  <2>1. stack # <<>> /\ stack' = stack /\ Top.kind = "Sequence"
        /\ ctl'.e = Top.e.kids[Top.i + 1]
    BY <1>5, NextMode DEF SequenceChild, At
  <2>2. Top.e \in E
    BY <1>4, <2>1
  <2>3. Top.i + 1 \in 1..Len(Top.e.kids)
    BY <1>4, <2>1 DEF ListOps
  <2> QED
    BY <1>1, <2>1, <2>2, <2>3
<1>6. CASE AlternationEnter
  <2>1. /\ top = NewFrame("Alternation", ctl.e)
        /\ ctl.e.op = "Alternation" /\ ctl'.e = ctl.e.kids[1]
    BY <1>6, NextMode, NewTop DEF AlternationEnter, Calling
  <2> QED
    BY <1>3, <2>1 DEF NewFrame, ListOps
<1>7. CASE AlternationNext
  <2> DEFINE f == [Top EXCEPT !.i = @ + 1]
  <2>1. /\ stack # <<>> /\ Top.kind = "Alternation" /\ SetTop(f)
        /\ Top.i + 1 < Len(Top.e.kids) /\ ctl'.e = Top.e.kids[Top.i + 2]
    BY <1>7, NextMode DEF AlternationNext, ReturnedTo, At
  <2>2. f.e = Top.e
    BY <1>4, <2>1 DEF Frames
  <2> HIDE DEF f
  <2>3. Top.e \in E
    BY <2>1, <2>2, NewTop
  <2>4. Top.i + 2 \in 1..Len(Top.e.kids)
    BY <1>4, <2>1
  <2> QED
    BY <1>1, <2>1, <2>3, <2>4
<1>8. CASE RepetitionChild
  <2> DEFINE f == [Top EXCEPT !.iter = mark(ctx)]
  <2>1. /\ stack # <<>> /\ Top.kind = "Repetition" /\ SetTop(f)
        /\ ctl'.e = Top.e.kids[1]
    BY <1>8, NextMode DEF RepetitionChild, At
  <2>2. f.e = Top.e
    BY <1>4, <2>1 DEF Frames
  <2> HIDE DEF f
  <2>3. Top.e \in E /\ Top.e.op = "Repetition"
    BY <1>4, <2>1, <2>2, NewTop
  <2> QED
    BY <1>3, <2>1, <2>3 DEF UnaryOps
<1>9. CASE PredicateEnter
  <2>1. PICK op \in {"Not", "And"} :
          Calling(op) /\ Push(NewFrame(op, ctl.e)) /\ Call(ctl.e.kids[1])
    BY <1>9 DEF PredicateEnter
  <2>2. top = NewFrame(op, ctl.e) /\ ctl'.e = ctl.e.kids[1] /\ ctl.e.op = op
    BY <2>1, NextMode, NewTop DEF Calling
  <2> QED
    BY <1>3, <2>2 DEF NewFrame, UnaryOps
<1>10. CASE LexemeEnter
  <2>1. /\ top = NewFrame("Lexeme", ctl.e)
        /\ ctl.e.op = "Lexeme" /\ ctl'.e = ctl.e.kids[1]
    BY <1>10, NextMode, NewTop DEF LexemeEnter, Calling
  <2> QED
    BY <1>3, <2>1 DEF NewFrame, UnaryOps
<1>11. CASE SkipperEnter
  <2>1. top = NewFrame("Skipper", Ref(ctx.m_skipper)) /\ ctl'.e = Ref(ctx.m_skipper)
    BY <1>11, NextMode, NewTop DEF SkipperEnter
  <2> QED
    BY <2>1 DEF NewFrame
<1>12. CASE NonTerminalEnter
  <2> DEFINE f == [NewFrame("NonTerminal", ctl.e)
                     EXCEPT !.lr = Len(ctx.m_lr_stack) + 1]
  <2>1. Push(f) /\ ctl.e.op = "NonTerminal" /\ ctl'.e = gram.body[ctl.e.rule]
    BY <1>12, NextMode DEF NonTerminalEnter, Calling
  <2>2. f.e = ctl.e
    BY DEF NewFrame
  <2> HIDE DEF f
  <2>3. ctl.e \in E
    BY <2>1, <2>2, NewTop
  <2> QED
    BY <1>3, <2>1, <2>3
<1>13. CASE NonTerminalGrow
  <2> DEFINE f == [Top EXCEPT !.best = ctl.res,
                     !.rs = [m_last_pos |-> mark(ctx), m_cached_result |-> ctl.res]]
  <2>1. /\ stack # <<>> /\ Top.kind = "NonTerminal" /\ SetTop(f)
        /\ Call(gram.body[ThisRule]) \/ Goto("finish")
    BY <1>13 DEF NonTerminalGrow, ReturnedTo, At
  <2>2. ctl'.e = gram.body[ThisRule]
    BY <2>1, NextMode
  <2>3. f.e = Top.e
    BY <1>4, <2>1 DEF Frames
  <2> HIDE DEF f
  <2>4. Top.e \in E /\ Top.e.op = "NonTerminal"
    BY <1>4, <2>1, <2>3, NewTop
  <2> QED
    BY <1>3, <2>2, <2>4 DEF ThisRule
<1> QED
  BY <1>5, <1>6, <1>7, <1>8, <1>9, <1>10, <1>11, <1>12, <1>13 DEF CallingStep

-----------------------------------------------------------------------------
(* Inside cut-free expressions no cut scope is committed.                  *)

\* The cut scopes opened before the k-th call.
Below(s, k) == {j \in CutFrames(s) : j < k}

\* From the k-th call on only expressions of E are parsed, and no cut scope
\* opened since is committed.
Inside(E, k) ==
  /\ \A j \in 1..Len(stack) : j >= k => stack[j].e \in E
  /\ ctl.mode = "call" => ctl.e \in E
  /\ \A r \in 1..Len(ctx.m_cut) :
       r > Cardinality(Below(stack, k)) => ~ ctx.m_cut[r].cut

\* The calls before the k-th and their scopes are there for as long as it is.
LEMMA BelowKept ==
  ASSUME Inv, Inv', UNCHANGED setup, Shaped, NEW k \in Nat,
         k <= Len(stack) + 1, k <= Len(stack') + 1
  PROVE  Below(stack', k) = Below(stack, k)
<1>1. stack \in Seq(Frames) /\ Len(stack) \in Nat
  BY StackTyped
<1>2. CASE Stays
  BY <1>2 DEF Stays, SameCalls, CutFrames, Below
<1>3. CASE \E f : Opens(f)
  <2>1. PICK f : f \in Frames /\ stack' = Append(stack, f)
    BY <1>3 DEF Opens
  <2>2. \/ CutFrames(stack') = CutFrames(stack)
        \/ CutFrames(stack') = CutFrames(stack) \cup {Len(stack) + 1}
    BY <1>1, <2>1, CutFramesPush
  <2>3. ~ (Len(stack) + 1 < k)
    BY <1>1
  <2> QED
    BY <2>2, <2>3 DEF Below
<1>4. CASE Closes
  <2>1. stack # <<>> /\ stack' = Front(stack)
    BY <1>4 DEF Closes
  <2>2. CutFrames(stack') = CutFrames(stack) \ {Len(stack)}
    BY <1>1, <2>1, CutFramesPop
  <2>3. Len(stack') = Len(stack) - 1
    BY <2>1, Facts, FrontFacts
  <2>4. ~ (Len(stack) < k)
    BY <1>1, <2>3
  <2> QED
    BY <2>2, <2>4 DEF Below
<1> QED
  BY <1>2, <1>3, <1>4 DEF Shaped

\* A step that calls has a caller.
LEMMA CallerOpen == Inv /\ CallingStep => stack' # <<>>
<1> SUFFICES ASSUME Inv, CallingStep PROVE stack' # <<>>
  OBVIOUS
<1>1. CASE SequenceChild
  BY <1>1 DEF SequenceChild, At
<1>2. CASE \E f : Push(f)
  BY <1>2, NewTop
<1>3. CASE stack # <<>> /\ \E f : SetTop(f)
  BY <1>3, NewTop
<1> QED
  BY <1>1, <1>2, <1>3
  DEF CallingStep, AlternationEnter, AlternationNext, RepetitionChild,
      PredicateEnter, LexemeEnter, SkipperEnter, NonTerminalEnter,
      NonTerminalGrow, ReturnedTo, At

\* A step taken inside cut-free expressions stays inside.
LEMMA InsideStep ==
  ASSUME Inv, Step, NEW E, CutFree(E), NEW k \in Nat \ {0}, Inside(E, k),
         k <= Len(stack) + 1, k <= Len(stack') \/ k = 1,
         ctl.mode = "skip" /\ ctx.m_skipper # NoRule => Ref(ctx.m_skipper) \in E,
         GrammarStep => Ref(gram.start) \in E
  PROVE  Inside(E, k)'
<1>1. Inv' /\ Shaped /\ UNCHANGED setup
  BY StepShape, SetupKept DEF Next
<1>2. /\ stack \in Seq(Frames) /\ stack' \in Seq(Frames)
      /\ Len(stack) \in Nat /\ Len(stack') \in Nat
  BY <1>1, StackTyped
<1>3. ctx.m_cut \in Seq(CutRecords(Len(input))) /\ Len(ctx.m_cut) \in Nat
  <2>1. ctx.m_cut \in Seq(CutRecords(Len(input)))
    BY Facts, FieldTypes DEF ContextOK
  <2> QED
    BY <2>1
<1>4. ~ Calling("Cut")
  BY DEF Inside, CutFree, Calling
<1>5. Below(stack', k) = Below(stack, k)
  BY <1>1, <1>2, BelowKept
<1>6. ASSUME NEW j \in 1..Len(stack'), j >= k PROVE stack'[j].e \in E
  <2>1. CASE Stays
    BY <1>6, <2>1 DEF Stays, SameCalls, Inside
  <2>2. CASE \E f : Opens(f)
    <3>1. PICK f : Opens(f)
      BY <2>2
    <3>2. f \in Frames /\ stack' = Append(stack, f)
      BY <3>1 DEF Opens
    <3>3. CASE j \in 1..Len(stack)
      <4>1. stack'[j] = stack[j]
        BY <1>2, <3>2, <3>3
      <4> QED
        BY <1>6, <3>3, <4>1 DEF Inside
    <3>4. CASE j = Len(stack) + 1
      <4>1. stack'[j] = f
        BY <1>2, <3>2, <3>4
      <4>2. f.e \in E
        <5>1. CASE f.kind = "Skipper"
          <6>1. f.e = Ref(ctx.m_skipper) /\ ExprOK(f.e) /\ ctl.mode = "skip"
            BY <3>1, <5>1, FrameTypes DEF Opens
          <6>2. ctx.m_skipper \in Rules
            BY <6>1 DEF ExprOK, Ref, Expr
          <6> QED
            BY <6>1, <6>2, RuleAssumption
        <5>2. CASE f.kind # "Skipper"
          BY <3>1, <5>2 DEF Opens, Inside
        <5> QED
          BY <5>1, <5>2
      <4> QED
        BY <4>1, <4>2
    <3>5. Len(stack') = Len(stack) + 1
      BY <1>2, <3>2
    <3> QED
      BY <1>2, <1>6, <3>3, <3>4, <3>5
  <2>3. CASE Closes
    <3>1. /\ Len(stack') = Len(stack) - 1
          /\ \A i \in 1..(Len(stack) - 1) : stack'[i] = stack[i]
      BY <2>3, Facts, FrontFacts DEF Closes
    <3>2. j \in 1..Len(stack) /\ stack'[j] = stack[j]
      BY <1>2, <1>6, <3>1
    <3> QED
      BY <1>6, <3>2 DEF Inside
  <2> QED
    BY <1>1, <2>1, <2>2, <2>3 DEF Shaped
<1>7. ASSUME ctl'.mode = "call" PROVE ctl'.e \in E
  <2>1. CASE CallingStep
    <3>1. stack' # <<>>
      BY <2>1, CallerOpen
    <3>2. Len(stack') \in 1..Len(stack') /\ Len(stack') >= k
      BY <1>2, <3>1
    <3> QED
      BY <1>6, <1>7, <2>1, <3>2, CallsInside DEF CutFree
  <2>2. CASE GrammarStep
    <3>1. CASE StartRule
      <4>1. ctl'.e = Ref(gram.start)
        BY <3>1, NextMode DEF StartRule
      <4> QED
        BY <2>2, <4>1
    <3>2. CASE ~ StartRule
      <4>1. CASE StartParse
        <5>1. ctl'.mode = "skip"
          BY <4>1, Facts DEF StartParse, Control
        <5> QED
          BY <1>7, <5>1
      <4>2. CASE ~ StartParse
        <5>1. \/ ctl.mode = "idle" /\ ctl' = ctl
              \/ Goto("idle")
          BY <2>2, <3>2, <4>2
          DEF GrammarStep, ParseReturns, ParseCatches, ParseThrows, Finish,
              TakeError, TakeDiagnostics
        <5> QED
          BY <1>7, <5>1, NextMode
      <4> QED
        BY <4>1, <4>2
    <3> QED
      BY <3>1, <3>2
  <2> QED
    BY <1>7, <2>1, <2>2, OtherSteps
<1>8. ASSUME NEW r \in 1..Len(ctx'.m_cut), r > Cardinality(Below(stack, k))
      PROVE  ~ ctx'.m_cut[r].cut
  <2>1. \A q \in 1..Len(ctx.m_cut) :
          q > Cardinality(Below(stack, k)) => ~ ctx.m_cut[q].cut
    BY DEF Inside
  <2>2. CASE Stays
    <3>1. /\ r \in 1..Len(ctx.m_cut)
          /\ ctx'.m_cut[r].cut => ctx.m_cut[r].cut \/ Calling("Cut")
      BY <1>8, <2>2 DEF Stays, SameScopesOpen
    <3> QED
      BY <1>4, <1>8, <2>1, <3>1
  <2>3. CASE \E f : Opens(f)
    <3>1. \/ ctx'.m_cut = ctx.m_cut
          \/ \E x : ctx'.m_cut = Append(ctx.m_cut, x) /\ ~ x.cut
      BY <2>3 DEF Opens
    <3>2. CASE ctx'.m_cut = ctx.m_cut
      BY <1>8, <2>1, <3>2
    <3>3. CASE \E x : ctx'.m_cut = Append(ctx.m_cut, x) /\ ~ x.cut
      <4>1. PICK x : ctx'.m_cut = Append(ctx.m_cut, x) /\ ~ x.cut
        BY <3>3
      <4>2. /\ Len(ctx'.m_cut) = Len(ctx.m_cut) + 1
            /\ \A q \in 1..Len(ctx.m_cut) : ctx'.m_cut[q] = ctx.m_cut[q]
            /\ ctx'.m_cut[Len(ctx.m_cut) + 1] = x
        BY <1>3, <4>1
      <4>3. r \in 1..Len(ctx.m_cut) \/ r = Len(ctx.m_cut) + 1
        BY <1>3, <1>8, <4>2
      <4> QED
        BY <1>8, <2>1, <4>1, <4>2, <4>3
    <3> QED
      BY <3>1, <3>2, <3>3
  <2>4. CASE Closes
    <3>1. ctx'.m_cut = ctx.m_cut \/ ctx'.m_cut = SubSeq(ctx.m_cut, 1, Len(ctx.m_cut) - 1)
      BY <2>4 DEF Closes, Front
    <3>2. CASE ctx'.m_cut = ctx.m_cut
      BY <1>8, <2>1, <3>2
    <3>3. CASE ctx'.m_cut = SubSeq(ctx.m_cut, 1, Len(ctx.m_cut) - 1)
      <4>1. r \in 1..Len(ctx.m_cut) /\ ctx'.m_cut[r] = ctx.m_cut[r]
        BY <1>3, <1>8, <3>3
      <4> QED
        BY <1>8, <2>1, <4>1
    <3> QED
      BY <3>1, <3>2, <3>3
  <2> QED
    BY <1>1, <2>2, <2>3, <2>4 DEF Shaped
<1> QED
  BY <1>5, <1>6, <1>7, <1>8 DEF Inside

\* Inside cut-free expressions an innermost scope is not committed.
LEMMA InsideUncommitted ==
  ASSUME Inv, CutScopesBalanced, NEW E, NEW k \in Nat \ {0}, Inside(E, k),
         k <= Len(stack)
  PROVE  ~ TopCommitted
<1> SUFFICES ASSUME TopCommitted PROVE FALSE
  OBVIOUS
<1> DEFINE C == CutFrames(stack)
           B == Below(stack, k)
           m == Len(stack)
<1>1. stack \in Seq(Frames) /\ m \in Nat
  BY Facts DEF StackOK
<1>2. m \in C
  BY <1>1 DEF TopCommitted, Top, CutKinds, CutFrames
<1>3. /\ IsFiniteSet(C) /\ Cardinality(C) \in Nat
      /\ Len(ctx.m_cut) = Cardinality(C)
  BY <1>1, CutFramesFinite DEF CutScopesBalanced
<1>4. B \subseteq C \ {m}
  BY <1>1 DEF Below, CutFrames
<1>5. /\ IsFiniteSet(C \ {m}) /\ Cardinality(C \ {m}) = Cardinality(C) - 1
  BY <1>2, <1>3, FS_RemoveElement
<1>6. Cardinality(B) <= Cardinality(C) - 1 /\ Cardinality(B) \in Nat
  BY <1>4, <1>5, FS_Subset, FS_CardinalityType
<1>7. Len(ctx.m_cut) \in 1..Len(ctx.m_cut) /\ Len(ctx.m_cut) > Cardinality(B)
  BY <1>3, <1>6
<1>8. ~ ctx.m_cut[Len(ctx.m_cut)].cut
  BY <1>7 DEF Inside
<1> QED
  BY <1>8 DEF TopCommitted, IsCut

\* Inside cut-free expressions nothing is thrown.
LEMMA InsideThrowsNot ==
  ASSUME Inv, CutScopesBalanced, NEW E, NEW k \in Nat \ {0}, Inside(E, k),
         k <= Len(stack)
  PROVE  ~ ThrowsHere
BY InsideUncommitted DEF ThrowsHere, TopCommitted, At

-----------------------------------------------------------------------------
(* Auto-skip under a skipper without cuts.                                 *)

\* What a rule that fails writes, recovering or not.
FailFields == RuleFields \cup ErrorFields \cup {"m_diagnostics"}

\* A rule that fails.
LEMMA FailWrites ==
  ASSUME NonTerminalFailed \/ NonTerminalRecovered
  PROVE  Writes(ctx, ctx', FailFields)
<1> DEFINE F == FailFields
           c == LeaveRule(ctx)
           r == record_failure(c, Top.start, RuleItem(ThisRule))
<1> SUFFICES Writes(ctx, ctx', F)
  OBVIOUS
<1>1. /\ "m_position" \in F /\ "m_node_arena" \in F /\ "m_mem" \in F
      /\ "m_lr_stack" \in F /\ "m_growing_head" \in F /\ "m_diagnostics" \in F
      /\ ErrorFields \subseteq F
  BY DEF FailFields, RuleFields
<1>2. Writes(ctx, c, F)
  BY LeaveWrites, WritesMore DEF FailFields, RuleFields
<1>a. /\ \A d, x : Writes(ctx, d, F) => /\ Writes(ctx, reset(d, x), F)
                                       /\ Writes(ctx, record_diagnostic(d, x), F)
      /\ \A d, x, y, z :
           Writes(ctx, d, F) => Writes(ctx, update_rule_state(d, x, y, z), F)
  <2>1. \A d, x : Writes(d, record_diagnostic(d, x), F)
    BY <1>1, Footprints
  <2> HIDE DEF F
  <2> QED
    BY <1>1, <2>1, MoveThen, MemoThen, WritesTrans
<1> HIDE DEF F
<1>3. Writes(ctx, r, F)
  <2> HIDE DEF c
  <2>1. Writes(c, r, F)
    BY <1>1, Footprints
  <2> QED
    BY <1>2, <2>1, WritesTrans
<1>4. \/ \E x, y, z : ctx' = update_rule_state(r, x, y, z)
      \/ \E s, d, x, y, z :
           ctx' = update_rule_state(record_diagnostic(reset(r, s), d), x, y, z)
  BY DEF NonTerminalFailed, NonTerminalRecovered
<1> HIDE DEF r
<1>5. \A x : Writes(ctx, reset(r, x), F)
  BY <1>3, <1>a
<1>6. \A x, y : Writes(ctx, record_diagnostic(reset(r, x), y), F)
  BY <1>5, <1>a
<1> QED
  BY <1>3, <1>4, <1>6, <1>a

\* Only lexemes and the skipper write the flag, and only a parse that starts
\* sets the skipper.
LEMMA FlagUnwritten ==
  ASSUME Inv, Step
  PROVE  /\ ~ Skips => ctx'.m_skip_enabled = ctx.m_skip_enabled
         /\ ~ StartParse => ctx'.m_skipper = ctx.m_skipper
<1>1. Len(input) \in Nat /\ ctx \in Contexts(Len(input))
  BY Facts DEF ContextOK
<1>2. \A F : Writes(ctx, ctx', F) =>
        /\ "m_skipper" \notin F => ctx'.m_skipper = ctx.m_skipper
        /\ "m_skip_enabled" \notin F =>
             ctx'.m_skip_enabled = ctx.m_skip_enabled
  BY <1>1, Unwritten
<1>3. CASE Skips
  <2>1. "m_skipper" \notin {"m_skip_enabled"}
    OBVIOUS
  <2> QED
    BY <1>2, <1>3, <2>1, SkipWrites
<1>4. CASE ~ Skips /\ StartParse
  <2>1. "m_skip_enabled" \notin {"m_skipper"}
    OBVIOUS
  <2> QED
    BY <1>2, <1>4, <2>1, GrammarWrites
<1>5. CASE ~ Skips /\ ~ StartParse
  <2>1. \E F : Writes(ctx, ctx', F) /\ "m_skipper" \notin F /\ "m_skip_enabled" \notin F
    <3>1. CASE NonTerminalFailed \/ NonTerminalRecovered
      <4>1. "m_skipper" \notin FailFields /\ "m_skip_enabled" \notin FailFields
        BY DEF FailFields, RuleFields, ErrorFields
      <4> QED
        BY <3>1, <4>1, FailWrites
    <3>2. CASE NonTerminalStep /\ ~ (NonTerminalFailed \/ NonTerminalRecovered)
      <4>1. "m_skipper" \notin RuleFields /\ "m_skip_enabled" \notin RuleFields
        BY DEF RuleFields
      <4> QED
        BY <3>2, <4>1, RuleWrites
    <3>3. CASE GrammarStep
      <4>1. /\ "m_skipper" \notin ErrorFields /\ "m_skip_enabled" \notin ErrorFields
            /\ "m_skipper" \notin {"m_diagnostics"}
            /\ "m_skip_enabled" \notin {"m_diagnostics"}
        BY DEF ErrorFields
      <4>2. Writes(ctx, ctx, {"m_diagnostics"})
        BY Footprints
      <4> QED
        BY <1>5, <3>3, <4>1, <4>2, GrammarWrites
    <3>4. CASE SingleFail \/ TerminalSeqFail
      <4>1. "m_skipper" \notin ErrorFields /\ "m_skip_enabled" \notin ErrorFields
        BY DEF ErrorFields
      <4> QED
        BY <3>4, <4>1, TerminalWrites
    <3>5. CASE ~ NonTerminalStep /\ ~ GrammarStep /\ ~ (SingleFail \/ TerminalSeqFail)
      <4>1. "m_skipper" \notin EvalFields /\ "m_skip_enabled" \notin EvalFields
        BY DEF EvalFields
      <4>2. Writes(ctx, ctx', EvalFields)
        BY <1>5, <3>5, EvalWrites DEF Step
      <4> QED
        BY <4>1, <4>2
    <3> QED
      BY <3>1, <3>2, <3>3, <3>4, <3>5
  <2> QED
    BY <1>2, <2>1
<1> QED
  BY <1>3, <1>4, <1>5

\* The lexemes and the skipper open and close their scopes themselves.
LEMMA SkipScopeSteps ==
  ASSUME Inv, Inv', Step
  PROVE  /\ \A f : Opens(f) /\ InnerSkipScope(f) => LexemeEnter \/ SkipperEnter
         /\ Closes /\ InnerSkipScope(Top) =>
              LexemeReturn \/ SkipperReturn \/ Unwind
<1>1. UNCHANGED setup
  BY SetupKept DEF Next
<1>2. stack \in Seq(Frames) /\ Len(stack) \in Nat /\ stack' \in Seq(Frames)
  BY <1>1, StackTyped
<1>3. ASSUME NEW f, Opens(f), InnerSkipScope(f), ~ LexemeEnter, ~ SkipperEnter
      PROVE  FALSE
  <2>1. f \in Frames /\ stack' = Append(stack, f)
    BY <1>3 DEF Opens
  <2>2. Len(stack') = Len(stack) + 1 /\ stack'[Len(stack')] = f
    BY <1>2, <2>1
  <2>3. stack' # stack
    BY <1>2, <2>2
  <2>4. FrameOK(f)
    <3>1. Len(stack') \in 1..Len(stack')
      BY <1>2, <2>2
    <3>2. StackOK(stack, ctx.m_lr_stack)'
      BY DEF Inv
    <3> QED
      BY <2>2, <3>1, <3>2 DEF StackOK, CallOK, FrameOK
  <2>5. CASE f.kind = "Skipper"
    <3>1. ctl.mode = "skip"
      BY <1>3, <2>5 DEF Opens
    <3> QED
      BY <1>3, <2>3, <3>1
      DEF Step, LeafStep, SequenceStep, AlternationStep, RepetitionStep,
          WrapperStep, SkipperStep, NonTerminalStep, Unwind, GrammarStep,
          TerminalMatch, TokenMatch, SingleFail, TerminalSeqMatch,
          TerminalSeqFail, MatcherMatch, MatcherFail, Empty, Cut,
          SequenceEnter, SequenceChild, SequenceChildMatched, SequenceMatched,
          SequenceFailed, AlternationEnter, AlternationMatched,
          AlternationNext, AlternationExhausted, AlternationThrow,
          RepetitionEnter, RepetitionChild, RepetitionChildMatched,
          RepetitionMatched, RepetitionTooFew, RepetitionEnds,
          RepetitionThrow, PredicateEnter, PredicateReturn, LexemeEnter,
          LexemeReturn, SkipperNone, SkipperReturn, NonTerminalReenter,
          NonTerminalMemoHit, NonTerminalEnter, NonTerminalGrow,
          NonTerminalFixedPoint, NonTerminalBodyFailed, NonTerminalFailed,
          NonTerminalRecovered, NonTerminalMatched, StartParse, StartRule,
          ParseReturns, ParseCatches, ParseThrows, TakeError,
          TakeDiagnostics, Calling, At, ReturnedTo, Finishing
  <2>6. CASE f.kind = "Lexeme"
    <3>1. Calling("Lexeme")
      BY <1>3, <2>4, <2>6 DEF Opens, FrameOK, Calling
    <3> QED
      BY <1>3, <2>3, <3>1
      DEF Step, LeafStep, SequenceStep, AlternationStep, RepetitionStep,
          WrapperStep, SkipperStep, NonTerminalStep, Unwind, GrammarStep,
          TerminalMatch, TokenMatch, SingleFail, TerminalSeqMatch,
          TerminalSeqFail, MatcherMatch, MatcherFail, Empty, Cut,
          SequenceEnter, SequenceChild, SequenceChildMatched, SequenceMatched,
          SequenceFailed, AlternationEnter, AlternationMatched,
          AlternationNext, AlternationExhausted, AlternationThrow,
          RepetitionEnter, RepetitionChild, RepetitionChildMatched,
          RepetitionMatched, RepetitionTooFew, RepetitionEnds,
          RepetitionThrow, PredicateEnter, PredicateReturn,
          LexemeReturn, SkipperEnter, SkipperNone, SkipperReturn,
          NonTerminalReenter, NonTerminalMemoHit, NonTerminalEnter,
          NonTerminalGrow, NonTerminalFixedPoint, NonTerminalBodyFailed,
          NonTerminalFailed, NonTerminalRecovered, NonTerminalMatched,
          StartParse, StartRule, ParseReturns, ParseCatches, ParseThrows,
          TakeError, TakeDiagnostics, Calling, At, ReturnedTo, Finishing
  <2> QED
    BY <1>3, <2>5, <2>6 DEF InnerSkipScope
<1>4. ASSUME Closes, InnerSkipScope(Top), ~ LexemeReturn, ~ SkipperReturn,
             ~ Unwind
      PROVE  FALSE
  <2>1. Len(stack') = Len(stack) - 1
    BY <1>4, Facts, FrontFacts DEF Closes
  <2>2. stack' # stack /\ \A f : ~ Push(f)
    <3>1. stack' # stack
      BY <1>2, <2>1
    <3>2. ASSUME NEW f, Push(f) PROVE FALSE
      <4>1. Len(stack') = Len(stack) + 1
        BY <1>2, <3>2 DEF Push
      <4> QED
        BY <1>2, <2>1, <4>1
    <3> QED
      BY <3>1, <3>2
  <2>3. Top.kind \in {"Lexeme", "Skipper"}
    BY <1>4 DEF InnerSkipScope
  <2>4. \A k \in {"Lexeme", "Skipper"} :
          k \notin {"Sequence", "Alternation", "Repetition", "Not", "And",
                    "NonTerminal"}
    OBVIOUS
  <2> QED
    BY <1>4, <2>2, <2>3, <2>4
    DEF Step, LeafStep, SequenceStep, AlternationStep, RepetitionStep,
        WrapperStep, SkipperStep, NonTerminalStep, GrammarStep, Leaf,
        TerminalMatch, TokenMatch, SingleFail, TerminalSeqMatch,
        TerminalSeqFail, MatcherMatch, MatcherFail, Empty, Cut,
        SequenceEnter, SequenceChild, SequenceChildMatched, SequenceMatched,
        SequenceFailed, AlternationEnter, AlternationMatched,
        AlternationNext, AlternationExhausted, AlternationThrow,
        RepetitionEnter, RepetitionChild, RepetitionChildMatched,
        RepetitionMatched, RepetitionTooFew, RepetitionEnds,
        RepetitionThrow, PredicateEnter, PredicateReturn, LexemeEnter,
        SkipperEnter, SkipperNone, NonTerminalReenter, NonTerminalMemoHit,
        NonTerminalEnter, NonTerminalGrow, NonTerminalFixedPoint,
        NonTerminalBodyFailed, NonTerminalFailed, NonTerminalRecovered,
        NonTerminalMatched, StartParse, StartRule, ParseReturns,
        ParseCatches, ParseThrows, Finish, TakeError, TakeDiagnostics, At,
        ReturnedTo, Finishing
<1> QED
  BY <1>3, <1>4

\* E holds the skipper.
WithSkipper(E) == gram.skipper # NoRule => Ref(gram.skipper) \in E

\* E holds the skipper and everything it may parse, and no cut.
SkipperIn(E) == CutFree(E) /\ WithSkipper(E)

\* No cut can run inside the skipper.
SkipperCutFree == \E E \in SUBSET Exprs : SkipperIn(E)

\* The running skipper, and any call of an expression in E, stays inside E and
\* throws nothing.
Calm(E) ==
  \A k \in 1..Len(stack) :
    stack[k].kind = "Skipper" \/ stack[k].e \in E =>
      Inside(E, k) /\ ctl.mode # "throw"

\* Whatever the grammar, a running parse has its skipper; what can run no cut,
\* the skipper's included, throws nothing.
CalmInv ==
  /\ ctl.mode # "idle" => ctx.m_skipper = gram.skipper
  /\ \A E \in SUBSET Exprs : SkipperIn(E) => Calm(E)

\* What a call is for does not change in a step; the other calls are new.
LEMMA CallBefore ==
  ASSUME Inv, Inv', UNCHANGED setup, Shaped
  PROVE  /\ \A k \in 1..Len(stack') :
              \/ /\ k \in 1..Len(stack)
                 /\ stack'[k].kind = stack[k].kind
                 /\ stack'[k].prev = stack[k].prev
                 /\ stack'[k].e = stack[k].e
                 /\ stack'[k].start = stack[k].start
              \/ k = Len(stack) + 1 /\ Opens(stack'[k])
         /\ \A k \in 1..Len(stack) :
              k \in 1..Len(stack') \/ (k = Len(stack) /\ Closes)
         /\ Len(stack) \in Nat /\ Len(stack') \in Nat
<1>1. /\ stack \in Seq(Frames) /\ stack' \in Seq(Frames)
      /\ Len(stack) \in Nat /\ Len(stack') \in Nat
  BY StackTyped
<1>2. CASE Stays
  BY <1>1, <1>2 DEF Stays, SameCalls
<1>3. CASE \E f : Opens(f)
  <2>1. PICK f : Opens(f)
    BY <1>3
  <2>2. /\ Len(stack') = Len(stack) + 1 /\ stack'[Len(stack) + 1] = f
        /\ \A k \in 1..Len(stack) : stack'[k] = stack[k]
    BY <1>1, <2>1 DEF Opens
  <2>3. \A k \in 1..Len(stack') : k \in 1..Len(stack) \/ k = Len(stack) + 1
    BY <1>1, <2>2
  <2> QED
    BY <1>1, <2>1, <2>2, <2>3
<1>4. CASE Closes
  <2>1. /\ Len(stack') = Len(stack) - 1
        /\ \A k \in 1..(Len(stack) - 1) : stack'[k] = stack[k]
    BY <1>4, Facts, FrontFacts DEF Closes
  <2>2. \A k \in 1..Len(stack') : k \in 1..Len(stack) /\ stack'[k] = stack[k]
    BY <1>1, <2>1
  <2>3. \A k \in 1..Len(stack) : k \in 1..Len(stack') \/ k = Len(stack)
    BY <1>1, <2>1
  <2> QED
    BY <1>1, <1>4, <2>2, <2>3
<1> QED
  BY <1>2, <1>3, <1>4 DEF Shaped

\* A parse in progress is unwinding only if it was, or an innermost committed
\* scope throws.
LEMMA ThrowFrom ==
  ASSUME Inv, Step, ctl'.mode = "throw"
  PROVE  ctl.mode = "throw" \/ ThrowsHere
<1>1. CASE GrammarStep
  <2>1. CASE StartParse
    <3>1. ctl'.mode = "skip"
      BY <2>1, Facts DEF StartParse, Control
    <3> QED
      BY <3>1
  <2>2. CASE ~ StartParse
    <3>1. \/ ctl' = ctl \/ Goto("idle") \/ \E e : Call(e)
      BY <1>1, <2>2
      DEF GrammarStep, StartRule, ParseReturns, ParseCatches, ParseThrows,
          Finish, TakeError, TakeDiagnostics
    <3> QED
      BY <3>1, NextMode
  <2> QED
    BY <2>1, <2>2
<1>2. CASE CallingStep
  <2>1. (\E e : Call(e)) \/ Goto("finish")
    BY <1>2
    DEF CallingStep, SequenceChild, AlternationEnter, AlternationNext,
        RepetitionChild, PredicateEnter, LexemeEnter, SkipperEnter,
        NonTerminalEnter, NonTerminalGrow
  <2> QED
    BY <2>1, NextMode
<1> QED
  BY <1>1, <1>2, OtherSteps

\* Grammar::parse runs its own code with no call active.
LEMMA GrammarIdle ==
  ASSUME Inv, GrammarStep
  PROVE  stack = <<>> /\ stack' = <<>>
<1>1. stack' = stack /\ (ctl.mode = "idle" => stack = <<>>)
  BY Facts
  DEF GrammarStep, StartParse, StartRule, ParseReturns, ParseCatches,
      ParseThrows, Finish, TakeError, TakeDiagnostics, ControlOK, TopOK
<1> QED
  BY <1>1
  DEF GrammarStep, StartParse, StartRule, ParseReturns, ParseCatches,
      ParseThrows, Finish, TakeError, TakeDiagnostics

\* CalmInv is inductive, given Inv and CutScopesBalanced.
LEMMA CalmNext ==
  Inv /\ CutScopesBalanced /\ CalmInv /\ [Next]_vars => CalmInv'
<1> SUFFICES ASSUME Inv, CutScopesBalanced, CalmInv, [Next]_vars
             PROVE  CalmInv'
  OBVIOUS
<1>1. CASE UNCHANGED vars
  BY <1>1
  DEF vars, CalmInv, SkipperIn, WithSkipper, Calm, CutFree, Closed, Inside,
      Below, CutFrames
<1>2. CASE Step
  <2>1. Inv' /\ Shaped /\ gram' = gram /\ UNCHANGED setup
    BY <1>2, StepShape, SetupKept DEF setup
  <2>2. ctl'.mode # "idle" => ctx'.m_skipper = gram'.skipper
    <3>1. CASE StartParse
      <4>1. ctx.m_skipper \in Rules \cup {NoRule} /\ "m_skipper" \in DOMAIN ctx
        BY Facts DEF ContextOK, Contexts
      <4> QED
        BY <2>1, <3>1, <4>1 DEF StartParse, internal_set_skipper
    <3>2. CASE ~ StartParse /\ GrammarStep
      <4>1. ctx'.m_skipper = ctx.m_skipper
        BY <1>2, <3>2, FlagUnwritten
      <4>2. ctl'.mode # "idle" => ctl.mode # "idle"
        <5>1. \/ ctl' = ctl \/ Goto("idle") \/ ctl.mode = "go"
          BY <3>2
          DEF GrammarStep, StartRule, ParseReturns, ParseCatches, ParseThrows,
              Finish, TakeError, TakeDiagnostics
        <5> QED
          BY <5>1, NextMode
      <4> QED
        BY <2>1, <4>1, <4>2 DEF CalmInv
    <3>3. CASE ~ GrammarStep
      <4>1. ctl.mode # "idle"
        BY <1>2, <3>3, RunningStep DEF Running
      <4>2. ctx'.m_skipper = ctx.m_skipper
        BY <1>2, <3>3, FlagUnwritten DEF GrammarStep
      <4> QED
        BY <2>1, <4>1, <4>2 DEF CalmInv
    <3> QED
      BY <3>1, <3>2, <3>3
  <2>3. ASSUME NEW E \in SUBSET Exprs, SkipperIn(E)', NEW k \in 1..Len(stack'),
               stack'[k].kind = "Skipper" \/ stack'[k].e \in E
        PROVE  Inside(E, k)' /\ ctl'.mode # "throw"
    <3>1. SkipperIn(E) /\ CutFree(E)
      BY <2>1, <2>3 DEF SkipperIn, WithSkipper, CutFree, Closed
    <3>2. Calm(E)
      BY <3>1 DEF CalmInv
    <3>3. ~ GrammarStep
      <4>1. ASSUME GrammarStep PROVE FALSE
        <5>1. Len(stack') = 0
          BY <4>1, GrammarIdle
        <5> QED
          BY <2>3, <5>1
      <4> QED
        BY <4>1
    <3>4. ctl.mode # "idle" /\ ctx.m_skipper = gram.skipper
      BY <1>2, <3>3, RunningStep DEF Running, CalmInv
    <3>5. ctx.m_skipper # NoRule => Ref(ctx.m_skipper) \in E
      BY <3>1, <3>4 DEF SkipperIn, WithSkipper
    <3>6. \/ /\ k \in 1..Len(stack)
             /\ stack[k].kind = "Skipper" \/ stack[k].e \in E
          \/ k = Len(stack) + 1 /\ Opens(stack'[k])
      BY <2>1, <2>3, CallBefore
    <3>7. Len(stack) \in Nat /\ Len(stack') \in Nat
      BY <2>1, CallBefore
    <3>8. k \in Nat \ {0} /\ k <= Len(stack')
      BY <2>3, <3>7
    <3>9. CASE /\ k \in 1..Len(stack)
               /\ stack[k].kind = "Skipper" \/ stack[k].e \in E
      <4>1. Inside(E, k) /\ ctl.mode # "throw"
        BY <3>2, <3>9 DEF Calm
      <4>2. k <= Len(stack) /\ k <= Len(stack) + 1
        BY <3>7, <3>9
      <4>3. Inside(E, k)'
        BY <1>2, <3>1, <3>3, <3>5, <3>8, <4>1, <4>2, InsideStep
      <4>4. ~ ThrowsHere
        BY <3>8, <4>1, <4>2, InsideThrowsNot
      <4> QED
        BY <1>2, <4>1, <4>3, <4>4, ThrowFrom
    <3>10. CASE k = Len(stack) + 1 /\ Opens(stack'[k])
      <4>1. ctl.mode = "skip" \/ (ctl.mode = "call" /\ ctl.e \in E)
        BY <2>3, <3>10 DEF Opens
      <4>2. Inside(E, k)
        <5>1. \A j \in 1..Len(stack) : ~ (j >= k)
          BY <3>7, <3>10
        <5>2. Below(stack, k) = CutFrames(stack)
          BY <3>7, <3>10 DEF Below, CutFrames
        <5>3. \A r \in 1..Len(ctx.m_cut) : ~ (r > Cardinality(CutFrames(stack)))
          <6>1. ctx.m_cut \in Seq(CutRecords(Len(input)))
            BY Facts, FieldTypes DEF ContextOK
          <6>2. Len(ctx.m_cut) \in Nat
            BY <6>1
          <6> QED
            BY <6>2 DEF CutScopesBalanced
        <5> QED
          BY <4>1, <5>1, <5>2, <5>3 DEF Inside
      <4>3. k <= Len(stack) + 1
        BY <3>7, <3>10
      <4>4. Inside(E, k)'
        BY <1>2, <3>1, <3>3, <3>5, <3>8, <4>2, <4>3, InsideStep
      <4>5. ~ ThrowsHere
        BY <4>1 DEF ThrowsHere, At
      <4> QED
        BY <1>2, <4>1, <4>4, <4>5, ThrowFrom
    <3> QED
      BY <3>6, <3>9, <3>10
  <2> QED
    BY <2>2, <2>3 DEF CalmInv, Calm
<1> QED
  BY <1>1, <1>2, CodeStep

\* Auto-skip resumes outside lexemes and the skipper, and the leading skip
\* of Grammar::parse ends by returning.
ResumeInv ==
  /\ SkipResumes
  /\ \A k \in 1..Len(stack) :
       InnerSkipScope(stack[k]) /\ ~ stack[k].prev =>
         \E j \in 1..(k - 1) : InnerSkipScope(stack[j])
  /\ phase = "leading" =>
       IF stack = <<>> THEN ctl.mode \in {"skip", "go"}
       ELSE stack[1].kind = "Skipper"
  /\ outcome # "exception"

\* Under a skipper without cuts nothing is thrown while the skipper runs.
LEMMA CalmSkipper ==
  ASSUME CalmInv, SkipperCutFree, NEW k \in 1..Len(stack),
         stack[k].kind = "Skipper"
  PROVE  ctl.mode # "throw"
BY DEF CalmInv, SkipperCutFree, Calm

\* A step keeps the flag in line with the scopes that switched it off.
LEMMA ResumeStep ==
  ASSUME Inv, Step, CalmInv, SkipperCutFree, ResumeInv
  PROVE  /\ SkipResumes'
         /\ \A k \in 1..Len(stack') :
              InnerSkipScope(stack'[k]) /\ ~ stack'[k].prev =>
                \E j \in 1..(k - 1) : InnerSkipScope(stack'[j])
<1> DEFINE Scoped(s, m) == \E j \in 1..m : InnerSkipScope(s[j])
<1>1. Inv' /\ Shaped /\ UNCHANGED setup
  BY StepShape, SetupKept DEF Next
<1>2. /\ stack \in Seq(Frames) /\ stack' \in Seq(Frames)
      /\ Len(stack) \in Nat /\ Len(stack') \in Nat
  BY <1>1, StackTyped
<1>3. /\ ~ ctx.m_skip_enabled => Scoped(stack, Len(stack))
      /\ \A k \in 1..Len(stack) :
           InnerSkipScope(stack[k]) /\ ~ stack[k].prev => Scoped(stack, k - 1)
  BY DEF ResumeInv, SkipResumes
<1> SUFFICES /\ ~ ctx'.m_skip_enabled => Scoped(stack', Len(stack'))
             /\ \A k \in 1..Len(stack') :
                  InnerSkipScope(stack'[k]) /\ ~ stack'[k].prev =>
                    Scoped(stack', k - 1)
  BY DEF SkipResumes, InnerSkipScope
<1>4. "m_skip_enabled" \in DOMAIN ctx
  BY Facts DEF ContextOK, Contexts
<1>5. CASE LexemeEnter \/ SkipperEnter
  <2>1. PICK f : /\ Push(f) /\ InnerSkipScope(f)
                 /\ f.prev = ctx.m_skip_enabled
    <3>1. \A kind, e : /\ NewFrame(kind, e).kind = kind
                       /\ NewFrame(kind, e).prev = ctx.m_skip_enabled
      BY DEF NewFrame
    <3>2. \E e : \E kind \in {"Lexeme", "Skipper"} : Push(NewFrame(kind, e))
      BY <1>5 DEF LexemeEnter, SkipperEnter
    <3> QED
      BY <3>1, <3>2 DEF InnerSkipScope
  <2>2. /\ Len(stack') = Len(stack) + 1 /\ stack'[Len(stack) + 1] = f
        /\ \A k \in 1..Len(stack) : stack'[k] = stack[k]
    BY <1>2, <2>1 DEF Push
  <2>3. Scoped(stack', Len(stack'))
    BY <1>2, <2>1, <2>2
  <2>4. ASSUME NEW k \in 1..Len(stack'), InnerSkipScope(stack'[k]),
               ~ stack'[k].prev
        PROVE  Scoped(stack', k - 1)
    <3>1. CASE k \in 1..Len(stack)
      <4>1. Scoped(stack, k - 1)
        BY <1>3, <2>2, <2>4, <3>1
      <4>2. \A j \in 1..(k - 1) : j \in 1..Len(stack)
        BY <1>2, <3>1
      <4> QED
        BY <2>2, <4>1, <4>2
    <3>2. CASE k = Len(stack) + 1
      <4>1. Scoped(stack, Len(stack)) /\ k - 1 = Len(stack)
        BY <1>2, <1>3, <2>1, <2>2, <2>4, <3>2
      <4> QED
        BY <2>2, <4>1
    <3> QED
      BY <1>2, <2>2, <2>4, <3>1, <3>2
  <2> QED
    BY <2>3, <2>4
<1>6. CASE LexemeReturn \/ SkipperReturn \/ (Unwind /\ Top.kind = "Lexeme")
  <2>1. /\ stack # <<>> /\ Pop /\ InnerSkipScope(Top)
        /\ ctx'.m_skip_enabled = Top.prev
    <3>1. ctx' = skip_enabled(ctx, Top.prev)
      BY <1>6 DEF LexemeReturn, SkipperReturn, Unwind
    <3>2. stack # <<>> /\ Pop /\ InnerSkipScope(Top)
      BY <1>6 DEF LexemeReturn, SkipperReturn, Unwind, At, InnerSkipScope
    <3> QED
      BY <1>4, <3>1, <3>2 DEF skip_enabled
  <2>2. /\ Len(stack') = Len(stack) - 1
        /\ \A k \in 1..(Len(stack) - 1) : stack'[k] = stack[k]
        /\ Len(stack) \in 1..Len(stack) /\ Top = stack[Len(stack)]
    BY <1>2, <2>1, Facts, FrontFacts DEF Pop, Front, Top
  <2>3. ASSUME ~ ctx'.m_skip_enabled PROVE Scoped(stack', Len(stack'))
    <3>1. Scoped(stack, Len(stack) - 1)
      BY <1>3, <2>1, <2>2, <2>3
    <3> QED
      BY <2>2, <3>1
  <2>4. ASSUME NEW k \in 1..Len(stack'), InnerSkipScope(stack'[k]),
               ~ stack'[k].prev
        PROVE  Scoped(stack', k - 1)
    <3>1. k \in 1..Len(stack) /\ stack'[k] = stack[k]
      BY <1>2, <2>2, <2>4
    <3>2. Scoped(stack, k - 1)
      BY <1>3, <2>4, <3>1
    <3>3. \A j \in 1..(k - 1) : j \in 1..(Len(stack) - 1)
      BY <1>2, <2>2, <2>4
    <3> QED
      BY <2>2, <3>2, <3>3
  <2> QED
    BY <2>3, <2>4
<1>7. CASE ~ Skips
  <2>1. ctx'.m_skip_enabled = ctx.m_skip_enabled
    BY <1>7, FlagUnwritten
  <2>2. ASSUME NEW k \in 1..Len(stack'), InnerSkipScope(stack'[k])
        PROVE  /\ k \in 1..Len(stack) /\ InnerSkipScope(stack[k])
               /\ stack'[k].prev = stack[k].prev
    BY <1>1, <1>7, <2>2, CallBefore, SkipScopeSteps DEF Skips, InnerSkipScope
  <2>3. ASSUME NEW k \in 1..Len(stack), InnerSkipScope(stack[k])
        PROVE  k \in 1..Len(stack') /\ InnerSkipScope(stack'[k])
    <3>1. CASE k \in 1..Len(stack')
      <4>1. k # Len(stack) + 1
        BY <1>2, <2>3
      <4> QED
        BY <1>1, <2>3, <3>1, <4>1, CallBefore DEF InnerSkipScope
    <3>2. CASE k = Len(stack) /\ Closes
      <4>1. Top = stack[k]
        BY <3>2 DEF Top
      <4>2. Unwind /\ Top.kind = "Skipper"
        BY <1>1, <1>7, <2>3, <3>2, <4>1, SkipScopeSteps
        DEF Skips, InnerSkipScope
      <4>3. ctl.mode = "throw"
        BY <4>2 DEF Unwind
      <4> QED
        BY <4>1, <4>2, <4>3, CalmSkipper
    <3> QED
      BY <1>1, <2>3, <3>1, <3>2, CallBefore
  <2>4. ASSUME ~ ctx'.m_skip_enabled PROVE Scoped(stack', Len(stack'))
    BY <1>3, <2>1, <2>3, <2>4
  <2>5. ASSUME NEW k \in 1..Len(stack'), InnerSkipScope(stack'[k]),
               ~ stack'[k].prev
        PROVE  Scoped(stack', k - 1)
    <3>1. k \in 1..Len(stack) /\ Scoped(stack, k - 1)
      BY <1>3, <2>2, <2>5
    <3>2. \A j \in 1..(k - 1) : j \in 1..Len(stack)
      BY <1>2, <3>1
    <3> QED
      BY <2>3, <3>1, <3>2
  <2> QED
    BY <2>4, <2>5
<1> QED
  BY <1>5, <1>6, <1>7 DEF Skips

\* The leading skip stays one until Grammar::parse goes on to the start rule.
LEMMA LeadingStep ==
  ASSUME Inv, Step, CalmInv, SkipperCutFree, ResumeInv
  PROVE  /\ phase' = "leading" =>
              IF stack' = <<>> THEN ctl'.mode \in {"skip", "go"}
              ELSE stack'[1].kind = "Skipper"
         /\ outcome' # "exception"
<1>1. Inv' /\ Shaped /\ UNCHANGED setup
  BY StepShape, SetupKept DEF Next
<1>2. /\ stack \in Seq(Frames) /\ stack' \in Seq(Frames)
      /\ Len(stack) \in Nat /\ Len(stack') \in Nat
  BY <1>1, StackTyped
<1>3. CASE GrammarStep
  <2>1. stack = <<>> /\ stack' = <<>>
    BY <1>3, GrammarIdle
  <2>2. phase = "leading" => ctl.mode \in {"skip", "go"}
    BY <2>1 DEF ResumeInv
  <2>3. CASE StartParse
    <3>1. ctl'.mode = "skip" /\ outcome' = "running"
      BY <2>3, Facts DEF StartParse, Control
    <3> QED
      BY <2>1, <3>1
  <2>4. CASE ~ StartParse
    BY <1>3, <2>2, <2>4
    DEF GrammarStep, StartRule, ParseReturns, ParseCatches, ParseThrows,
        Finish, TakeError, TakeDiagnostics, driver, ResumeInv
  <2> QED
    BY <2>3, <2>4
<1>4. CASE ~ GrammarStep
  <2>1. phase' = phase /\ outcome' = outcome
    BY <1>4, RunningStep DEF Running, driver
  <2> SUFFICES ASSUME phase = "leading"
               PROVE  IF stack' = <<>> THEN ctl'.mode \in {"skip", "go"}
                      ELSE stack'[1].kind = "Skipper"
    BY <2>1 DEF ResumeInv
  <2>2. CASE stack = <<>>
    <3>1. ctl.mode \in {"skip", "go"}
      BY <2>2 DEF ResumeInv
    <3>2. SkipperEnter \/ SkipperNone
      BY <1>4, <2>2, <3>1
      DEF Step, LeafStep, SequenceStep, AlternationStep, RepetitionStep,
          WrapperStep, SkipperStep, NonTerminalStep, Unwind,
          TerminalMatch, TokenMatch, SingleFail, TerminalSeqMatch,
          TerminalSeqFail, MatcherMatch, MatcherFail, Empty, Cut,
          SequenceEnter, SequenceChild, SequenceChildMatched, SequenceMatched,
          SequenceFailed, AlternationEnter, AlternationMatched,
          AlternationNext, AlternationExhausted, AlternationThrow,
          RepetitionEnter, RepetitionChild, RepetitionChildMatched,
          RepetitionMatched, RepetitionTooFew, RepetitionEnds,
          RepetitionThrow, PredicateEnter, PredicateReturn, LexemeEnter,
          LexemeReturn, SkipperReturn, NonTerminalReenter,
          NonTerminalMemoHit, NonTerminalEnter, NonTerminalGrow,
          NonTerminalFixedPoint, NonTerminalBodyFailed, NonTerminalFailed,
          NonTerminalRecovered, NonTerminalMatched,
          Calling, At, ReturnedTo, Finishing
    <3>3. CASE SkipperEnter
      <4> DEFINE f == NewFrame("Skipper", Ref(ctx.m_skipper))
      <4>1. stack' = <<f>>
        BY <2>2, <3>3 DEF SkipperEnter, Push
      <4>2. f.kind = "Skipper"
        BY DEF NewFrame
      <4> HIDE DEF f
      <4> QED
        BY <4>1, <4>2
    <3>4. CASE SkipperNone
      BY <2>2, <3>4, NextMode DEF SkipperNone
    <3> QED
      BY <3>2, <3>3, <3>4
  <2>3. CASE stack # <<>>
    <3>1. stack[1].kind = "Skipper" /\ 1 \in 1..Len(stack)
      BY <1>2, <2>3 DEF ResumeInv
    <3>2. CASE stack' # <<>>
      <4>1. 1 \in 1..Len(stack') /\ 1 # Len(stack) + 1
        BY <1>2, <2>3, <3>2
      <4> QED
        BY <1>1, <3>1, <3>2, <4>1, CallBefore
    <3>3. CASE stack' = <<>>
      <4>1. 1 \notin 1..Len(stack')
        BY <3>3
      <4>2. 1 = Len(stack) /\ Closes
        BY <1>1, <3>1, <4>1, CallBefore
      <4>3. Top.kind = "Skipper" /\ InnerSkipScope(Top)
        BY <3>1, <4>2 DEF Top, InnerSkipScope
      <4>4. ctl.mode # "throw"
        BY <3>1, CalmSkipper
      <4>5. SkipperReturn
        BY <1>1, <4>2, <4>3, <4>4, SkipScopeSteps
        DEF Unwind, LexemeReturn, At
      <4> QED
        BY <3>3, <4>5, NextMode DEF SkipperReturn
    <3> QED
      BY <3>2, <3>3
  <2> QED
    BY <2>2, <2>3
<1> QED
  BY <1>3, <1>4

\* ResumeInv is inductive for every grammar whose skipper has no cuts.
LEMMA SkippingInv == Spec => [](SkipperCutFree => ResumeInv)
<1> DEFINE R == SkipperCutFree => ResumeInv
<1>1. Init => CalmInv /\ R
  <2> SUFFICES ASSUME Init PROVE CalmInv /\ R
    OBVIOUS
  <2>1. /\ stack = <<>> /\ ctx = NewContext(Len(input)) /\ ctl.mode = "idle"
        /\ phase = "none" /\ outcome = "none"
    BY DEF Init
  <2>2. ctx.m_skip_enabled
    BY <2>1 DEF NewContext
  <2> QED
    BY <2>1, <2>2 DEF CalmInv, Calm, ResumeInv, SkipResumes
<1>2. Inv /\ CalmInv /\ R /\ [Next]_vars => R'
  <2> SUFFICES ASSUME Inv, CalmInv, R, [Next]_vars, SkipperCutFree'
               PROVE  ResumeInv'
    OBVIOUS
  <2>1. SkipperCutFree
    BY SetupKept
    DEF SkipperCutFree, SkipperIn, WithSkipper, CutFree, Closed, setup
  <2>2. CASE Step
    BY <2>1, <2>2, ResumeStep, LeadingStep DEF ResumeInv, InnerSkipScope
  <2>3. CASE UNCHANGED vars
    BY <2>1, <2>3 DEF vars, ResumeInv, SkipResumes, InnerSkipScope
  <2> QED
    BY <2>2, <2>3, CodeStep
<1> HIDE DEF R
<1>3. Spec => []R
  BY <1>1, <1>2, CalmNext, CutsBalance, InitInv, NextInv, PTL DEF Spec
<1> QED
  BY <1>3 DEF R

\* Under a skipper without cuts, auto-skip is on wherever no lexeme and no
\* skipper is active: run_skipper always reaches the line that restores the
\* flag, also when a ParseError unwinds the parse around it.
THEOREM SkippingResumes == Spec => [](SkipperCutFree => SkipResumes)
<1>1. (SkipperCutFree => ResumeInv) => (SkipperCutFree => SkipResumes)
  BY DEF ResumeInv
<1> QED
  BY <1>1, SkippingInv, PTL

\* Under a skipper without cuts Grammar::parse returns a bool: no ParseError
\* gets past its try block, which the leading skip runs outside of.
THEOREM NothingEscapes == Spec => [](SkipperCutFree => outcome # "exception")
<1>1. (SkipperCutFree => ResumeInv) => (SkipperCutFree => outcome # "exception")
  BY DEF ResumeInv
<1> QED
  BY <1>1, SkippingInv, PTL

-----------------------------------------------------------------------------
(* A grammar without cuts.                                                 *)

\* E holds the start rule and the skipper with everything they may parse, and
\* no cut.
GrammarIn(E) == SkipperIn(E) /\ Ref(gram.start) \in E

\* No cut can run in a parse of this grammar.
GrammarCutFree == \E E \in SUBSET Exprs : GrammarIn(E)

\* The whole parse stays inside E and throws nothing.
WholeInv ==
  \A E \in SUBSET Exprs : GrammarIn(E) => Inside(E, 1) /\ ctl.mode # "throw"

\* WholeInv is inductive, given Inv, CutScopesBalanced and CalmInv.
LEMMA WholeNext ==
  Inv /\ CutScopesBalanced /\ CalmInv /\ WholeInv /\ [Next]_vars => WholeInv'
<1> SUFFICES ASSUME Inv, CutScopesBalanced, CalmInv, WholeInv, [Next]_vars,
                    NEW E \in SUBSET Exprs, GrammarIn(E)'
             PROVE  Inside(E, 1)' /\ ctl'.mode # "throw"
  BY DEF WholeInv
<1>1. gram' = gram
  BY SetupKept DEF setup
<1>2. GrammarIn(E) /\ CutFree(E)
  BY <1>1 DEF GrammarIn, SkipperIn, WithSkipper, CutFree, Closed
<1>3. Inside(E, 1) /\ ctl.mode # "throw"
  BY <1>2 DEF WholeInv
<1>4. CASE UNCHANGED vars
  BY <1>3, <1>4 DEF vars, Inside, Below, CutFrames
<1>5. CASE Step
  <2>1. ctl.mode = "skip" /\ ctx.m_skipper # NoRule => Ref(ctx.m_skipper) \in E
    BY <1>2 DEF CalmInv, GrammarIn, SkipperIn, WithSkipper
  <2>2. Len(stack) \in Nat
    BY Facts DEF StackOK
  <2>3. Inside(E, 1)'
    <3>1. 1 \in Nat \ {0} /\ 1 <= Len(stack) + 1
      BY <2>2
    <3> QED
      BY <1>2, <1>3, <1>5, <2>1, <3>1, InsideStep DEF GrammarIn
  <2>4. ~ ThrowsHere
    <3>1. ASSUME ThrowsHere PROVE FALSE
      <4>1. stack # <<>>
        BY <3>1 DEF ThrowsHere, At
      <4>2. 1 <= Len(stack)
        BY <4>1, Innermost
      <4> QED
        BY <1>3, <3>1, <4>2, InsideThrowsNot
    <3> QED
      BY <3>1
  <2> QED
    BY <1>3, <1>5, <2>3, <2>4, ThrowFrom
<1> QED
  BY <1>4, <1>5, CodeStep

\* Without cuts no scope is ever committed and nothing is thrown.
LEMMA Uncommitted ==
  ASSUME Inv, WholeInv, GrammarCutFree
  PROVE  ~ IsCut(ctx) /\ ctl.mode # "throw"
<1>1. PICK E \in SUBSET Exprs : Inside(E, 1) /\ ctl.mode # "throw"
  BY DEF WholeInv, GrammarCutFree
<1>2. Below(stack, 1) = {}
  BY Facts DEF Below, CutFrames, StackOK
<1>3. Cardinality(Below(stack, 1)) = 0
  BY <1>2, FS_EmptySet
<1>4. ctx.m_cut \in Seq(CutRecords(Len(input)))
  BY Facts, FieldTypes DEF ContextOK
<1>5. ASSUME ctx.m_cut # <<>> PROVE ~ ctx.m_cut[Len(ctx.m_cut)].cut
  <2>1. Len(ctx.m_cut) \in 1..Len(ctx.m_cut) /\ Len(ctx.m_cut) > 0
    BY <1>4, <1>5
  <2> QED
    BY <1>1, <1>3, <2>1 DEF Inside
<1> QED
  BY <1>1, <1>5 DEF IsCut

\* Every rule call is opened by NonTerminal::parse itself.
LEMMA RuleOpens ==
  ASSUME Inv, Inv', Step, NEW f, Opens(f), f.kind = "NonTerminal"
  PROVE  NonTerminalEnter
<1> SUFFICES ASSUME ~ NonTerminalEnter PROVE FALSE
  OBVIOUS
<1>1. UNCHANGED setup
  BY SetupKept DEF Next
<1>2. stack \in Seq(Frames) /\ Len(stack) \in Nat /\ stack' \in Seq(Frames)
  BY <1>1, StackTyped
<1>3. f \in Frames /\ stack' = Append(stack, f)
  BY DEF Opens
<1>4. Len(stack') = Len(stack) + 1 /\ stack'[Len(stack')] = f
  BY <1>2, <1>3
<1>5. stack' # stack
  BY <1>2, <1>4
<1>6. FrameOK(f)
  <2>1. Len(stack') \in 1..Len(stack')
    BY <1>2, <1>4
  <2>2. StackOK(stack, ctx.m_lr_stack)'
    BY DEF Inv
  <2> QED
    BY <1>4, <2>1, <2>2 DEF StackOK, CallOK, FrameOK
<1>7. ctl.mode = "call" /\ ctl.e.op = "NonTerminal"
  BY <1>6 DEF Opens, FrameOK
<1>8. ASSUME NonTerminalStep PROVE FALSE
  BY <1>5, <1>7, <1>8
  DEF NonTerminalStep, NonTerminalReenter, NonTerminalMemoHit,
      NonTerminalGrow, NonTerminalFixedPoint, NonTerminalBodyFailed,
      NonTerminalFailed, NonTerminalRecovered, NonTerminalMatched, At,
      ReturnedTo, Finishing
<1>9. ASSUME LeafStep \/ SequenceStep \/ AlternationStep PROVE FALSE
  BY <1>7, <1>9
  DEF LeafStep, SequenceStep, AlternationStep, TerminalMatch, TokenMatch,
      SingleFail, TerminalSeqMatch, TerminalSeqFail, MatcherMatch,
      MatcherFail, Empty, Cut, SequenceEnter, SequenceChild,
      SequenceChildMatched, SequenceMatched, SequenceFailed,
      AlternationEnter, AlternationMatched, AlternationNext,
      AlternationExhausted, AlternationThrow, Calling, At, ReturnedTo
<1>10. ASSUME RepetitionStep \/ WrapperStep PROVE FALSE
  BY <1>7, <1>10
  DEF RepetitionStep, WrapperStep, RepetitionEnter, RepetitionChild,
      RepetitionChildMatched, RepetitionMatched, RepetitionTooFew,
      RepetitionEnds, RepetitionThrow, PredicateEnter, PredicateReturn,
      LexemeEnter, LexemeReturn, Calling, At, ReturnedTo
<1>11. ASSUME SkipperStep \/ Unwind PROVE FALSE
  BY <1>7, <1>11
  DEF SkipperStep, Unwind, SkipperEnter, SkipperNone, SkipperReturn, At
<1>12. ASSUME GrammarStep PROVE FALSE
  BY <1>5, <1>12, GrammarIdle
<1> QED
  BY <1>8, <1>9, <1>10, <1>11, <1>12 DEF Step

\* What NonTerminal::parse adds to the left-recursion stack, which no other
\* step adds to.
LEMMA LrStep ==
  ASSUME Inv, Step
  PROVE  LET l == ctx.m_lr_stack
             m == ctx'.m_lr_stack
         IN  \A k \in 1..Len(m) :
               \/ k \in 1..Len(l) /\ m[k].rule = l[k].rule /\ m[k].pos = l[k].pos
               \/ /\ NonTerminalEnter /\ k = Len(l) + 1
                  /\ m[k].rule = ctl.e.rule /\ m[k].pos = mark(ctx)
<1> DEFINE l == ctx.m_lr_stack
           m == ctx'.m_lr_stack
<1> SUFFICES ASSUME NEW k \in 1..Len(m)
             PROVE  \/ /\ k \in 1..Len(l)
                       /\ m[k].rule = l[k].rule /\ m[k].pos = l[k].pos
                    \/ /\ NonTerminalEnter /\ k = Len(l) + 1
                       /\ m[k].rule = ctl.e.rule /\ m[k].pos = mark(ctx)
  OBVIOUS
<1>1. Inv' /\ Shaped /\ UNCHANGED setup
  BY StepShape, SetupKept DEF Next
<1>2. l \in Seq(LRFrames(Len(input))) /\ Len(l) \in Nat
  BY Facts
<1>3. CASE Stays
  BY <1>3 DEF Stays, SameRules
<1>4. CASE \E f : Opens(f)
  <2>1. PICK f : Opens(f)
    BY <1>4
  <2>2. CASE f.kind # "NonTerminal"
    BY <2>1, <2>2 DEF Opens
  <2>3. CASE f.kind = "NonTerminal"
    <3>1. NonTerminalEnter
      BY <1>1, <2>1, <2>3, RuleOpens
    <3>2. PICK x : m = Append(l, x) /\ x.rule = f.e.rule /\ x.pos = f.start
      BY <2>1, <2>3 DEF Opens
    <3>3. f.e = ctl.e
      BY <2>1, <2>3 DEF Opens
    <3>4. f.start = mark(ctx)
      <4> DEFINE g == [NewFrame("NonTerminal", ctl.e)
                         EXCEPT !.lr = Len(ctx.m_lr_stack) + 1]
      <4>1. Push(g)
        BY <3>1 DEF NonTerminalEnter
      <4>2. g.start = mark(ctx)
        BY DEF NewFrame
      <4> HIDE DEF g
      <4>3. /\ stack \in Seq(Frames) /\ stack' \in Seq(Frames)
            /\ Len(stack) \in Nat
        BY <1>1, StackTyped
      <4>4. stack' = Append(stack, f)
        BY <2>1 DEF Opens
      <4>5. stack'[Len(stack) + 1] = f
        BY <4>3, <4>4
      <4>6. stack'[Len(stack) + 1] = g
        BY <4>1, <4>3 DEF Push
      <4> QED
        BY <4>2, <4>5, <4>6
    <3>5. k \in 1..Len(l) \/ k = Len(l) + 1
      BY <1>2, <3>2
    <3>6. /\ \A j \in 1..Len(l) : m[j] = l[j]
          /\ m[Len(l) + 1] = x
      BY <1>2, <3>2
    <3> QED
      BY <3>1, <3>2, <3>3, <3>4, <3>5, <3>6
  <2> QED
    BY <2>2, <2>3
<1>5. CASE Closes
  <2>1. m = l \/ (stack # <<>> /\ Top.kind = "NonTerminal"
                    /\ m = SubSeq(l, 1, Top.lr - 1))
    BY <1>5 DEF Closes
  <2>2. CASE stack # <<>> /\ Top.kind = "NonTerminal"
               /\ m = SubSeq(l, 1, Top.lr - 1)
    <3>1. Top.lr \in 1..Len(l)
      BY <2>2, RuleTop
    <3>2. Len(m) = Top.lr - 1 /\ \A j \in 1..(Top.lr - 1) : m[j] = l[j]
      BY <1>2, <2>2, <3>1
    <3>3. k \in 1..(Top.lr - 1) /\ k \in 1..Len(l)
      BY <1>2, <3>1, <3>2
    <3> QED
      BY <3>2, <3>3
  <2> QED
    BY <2>1, <2>2
<1> QED
  BY <1>1, <1>3, <1>4, <1>5 DEF Shaped

-----------------------------------------------------------------------------
(* What each step makes of the memo.                                       *)

\* The memo entry of the innermost rule call.
MyEntry == <<Top.start, ThisRule>>

\* The step assigns x to the entry k0, and to no other.
Assigns(k0, x) ==
  /\ DOMAIN ctx'.m_mem = DOMAIN ctx.m_mem
  /\ k0 \in DOMAIN ctx.m_mem /\ ctx'.m_mem[k0] = x
  /\ \A k \in DOMAIN ctx.m_mem \ {k0} : ctx'.m_mem[k] = ctx.m_mem[k]

\* The steps that write the memo, apart from those that leave a
\* committed cut scope.
Memoises ==
  \/ NonTerminalEnter \/ NonTerminalGrow \/ NonTerminalFixedPoint
  \/ NonTerminalFailed \/ NonTerminalRecovered \/ NonTerminalMatched

\* The other steps leave it alone.
LEMMA MemoUntouched ==
  ASSUME Inv, Step, ~ Memoises
  PROVE  ctx'.m_mem = ctx.m_mem \/ LeavesScope
<1>1. Len(input) \in Nat /\ ctx \in Contexts(Len(input))
  BY Facts DEF ContextOK
<1>2. \A F : Writes(ctx, ctx', F) /\ "m_mem" \notin F => ctx'.m_mem = ctx.m_mem
  BY <1>1, Unwritten
<1>3. CASE NonTerminalStep
  <2> DEFINE F == {"m_position", "m_lr_stack", "m_growing_head"}
  <2>1. "m_mem" \notin F /\ "m_position" \in F /\ "m_lr_stack" \in F
        /\ "m_growing_head" \in F
    OBVIOUS
  <2>2. \/ \E x : ctx' = reset(ctx, x)
        \/ \E x, y, z : ctx' = reset(mark_head(ctx, x, y), z)
    BY <1>3 DEF Memoises, NonTerminalStep, NonTerminalReenter,
                NonTerminalMemoHit, NonTerminalBodyFailed
  <2> HIDE DEF F
  <2>3. \A x, y, z : Writes(ctx, reset(mark_head(ctx, x, y), z), F)
    <3> SUFFICES ASSUME NEW x, NEW y, NEW z
                 PROVE  Writes(ctx, reset(mark_head(ctx, x, y), z), F)
      OBVIOUS
    <3> DEFINE d == mark_head(ctx, x, y)
    <3>1. Writes(ctx, d, F)
      BY <2>1, Footprints
    <3> HIDE DEF d
    <3>2. Writes(d, reset(d, z), F)
      BY <2>1, Footprints
    <3>3. Writes(ctx, reset(d, z), F)
      BY <3>1, <3>2, WritesTrans
    <3> QED
      BY <3>3 DEF d
  <2>4. \A x : Writes(ctx, reset(ctx, x), F)
    BY <2>1, Footprints
  <2> QED
    BY <1>2, <2>1, <2>2, <2>3, <2>4
<1>4. CASE GrammarStep
  <2>1. "m_mem" \notin ErrorFields /\ "m_mem" \notin {"m_diagnostics"}
        /\ "m_mem" \notin {"m_skipper"}
    BY DEF ErrorFields
  <2> QED
    BY <1>2, <1>4, <2>1, GrammarWrites
<1>5. CASE Skips
  <2>1. "m_mem" \notin {"m_skip_enabled"}
    OBVIOUS
  <2> QED
    BY <1>2, <1>5, <2>1, SkipWrites
<1>6. CASE SingleFail \/ TerminalSeqFail
  <2>1. "m_mem" \notin ErrorFields
    BY DEF ErrorFields
  <2> QED
    BY <1>2, <1>6, <2>1, TerminalWrites
<1>7. CASE /\ ~ NonTerminalStep /\ ~ GrammarStep /\ ~ Skips
           /\ ~ (SingleFail \/ TerminalSeqFail)
  <2>1. "m_mem" \notin {"m_position", "m_node_arena", "m_cut"}
    OBVIOUS
  <2>2. Writes(ctx, ctx', {"m_position", "m_node_arena", "m_cut"}) \/ LeavesScope
    BY <1>7, EvalMoves DEF Step
  <2> QED
    BY <1>2, <2>1, <2>2
<1> QED
  BY <1>3, <1>4, <1>5, <1>6, <1>7

\* So does leaving a scope that is not committed.
LEMMA MemoQuiet ==
  ASSUME Inv, Step, ~ TopCommitted, ~ Memoises
  PROVE  ctx'.m_mem = ctx.m_mem
<1>1. CASE LeavesScope
  <2>1. Writes(ctx, ctx', EvalFields)
    BY <1>1, EvalRemoves DEF LeavesScope
  <2>2. "m_mem" \notin EvalFields
    BY DEF EvalFields
  <2>3. Len(input) \in Nat /\ ctx \in Contexts(Len(input))
    BY Facts DEF ContextOK
  <2> QED
    BY <2>1, <2>2, <2>3, Unwritten
<1> QED
  BY <1>1, MemoUntouched

\* One entry of a memo is assigned.
LEMMA AssignsOne ==
  ASSUME Inv, NEW r \in Rules, NEW p \in 0..Len(input), NEW m, NEW x,
         DOMAIN m = DOMAIN ctx.m_mem,
         \A k \in DOMAIN m \ {<<p, r>>} : m[k] = ctx.m_mem[k],
         ctx'.m_mem = [m EXCEPT ![<<p, r>>] = x]
  PROVE  Assigns(<<p, r>>, x)
<1>1. <<p, r>> \in DOMAIN ctx.m_mem
  <2>1. DOMAIN ctx.m_mem = (0..Len(input)) \X Rules
    BY Facts, FieldTypes DEF ContextOK
  <2> QED
    BY <2>1
<1> QED
  BY <1>1 DEF Assigns

\* NonTerminal::parse plants its failure seed.
LEMMA RuleEnters ==
  ASSUME Inv, NonTerminalEnter
  PROVE  \E x \in RuleStates(Len(input)) : Assigns(<<mark(ctx), ctl.e.rule>>, x)
<1> DEFINE n == Len(input)
           r == ctl.e.rule
           p == mark(ctx)
           f == [NewFrame("NonTerminal", ctl.e)
                   EXCEPT !.lr = Len(ctx.m_lr_stack) + 1]
           a == rule_state(ctx, r, p)
           b == lr_push(a, [rule |-> r, pos |-> p, last_pos |-> p,
                            is_head |-> FALSE])
           m == [ctx.m_mem EXCEPT ![<<p, r>>] = FreshRuleState]
<1>1. /\ n \in Nat /\ ctx \in Contexts(n) /\ p \in 0..n
      /\ Absent \notin RuleStates(n)
  BY Facts DEF ContextOK
<1>2. r \in Rules
  BY Facts DEF NonTerminalEnter, Calling, ExprOK
<1>3. ~ HasMemo(ctx, r, p) /\ ctx' = update_rule_state(b, r, p, f.rs)
  BY DEF NonTerminalEnter
<1>4. f.rs \in RuleStates(n)
  <2>1. NewFrame("NonTerminal", ctl.e) \in Frames
    BY Facts, NewFrameOK DEF FrameKinds
  <2>2. f.rs = NewFrame("NonTerminal", ctl.e).rs
    BY DEF NewFrame
  <2> QED
    BY <2>1, <2>2, FrameTypes
<1> HIDE DEF f
<1>5. DOMAIN a = DOMAIN ctx /\ a.m_mem = m
  <2>1. a.m_mem = m
    BY <1>1, <1>3, MemoMethods
  <2>2. Writes(ctx, a, {"m_mem"})
    BY Footprints
  <2> QED
    BY <2>1, <2>2 DEF Writes
<1> HIDE DEF a
<1>6. DOMAIN b = DOMAIN ctx /\ b.m_mem = m
  <2>1. Writes(a, b, {"m_lr_stack"})
    BY ScopeMethods
  <2>2. "m_mem" \notin {"m_lr_stack"}
    OBVIOUS
  <2> HIDE DEF b
  <2> QED
    BY <1>1, <1>5, <2>1, <2>2, MemoKept
<1> HIDE DEF b
<1>7. <<p, r>> \in DOMAIN ctx.m_mem
  <2>1. DOMAIN ctx.m_mem = (0..n) \X Rules
    BY <1>1, FieldTypes
  <2> QED
    BY <1>1, <1>2, <2>1
<1>8. HasMemo(b, r, p)
  <2>1. m[<<p, r>>] = FreshRuleState
    BY <1>7
  <2>2. FreshRuleState \in RuleStates(n)
    BY <1>1 DEF FreshRuleState, RuleStates, Results, Failed, nullptr
  <2> QED
    BY <1>1, <1>6, <2>1, <2>2 DEF HasMemo
<1>9. ctx'.m_mem = [b.m_mem EXCEPT ![<<p, r>>] = f.rs]
  BY <1>1, <1>3, <1>6, <1>8, MemoMethods
<1>10. /\ DOMAIN m = DOMAIN ctx.m_mem
       /\ \A k \in DOMAIN m \ {<<p, r>>} : m[k] = ctx.m_mem[k]
  OBVIOUS
<1> HIDE DEF m
<1>12. ctx'.m_mem = [m EXCEPT ![<<p, r>>] = f.rs] /\ p \in 0..Len(input)
  BY <1>1, <1>6, <1>9
<1> HIDE DEF p, r
<1>13. Assigns(<<p, r>>, f.rs)
  BY <1>7, <1>10, <1>12 DEF Assigns
<1>11. Assigns(<<mark(ctx), ctl.e.rule>>, f.rs)
  BY <1>13 DEF p, r
<1> QED
  BY <1>4, <1>11

\* update_rule_state on the innermost rule's entry, after calls that write no
\* memo.
LEMMA StoresMine ==
  ASSUME Inv, stack # <<>>, Top.kind = "NonTerminal",
         HasMemo(ctx, ThisRule, Top.start),
         NEW c, NEW x, DOMAIN c = DOMAIN ctx, c.m_mem = ctx.m_mem,
         NEW F, "m_mem" \notin F,
         Writes(update_rule_state(c, ThisRule, Top.start, x), ctx', F)
  PROVE  Assigns(MyEntry, x)
<1> DEFINE d == update_rule_state(c, ThisRule, Top.start, x)
<1>1. /\ Len(input) \in Nat /\ ctx \in Contexts(Len(input))
      /\ ThisRule \in Rules /\ Top.start \in 0..Len(input)
  BY Facts, RuleTop DEF ContextOK
<1>2. d.m_mem = [ctx.m_mem EXCEPT ![MyEntry] = x]
  BY <1>1, MemoMethods DEF HasMemo, MyEntry
<1>3. DOMAIN d = DOMAIN ctx
  <2>1. Writes(c, d, {"m_mem"})
    BY Footprints
  <2> QED
    BY <2>1 DEF Writes
<1> HIDE DEF d
<1>4. ctx'.m_mem = d.m_mem
  BY <1>1, <1>3, MemoKept DEF d
<1>5. ctx'.m_mem = [ctx.m_mem EXCEPT ![MyEntry] = x]
  BY <1>2, <1>4
<1> QED
  BY <1>1, <1>5, AssignsOne DEF MyEntry

\* update_rule_state on an entry that is gone.
LEMMA StoresNothing ==
  ASSUME Inv, ~ HasMemo(ctx, ThisRule, Top.start),
         NEW c, NEW x, DOMAIN c = DOMAIN ctx, c.m_mem = ctx.m_mem,
         NEW F, "m_mem" \notin F,
         Writes(update_rule_state(c, ThisRule, Top.start, x), ctx', F)
  PROVE  ctx'.m_mem = ctx.m_mem
<1>1. Len(input) \in Nat /\ ctx \in Contexts(Len(input))
  BY Facts DEF ContextOK
<1>2. update_rule_state(c, ThisRule, Top.start, x) = c
  BY DEF HasMemo, update_rule_state
<1> QED
  BY <1>1, <1>2, MemoKept

\* The step is update_rule_state on the innermost rule's entry with x, and
\* writes no other entry.
Updates(x) ==
  \E c : /\ DOMAIN c = DOMAIN ctx /\ c.m_mem = ctx.m_mem
         /\ Writes(update_rule_state(c, ThisRule, Top.start, x), ctx',
                   {"m_position"})

\* An update finds the entry, or does nothing.
LEMMA UpdateStores ==
  ASSUME Inv, stack # <<>>, Top.kind = "NonTerminal", NEW x, Updates(x)
  PROVE  IF HasMemo(ctx, ThisRule, Top.start) THEN Assigns(MyEntry, x)
         ELSE ctx'.m_mem = ctx.m_mem
<1>1. PICK c : /\ DOMAIN c = DOMAIN ctx /\ c.m_mem = ctx.m_mem
               /\ Writes(update_rule_state(c, ThisRule, Top.start, x), ctx',
                         {"m_position"})
  BY DEF Updates
<1>2. "m_mem" \notin {"m_position"}
  OBVIOUS
<1>3. CASE HasMemo(ctx, ThisRule, Top.start)
  BY <1>1, <1>2, <1>3, StoresMine
<1>4. CASE ~ HasMemo(ctx, ThisRule, Top.start)
  BY <1>1, <1>2, <1>4, StoresNothing
<1> QED
  BY <1>3, <1>4

\* A rule that ends its growth loop, or returns, updates its entry with its
\* answer.
LEMMA RuleUpdates ==
  ASSUME Inv,
         \/ NonTerminalFixedPoint \/ NonTerminalFailed
         \/ NonTerminalRecovered \/ NonTerminalMatched
  PROVE  \E x \in RuleStates(Len(input)) :
           /\ Updates(x)
           /\ NonTerminalFailed => x.m_cached_result = Failed
           /\ NonTerminalRecovered =>
                x.m_cached_result = Matched(nullptr) /\ x.m_last_pos = mark(ctx')
           /\ NonTerminalMatched =>
                /\ \E t \in Nat \ {nullptr} : x.m_cached_result = Matched(t)
                /\ x.m_last_pos = Top.rs.m_last_pos
<1> DEFINE n == Len(input)
           c == LeaveRule(ctx)
           e == record_failure(c, Top.start, RuleItem(ThisRule))
<1>1. /\ n \in Nat /\ ctx \in Contexts(n) /\ mark(ctx) \in 0..n
      /\ ctl.res \in Results
  BY Facts DEF ContextOK
<1>2. stack # <<>> /\ Top.kind = "NonTerminal"
  BY DEF NonTerminalFixedPoint, NonTerminalFailed, NonTerminalRecovered,
         NonTerminalMatched, ReturnedTo, Finishing, At
<1>3. /\ Top.rs \in RuleStates(n) /\ Top.best \in Results
      /\ MyLR.last_pos \in 0..n /\ Top.start \in 0..n
  BY <1>2, RuleTop
<1>4. \A x \in Results : [Top.rs EXCEPT !.m_cached_result = x] \in RuleStates(n)
  BY <1>3 DEF RuleStates
<1>5. Failed \in Results /\ \A t \in Nat : Matched(t) \in Results
  BY DEF Failed, Matched, Results, nullptr
<1>6. DOMAIN c = DOMAIN ctx /\ c.m_mem = ctx.m_mem
  <2>1. Writes(ctx, c, {"m_lr_stack", "m_growing_head"})
    BY LeaveWrites
  <2>2. "m_mem" \notin {"m_lr_stack", "m_growing_head"}
    OBVIOUS
  <2> HIDE DEF c
  <2> QED
    BY <1>1, <2>1, <2>2, MemoKept
<1>7. "m_position" \in {"m_position"} /\ "m_mem" \notin {"m_position"}
  OBVIOUS
<1>8. Len(ctx.m_node_arena) \in Nat
  <2>1. ctx.m_node_arena \in Seq(Nodes(n))
    BY <1>1, FieldTypes
  <2> QED
    BY <2>1
<1> HIDE DEF c
<1>9. DOMAIN e = DOMAIN ctx /\ e.m_mem = ctx.m_mem
  <2>1. Writes(c, e, ErrorFields)
    BY ScopeMethods
  <2>2. "m_mem" \notin ErrorFields
    BY DEF ErrorFields
  <2> HIDE DEF e
  <2> QED
    BY <1>1, <1>6, <2>1, <2>2, MemoKept
<1>10. CASE NonTerminalFixedPoint
  <2> DEFINE best == IF Top.best.success THEN Top.best ELSE ctl.res
             rs == [m_last_pos |-> MyLR.last_pos, m_cached_result |-> best]
             d == update_rule_state(ctx, ThisRule, Top.start, rs)
  <2>1. rs \in RuleStates(n)
    BY <1>1, <1>3 DEF RuleStates
  <2>2. ctx' = reset(d, MyLR.last_pos)
    BY <1>10 DEF NonTerminalFixedPoint
  <2> HIDE DEF d
  <2>3. Writes(d, ctx', {"m_position"})
    BY <1>7, <2>2, Footprints
  <2> HIDE DEF rs
  <2>4. Updates(rs)
    BY <2>3 DEF d, Updates
  <2>5. ~ NonTerminalFailed /\ ~ NonTerminalRecovered /\ ~ NonTerminalMatched
    BY <1>10
    DEF NonTerminalFixedPoint, NonTerminalFailed, NonTerminalRecovered,
        NonTerminalMatched, ReturnedTo, Finishing, At
  <2> QED
    BY <2>1, <2>4, <2>5
<1>11. CASE NonTerminalFailed
  <2> DEFINE rs == [Top.rs EXCEPT !.m_cached_result = Failed]
             d == update_rule_state(e, ThisRule, Top.start, rs)
  <2>1. rs \in RuleStates(n) /\ rs.m_cached_result = Failed
    BY <1>3, <1>4, <1>5 DEF RuleStates
  <2>2. ctx' = d
    BY <1>11 DEF NonTerminalFailed, c, e
  <2>3. Writes(d, ctx', {"m_position"})
    BY <2>2, Footprints
  <2> HIDE DEF rs, e
  <2>4. Updates(rs)
    BY <1>9, <2>3 DEF Updates
  <2>5. ~ NonTerminalRecovered /\ ~ NonTerminalMatched
    BY <1>11
    DEF NonTerminalFailed, NonTerminalRecovered, NonTerminalMatched, Finishing
  <2> QED
    BY <2>1, <2>4, <2>5
<1>12. CASE NonTerminalRecovered
  <2>1. PICK scan \in Top.start..n :
          ctx' = update_rule_state(
                   record_diagnostic(reset(e, ResumeAt(scan)),
                                     [pos |-> Top.start, rule |-> ThisRule]),
                   ThisRule, Top.start,
                   [m_last_pos |-> ResumeAt(scan),
                    m_cached_result |-> Matched(nullptr)])
    BY <1>12 DEF NonTerminalRecovered, c, e
  <2> DEFINE rs == [m_last_pos |-> ResumeAt(scan),
                    m_cached_result |-> Matched(nullptr)]
             p == ResumeAt(scan)
             y == [pos |-> Top.start, rule |-> ThisRule]
             b == reset(e, p)
             a == record_diagnostic(b, y)
             d == update_rule_state(a, ThisRule, Top.start, rs)
  <2>2. /\ rs \in RuleStates(n) /\ rs.m_cached_result = Matched(nullptr)
        /\ rs.m_last_pos = p
    <3>1. ResumeAt(scan) \in 0..n
      BY <1>1, <1>3 DEF ResumeAt
    <3>2. Matched(nullptr) \in Results
      BY <1>5 DEF nullptr
    <3> QED
      BY <3>1, <3>2 DEF RuleStates
  <2>3. ctx' = d
    BY <2>1
  <2>a. "m_position" \in DOMAIN ctx
    BY <1>1 DEF Contexts
  <2> HIDE DEF e, rs, p, y
  <2>4. DOMAIN b = DOMAIN ctx /\ b.m_mem = ctx.m_mem /\ mark(b) = p
    <3>1. Writes(e, b, {"m_position"})
      BY <1>7, Footprints
    <3>2. mark(b) = p
      BY <1>9, <2>a DEF reset, mark
    <3> HIDE DEF b
    <3> QED
      BY <1>1, <1>7, <1>9, <3>1, <3>2, MemoKept
  <2> HIDE DEF b
  <2>5. DOMAIN a = DOMAIN ctx /\ a.m_mem = ctx.m_mem /\ mark(a) = p
    <3>1. "m_diagnostics" \in {"m_diagnostics"} /\ "m_mem" \notin {"m_diagnostics"}
      OBVIOUS
    <3>2. Writes(b, a, {"m_diagnostics"})
      BY <3>1, Footprints
    <3> HIDE DEF a
    <3>3. mark(a) = p
      BY <2>a, <2>4, <3>2 DEF Writes, mark
    <3> QED
      BY <1>1, <2>4, <3>1, <3>2, <3>3, MemoKept
  <2> HIDE DEF a
  <2>6. Writes(d, ctx', {"m_position"})
    BY <2>3, Footprints
  <2>b. mark(ctx') = p
    <3>1. Writes(a, d, {"m_mem"})
      BY Footprints
    <3> HIDE DEF d
    <3> QED
      BY <2>a, <2>3, <2>5, <3>1 DEF Writes, mark
  <2>7. Updates(rs)
    BY <2>5, <2>6 DEF Updates
  <2>8. ~ NonTerminalFailed /\ ~ NonTerminalMatched
    BY <1>12
    DEF NonTerminalFailed, NonTerminalRecovered, NonTerminalMatched, Finishing
  <2> QED
    BY <2>2, <2>b, <2>7, <2>8
<1>13. CASE NonTerminalMatched
  <2>1. PICK a, t :
          /\ ctx' = update_rule_state(a, ThisRule, Top.start,
                      [Top.rs EXCEPT !.m_cached_result = Matched(t)])
          /\ t \in Nat \ {nullptr}
          /\ \E x, y : a = make_node(c, x) \/ a = edit_node(c, y, x)
    <3> DEFINE tree == Top.best.tree
               fresh == ThisRule \in gram.folds \/ tree = nullptr
               node == RuleNode(c, IF fresh THEN EmptyNode(Top.start, mark(c))
                                   ELSE NodeAt(c, tree), tree)
               t == IF fresh THEN NextNode(c) ELSE tree
               a == IF fresh THEN make_node(c, node) ELSE edit_node(c, t, node)
    <3>1. ctx' = update_rule_state(a, ThisRule, Top.start,
                   [Top.rs EXCEPT !.m_cached_result = Matched(t)])
      BY <1>13 DEF NonTerminalMatched, c
    <3>2. tree \in Nat
      BY <1>3 DEF Results
    <3>3. NextNode(c) \in Nat \ {nullptr}
      <4>1. c.m_node_arena = ctx.m_node_arena
        <5>1. Writes(ctx, c, {"m_lr_stack", "m_growing_head"})
          BY LeaveWrites DEF c
        <5>2. "m_node_arena" \in DOMAIN ctx
          BY <1>1 DEF Contexts
        <5> QED
          BY <5>1, <5>2 DEF Writes
      <4> QED
        BY <1>8, <4>1 DEF NextNode, nullptr
    <3>4. t \in Nat \ {nullptr}
      BY <3>2, <3>3
    <3>5. \E x, y : a = make_node(c, x) \/ a = edit_node(c, y, x)
      OBVIOUS
    <3> HIDE DEF a, t
    <3> QED
      BY <3>1, <3>4, <3>5
  <2> DEFINE rs == [Top.rs EXCEPT !.m_cached_result = Matched(t)]
             d == update_rule_state(a, ThisRule, Top.start, rs)
  <2>2. /\ rs \in RuleStates(n) /\ rs.m_cached_result = Matched(t)
        /\ rs.m_last_pos = Top.rs.m_last_pos
    <3>1. Matched(t) \in Results
      BY <1>5, <2>1
    <3> QED
      BY <1>3, <1>4, <3>1 DEF RuleStates
  <2>3. DOMAIN a = DOMAIN ctx /\ a.m_mem = ctx.m_mem
    <3>1. "m_node_arena" \in {"m_node_arena"} /\ "m_mem" \notin {"m_node_arena"}
      OBVIOUS
    <3>2. \A x, y : /\ Writes(c, make_node(c, x), {"m_node_arena"})
                    /\ Writes(c, edit_node(c, y, x), {"m_node_arena"})
      BY <3>1, Footprints
    <3>3. Writes(c, a, {"m_node_arena"})
      BY <2>1, <3>2
    <3> QED
      BY <1>1, <1>6, <3>1, <3>3, MemoKept
  <2>4. ctx' = d
    BY <2>1
  <2> HIDE DEF rs
  <2>5. Writes(d, ctx', {"m_position"})
    BY <2>4, Footprints
  <2>6. Updates(rs)
    BY <2>3, <2>5 DEF Updates
  <2>7. ~ NonTerminalFailed /\ ~ NonTerminalRecovered
    BY <1>13
    DEF NonTerminalFailed, NonTerminalRecovered, NonTerminalMatched, Finishing
  <2> QED
    BY <2>1, <2>2, <2>6, <2>7
<1> QED
  BY <1>10, <1>11, <1>12, <1>13

\* A rule that ends its growth loop, or returns, stores its answer if its entry
\* is still there.
LEMMA RuleStores ==
  ASSUME Inv, HasMemo(ctx, ThisRule, Top.start),
         \/ NonTerminalFixedPoint \/ NonTerminalFailed
         \/ NonTerminalRecovered \/ NonTerminalMatched
  PROVE  \E x \in RuleStates(Len(input)) :
           /\ Assigns(MyEntry, x)
           /\ NonTerminalFailed => x.m_cached_result = Failed
           /\ NonTerminalRecovered =>
                x.m_cached_result = Matched(nullptr) /\ x.m_last_pos = mark(ctx')
           /\ NonTerminalMatched =>
                /\ \E t \in Nat \ {nullptr} : x.m_cached_result = Matched(t)
                /\ x.m_last_pos = Top.rs.m_last_pos
<1>1. stack # <<>> /\ Top.kind = "NonTerminal"
  BY DEF NonTerminalFixedPoint, NonTerminalFailed, NonTerminalRecovered,
         NonTerminalMatched, ReturnedTo, Finishing, At
<1>2. PICK x \in RuleStates(Len(input)) :
        /\ Updates(x)
        /\ NonTerminalFailed => x.m_cached_result = Failed
        /\ NonTerminalRecovered =>
             x.m_cached_result = Matched(nullptr) /\ x.m_last_pos = mark(ctx')
        /\ NonTerminalMatched =>
             /\ \E t \in Nat \ {nullptr} : x.m_cached_result = Matched(t)
             /\ x.m_last_pos = Top.rs.m_last_pos
  BY RuleUpdates
<1>3. Assigns(MyEntry, x)
  BY <1>1, <1>2, UpdateStores
<1> QED
  BY <1>2, <1>3

\* A rule whose entry a cut has evicted leaves the memo alone until it returns.
LEMMA RuleForgotten ==
  ASSUME Inv, ~ HasMemo(ctx, ThisRule, Top.start),
         Memoises, ~ NonTerminalEnter
  PROVE  ctx'.m_mem = ctx.m_mem
<1>1. stack # <<>> /\ Top.kind = "NonTerminal"
  BY DEF Memoises, NonTerminalGrow, NonTerminalFixedPoint, NonTerminalFailed,
         NonTerminalRecovered, NonTerminalMatched, ReturnedTo, Finishing, At
<1>2. CASE NonTerminalGrow
  <2> DEFINE b == [ctx EXCEPT !.m_lr_stack[Top.lr].last_pos = mark(ctx)]
             rs == [m_last_pos |-> mark(ctx), m_cached_result |-> ctl.res]
             c == update_rule_state(b, ThisRule, Top.start, rs)
  <2>1. DOMAIN b = DOMAIN ctx /\ b.m_mem = ctx.m_mem
    <3>1. "m_lr_stack" \in DOMAIN ctx
      BY Facts DEF ContextOK, Contexts
    <3> QED
      BY <3>1
  <2>2. ctx' = reset(c, mark(ctx))
    BY <1>2 DEF NonTerminalGrow
  <2>3. Writes(c, ctx', {"m_position"})
    <3>1. "m_position" \in {"m_position"}
      OBVIOUS
    <3> HIDE DEF c
    <3> QED
      BY <2>2, <3>1, Footprints
  <2> HIDE DEF b, rs
  <2>4. Updates(rs)
    BY <2>1, <2>3 DEF Updates
  <2> QED
    BY <1>1, <2>4, UpdateStores
<1>3. CASE ~ NonTerminalGrow
  <2>1. PICK x : Updates(x)
    BY <1>3, RuleUpdates DEF Memoises
  <2> QED
    BY <1>1, <2>1, UpdateStores
<1> QED
  BY <1>2, <1>3

\* A rule that grows its seed stores the longer match, and may forget rules
\* that are not in progress.
LEMMA RuleGrows ==
  ASSUME Inv, NonTerminalGrow, HasMemo(ctx, ThisRule, Top.start)
  PROVE  /\ DOMAIN ctx'.m_mem = DOMAIN ctx.m_mem /\ MyEntry \in DOMAIN ctx.m_mem
         /\ ctx'.m_mem[MyEntry] # Absent
         /\ \A k \in DOMAIN ctx.m_mem \ {MyEntry} :
              \/ ctx'.m_mem[k] = ctx.m_mem[k]
              \/ /\ ctx'.m_mem[k] = Absent /\ ~ lr_in_progress(ctx, k[2], k[1])
                 /\ MyLR.is_head /\ k[1] = Top.start
<1> DEFINE n == Len(input)
           rs == [m_last_pos |-> mark(ctx), m_cached_result |-> ctl.res]
           b == [ctx EXCEPT !.m_lr_stack[Top.lr].last_pos = mark(ctx)]
           c == update_rule_state(b, ThisRule, Top.start, rs)
           m == [ctx.m_mem EXCEPT ![MyEntry] = rs]
           e == clear_siblings_at(c, Top.start, ThisRule)
<1>1. /\ n \in Nat /\ ContextOK(ctx, n) /\ ctx \in Contexts(n)
      /\ mark(ctx) \in 0..n /\ ctl.res \in Results /\ Absent \notin RuleStates(n)
  BY Facts DEF ContextOK
<1>2. stack # <<>> /\ Top.kind = "NonTerminal"
  BY DEF NonTerminalGrow, ReturnedTo, At
<1>3. /\ ThisRule \in Rules /\ Top.start \in 0..n
      /\ Top.lr \in 1..Len(ctx.m_lr_stack)
  BY <1>2, RuleTop
<1>4. rs \in RuleStates(n) /\ rs # Absent
  BY <1>1 DEF RuleStates
<1>5. MyEntry \in DOMAIN ctx.m_mem /\ MyEntry[1] = Top.start /\ MyEntry[2] = ThisRule
  <2>1. DOMAIN ctx.m_mem = (0..n) \X Rules
    BY <1>1, FieldTypes
  <2> QED
    BY <1>3, <2>1 DEF MyEntry
<1>6. /\ b.m_mem = ctx.m_mem /\ Len(b.m_lr_stack) = Len(ctx.m_lr_stack)
      /\ \A j \in 1..Len(ctx.m_lr_stack) :
           /\ b.m_lr_stack[j].rule = ctx.m_lr_stack[j].rule
           /\ b.m_lr_stack[j].pos = ctx.m_lr_stack[j].pos
  BY <1>1, <1>3, LrGrowOK
<1>7. DOMAIN b = DOMAIN ctx
  OBVIOUS
<1>8. \E x : (ctx' = reset(e, x) /\ MyLR.is_head) \/ ctx' = reset(c, x)
  BY DEF NonTerminalGrow
<1> HIDE DEF b, rs
<1>9. DOMAIN c = DOMAIN ctx /\ c.m_mem = m /\ c.m_lr_stack = b.m_lr_stack
  <2>1. Writes(b, c, {"m_mem"}) /\ "m_lr_stack" \notin {"m_mem"}
    <3>1. "m_mem" \in {"m_mem"}
      OBVIOUS
    <3> QED
      BY <3>1, Footprints
  <2>2. c.m_mem = m
    BY <1>1, <1>6, <1>7, MemoMethods DEF HasMemo, MyEntry
  <2> HIDE DEF c
  <2> QED
    BY <1>1, <1>7, <2>1, <2>2, MemoKept
<1>10. \A r, p : lr_in_progress(c, r, p) = lr_in_progress(ctx, r, p)
  BY <1>6, <1>9 DEF lr_in_progress
<1> HIDE DEF c
<1>11. /\ DOMAIN m = DOMAIN ctx.m_mem /\ m[MyEntry] = rs
       /\ \A k \in DOMAIN ctx.m_mem \ {MyEntry} : m[k] = ctx.m_mem[k]
  BY <1>5
<1> HIDE DEF m
<1>12. /\ DOMAIN e = DOMAIN ctx
       /\ e.m_mem = [k \in DOMAIN m |->
            IF k[1] = Top.start /\ k[2] # ThisRule
                 /\ ~ lr_in_progress(ctx, k[2], Top.start)
            THEN Absent ELSE m[k]]
  <2>1. Writes(c, e, {"m_mem"})
    BY Footprints
  <2>2. DOMAIN e = DOMAIN ctx
    BY <1>9, <2>1 DEF Writes
  <2>3. e.m_mem = [k \in DOMAIN c.m_mem |->
            IF k[1] = Top.start /\ k[2] # ThisRule
                 /\ ~ lr_in_progress(c, k[2], Top.start)
            THEN Absent ELSE c.m_mem[k]]
    BY <1>1, <1>9, MemoMethods
  <2> QED
    BY <1>9, <1>10, <2>2, <2>3
<1> HIDE DEF e
<1>13. (ctx'.m_mem = e.m_mem /\ MyLR.is_head) \/ ctx'.m_mem = m
  <2>1. "m_position" \in {"m_position"} /\ "m_mem" \notin {"m_position"}
    OBVIOUS
  <2>2. \A x : /\ Writes(e, reset(e, x), {"m_position"})
               /\ Writes(c, reset(c, x), {"m_position"})
    BY <2>1, Footprints
  <2>3. PICK x : (ctx' = reset(e, x) /\ MyLR.is_head) \/ ctx' = reset(c, x)
    BY <1>8
  <2>4. CASE ctx' = reset(e, x) /\ MyLR.is_head
    <3>1. Writes(e, ctx', {"m_position"})
      BY <2>2, <2>4
    <3>2. ctx'.m_mem = e.m_mem
      BY <1>1, <1>12, <2>1, <3>1, MemoKept
    <3> QED
      BY <2>4, <3>2
  <2>5. CASE ctx' = reset(c, x)
    <3>1. Writes(c, ctx', {"m_position"})
      BY <2>2, <2>5
    <3>2. ctx'.m_mem = c.m_mem
      BY <1>1, <1>9, <2>1, <3>1, MemoKept
    <3> QED
      BY <1>9, <3>2
  <2> QED
    BY <2>3, <2>4, <2>5
<1>14. CASE ctx'.m_mem = m
  BY <1>4, <1>5, <1>11, <1>14
<1>15. CASE ctx'.m_mem = e.m_mem /\ MyLR.is_head
  <2>1. DOMAIN ctx'.m_mem = DOMAIN ctx.m_mem
    BY <1>11, <1>12, <1>15
  <2>2. ctx'.m_mem[MyEntry] = rs
    BY <1>5, <1>11, <1>12, <1>15
  <2>3. ASSUME NEW k \in DOMAIN ctx.m_mem \ {MyEntry}
        PROVE  \/ ctx'.m_mem[k] = ctx.m_mem[k]
               \/ /\ ctx'.m_mem[k] = Absent /\ ~ lr_in_progress(ctx, k[2], k[1])
                  /\ MyLR.is_head /\ k[1] = Top.start
    <3>1. ctx'.m_mem[k] = IF k[1] = Top.start /\ k[2] # ThisRule
                               /\ ~ lr_in_progress(ctx, k[2], Top.start)
                          THEN Absent ELSE m[k]
      BY <1>11, <1>12, <1>15
    <3> QED
      BY <1>11, <1>15, <3>1
  <2> QED
    BY <1>4, <1>5, <2>1, <2>2, <2>3
<1> QED
  BY <1>13, <1>14, <1>15

-----------------------------------------------------------------------------
(* No rule is re-entered where it is in progress.                          *)

\* Every rule in progress finds its entry in the memo.
Seeded ==
  \A k \in 1..Len(ctx.m_lr_stack) :
    HasMemo(ctx, ctx.m_lr_stack[k].rule, ctx.m_lr_stack[k].pos)

\* The innermost rule call is the last entry of the left-recursion stack.
LEMMA MineLast ==
  ASSUME Inv, MirrorInv, ctl.mode \notin {"throw", "idle"}, stack # <<>>,
         Top.kind = "NonTerminal"
  PROVE  /\ Top.lr = Len(ctx.m_lr_stack)
         /\ MyLR.rule = ThisRule /\ MyLR.pos = Top.start
         /\ lr_in_progress(ctx, ThisRule, Top.start)
         /\ Seeded => HasMemo(ctx, ThisRule, Top.start)
<1>1. Mirrors(stack, ctx.m_lr_stack)
  BY DEF MirrorInv
<1>2. Len(stack) \in Nat /\ Len(stack) \in RuleFrames(stack)
  BY Innermost DEF RuleFrames
<1>3. Top = stack[Len(stack)]
  BY DEF Top
<1>4. Top.lr \in 1..Len(ctx.m_lr_stack) /\ Len(ctx.m_lr_stack) \in Nat
  BY Facts, RuleTop
<1>5. Top.lr = Len(ctx.m_lr_stack)
  <2>1. PICK k \in RuleFrames(stack) : stack[k].lr = Len(ctx.m_lr_stack)
    BY <1>1, <1>4 DEF Mirrors
  <2>2. CASE k = Len(stack)
    BY <1>3, <2>1, <2>2
  <2>3. CASE k < Len(stack)
    <3>1. stack[k].lr < Top.lr
      BY <1>1, <1>2, <1>3, <2>3 DEF Mirrors
    <3> QED
      BY <1>4, <2>1, <3>1
  <2>4. k \in 1..Len(stack)
    BY DEF RuleFrames
  <2> QED
    BY <1>2, <2>2, <2>3, <2>4
<1>6. MyLR.rule = ThisRule /\ MyLR.pos = Top.start
  BY <1>1, <1>2, <1>3 DEF Mirrors, MyLR, ThisRule
<1>7. lr_in_progress(ctx, ThisRule, Top.start)
  BY <1>4, <1>6 DEF lr_in_progress, MyLR
<1>8. Seeded => HasMemo(ctx, ThisRule, Top.start)
  BY <1>4, <1>6 DEF Seeded, MyLR
<1> QED
  BY <1>5, <1>6, <1>7, <1>8

\* A step that writes the memo writes the entry of the rule it enters or runs;
\* it forgets no rule that is in progress.
LEMMA MemoStep ==
  ASSUME Inv, MirrorInv, Step, ~ IsCut(ctx), Seeded
  PROVE  /\ DOMAIN ctx'.m_mem = DOMAIN ctx.m_mem
         /\ \A k \in DOMAIN ctx.m_mem :
              \/ ctx'.m_mem[k] = ctx.m_mem[k]
              \/ ctx'.m_mem[k] = Absent /\ ~ lr_in_progress(ctx, k[2], k[1])
              \/ /\ ctx'.m_mem[k] # Absent
                 /\ IF NonTerminalEnter THEN k = <<mark(ctx), ctl.e.rule>>
                    ELSE Memoises /\ k = MyEntry
<1>1. Absent \notin RuleStates(Len(input))
  BY Facts
<1>2. CASE ~ Memoises
  BY <1>2, MemoQuiet DEF TopCommitted
<1>3. CASE NonTerminalEnter
  <2>1. PICK x \in RuleStates(Len(input)) :
          Assigns(<<mark(ctx), ctl.e.rule>>, x)
    BY <1>3, RuleEnters
  <2> QED
    BY <1>1, <1>3, <2>1 DEF Assigns
<1>4. CASE Memoises /\ ~ NonTerminalEnter
  <2>1. /\ stack # <<>> /\ Top.kind = "NonTerminal"
        /\ ctl.mode \in {"return", "finish"}
    BY <1>4
    DEF Memoises, NonTerminalGrow, NonTerminalFixedPoint, NonTerminalFailed,
        NonTerminalRecovered, NonTerminalMatched, ReturnedTo, Finishing, At
  <2>2. HasMemo(ctx, ThisRule, Top.start)
    BY <2>1, MineLast
  <2>3. CASE NonTerminalGrow
    BY <1>4, <2>2, <2>3, RuleGrows
  <2>4. CASE ~ NonTerminalGrow
    <3>1. \E x \in RuleStates(Len(input)) : Assigns(MyEntry, x)
      BY <1>4, <2>2, <2>4, RuleStores DEF Memoises
    <3> QED
      BY <1>1, <1>4, <3>1 DEF Assigns
  <2> QED
    BY <2>3, <2>4
<1> QED
  BY <1>2, <1>3, <1>4

\* The keys of the memo and of the left-recursion stack.
LEMMA Keys ==
  ASSUME Inv
  PROVE  /\ DOMAIN ctx.m_mem = (0..Len(input)) \X Rules
         /\ \A k \in 1..Len(ctx.m_lr_stack) :
              /\ ctx.m_lr_stack[k].rule \in Rules
              /\ ctx.m_lr_stack[k].pos \in 0..Len(input)
<1>1. DOMAIN ctx.m_mem = (0..Len(input)) \X Rules
  BY Facts, FieldTypes DEF ContextOK
<1>2. ctx.m_lr_stack \in Seq(LRFrames(Len(input)))
  BY Facts
<1>3. \A k \in 1..Len(ctx.m_lr_stack) : ctx.m_lr_stack[k] \in LRFrames(Len(input))
  BY <1>2
<1> QED
  BY <1>1, <1>3 DEF LRFrames

\* A rule that is entered is in the memo from then on, and was not before.
LEMMA SeedStep ==
  ASSUME Inv, MirrorInv, Step, ~ IsCut(ctx), Seeded, NoRuleReentered
  PROVE  Seeded' /\ NoRuleReentered'
<1> DEFINE l == ctx.m_lr_stack
           m == ctx'.m_lr_stack
           Old(k) == k \in 1..Len(l) /\ m[k].rule = l[k].rule /\ m[k].pos = l[k].pos
           New(k) == /\ NonTerminalEnter /\ k = Len(l) + 1
                     /\ m[k].rule = ctl.e.rule /\ m[k].pos = mark(ctx)
<1>1. \A k \in 1..Len(m) : Old(k) \/ New(k)
  BY LrStep
<1>2. ASSUME NEW k \in 1..Len(m) PROVE HasMemo(ctx', m[k].rule, m[k].pos)
  <2>1. CASE Old(k)
    <3> DEFINE key == <<l[k].pos, l[k].rule>>
    <3>1. key \in DOMAIN ctx.m_mem
      BY <2>1, Keys
    <3>2. ctx.m_mem[key] # Absent
      BY <2>1 DEF Seeded, HasMemo
    <3>3. lr_in_progress(ctx, l[k].rule, l[k].pos)
      BY <2>1 DEF lr_in_progress
    <3>4. key[1] = l[k].pos /\ key[2] = l[k].rule
      OBVIOUS
    <3>5. ctx'.m_mem[key] # Absent
      <4> HIDE DEF key
      <4> QED
        BY <3>1, <3>2, <3>3, <3>4, MemoStep
    <3> QED
      BY <2>1, <3>5 DEF HasMemo
  <2>2. CASE New(k)
    <3>1. PICK x \in RuleStates(Len(input)) :
            Assigns(<<mark(ctx), ctl.e.rule>>, x)
      BY <2>2, RuleEnters
    <3>2. ctx'.m_mem[<<mark(ctx), ctl.e.rule>>] # Absent
      BY <3>1, Facts DEF Assigns
    <3> QED
      BY <2>2, <3>2 DEF HasMemo
  <2> QED
    BY <1>1, <2>1, <2>2
<1>3. ASSUME NEW j \in 1..Len(m), NEW k \in 1..Len(m), j # k,
             m[j].rule = m[k].rule, m[j].pos = m[k].pos
      PROVE  FALSE
  <2>1. ASSUME NEW i, NEW h, Old(i), New(h), m[i].rule = m[h].rule,
               m[i].pos = m[h].pos
        PROVE  FALSE
    <3>1. HasMemo(ctx, ctl.e.rule, mark(ctx))
      BY <2>1 DEF Seeded
    <3>2. ~ HasMemo(ctx, ctl.e.rule, mark(ctx))
      BY <2>1 DEF NonTerminalEnter
    <3> QED
      BY <3>1, <3>2
  <2>2. CASE Old(j) /\ Old(k)
    BY <1>3, <2>2 DEF NoRuleReentered
  <2>3. CASE New(j) /\ New(k)
    BY <1>3, <2>3
  <2> HIDE DEF Old, New
  <2> QED
    BY <1>1, <1>3, <2>1, <2>2, <2>3
<1> QED
  BY <1>2, <1>3 DEF Seeded, NoRuleReentered

\* What holds of every reachable state, whether or not there are cuts.
RunInv ==
  /\ Inv /\ CutScopesBalanced /\ MirrorInv /\ CalmInv /\ WholeInv
  /\ SkipperCutFree => ResumeInv

\* RunInv collects the invariants proved so far.
LEMMA RunInvHolds == Spec => []RunInv
<1>1. Init => CalmInv /\ WholeInv
  <2> SUFFICES ASSUME Init PROVE CalmInv /\ WholeInv
    OBVIOUS
  <2>1. stack = <<>> /\ ctx = NewContext(Len(input)) /\ ctl.mode = "idle"
    BY DEF Init
  <2>2. ctx.m_cut = <<>>
    BY <2>1 DEF NewContext
  <2> QED
    BY <2>1, <2>2 DEF CalmInv, Calm, WholeInv, Inside
<1> DEFINE R == SkipperCutFree => ResumeInv
<1>2. Inv /\ CutScopesBalanced /\ MirrorInv /\ CalmInv /\ WholeInv /\ R => RunInv
  BY DEF RunInv
<1>3. Spec => []R
  BY SkippingInv
<1> HIDE DEF R
<1> QED
  BY <1>1, <1>2, <1>3, CutsBalance, InitInv, NextInv, MirrorInit, MirrorNext,
     CalmNext, WholeNext, PTL DEF Spec

\* A grammar stays what it is, and one without cuts has a skipper without.
LEMMA StaysCutFree ==
  /\ [Next]_vars => (GrammarCutFree' <=> GrammarCutFree)
  /\ GrammarCutFree => SkipperCutFree
<1>1. ASSUME [Next]_vars PROVE GrammarCutFree' <=> GrammarCutFree
  <2>1. gram' = gram
    BY <1>1, SetupKept DEF setup
  <2> QED
    BY <2>1
    DEF GrammarCutFree, GrammarIn, SkipperIn, WithSkipper, CutFree, Closed
<1>2. GrammarCutFree => SkipperCutFree
  BY DEF GrammarCutFree, GrammarIn, SkipperCutFree
<1> QED
  BY <1>1, <1>2

\* Without cuts, every rule in progress is in the memo, and none twice.
SeedInv == GrammarCutFree => Seeded /\ NoRuleReentered

\* SeedInv is inductive, given RunInv.
LEMMA SeedNext == RunInv /\ SeedInv /\ [Next]_vars => SeedInv'
<1> SUFFICES ASSUME RunInv, SeedInv, [Next]_vars, GrammarCutFree'
             PROVE  Seeded' /\ NoRuleReentered'
  BY DEF SeedInv
<1>1. GrammarCutFree
  BY StaysCutFree
<1>2. Seeded /\ NoRuleReentered
  BY <1>1 DEF SeedInv
<1>3. CASE Step
  <2>1. ~ IsCut(ctx)
    BY <1>1, Uncommitted DEF RunInv
  <2> QED
    BY <1>2, <1>3, <2>1, SeedStep DEF RunInv
<1>4. CASE UNCHANGED vars
  BY <1>2, <1>4 DEF vars, Seeded, NoRuleReentered, HasMemo
<1> QED
  BY <1>3, <1>4, CodeStep

\* A Context starts without rules in progress.
LEMMA SeedInit == Init => SeedInv
BY DEF Init, NewContext, SeedInv, Seeded, NoRuleReentered

-----------------------------------------------------------------------------
(* Cuts beside recursion.                                                  *)

\* The calls after the k-th are of expressions in E.
Above(E, k) ==
  /\ \A j \in 1..Len(stack) : j > k => stack[j].e \in E
  /\ ctl.mode = "call" => ctl.e \in E

\* A rule that is entered calls its body, and calls it again to grow its seed.
LEMMA BodyCalled ==
  ASSUME Inv, CallingStep, ctl'.mode = "call",
         stack'[Len(stack')].kind = "NonTerminal"
  PROVE  ctl'.e = gram.body[stack'[Len(stack')].e.rule]
<1> DEFINE top == stack'[Len(stack')]
<1>1. \A kind, e : /\ NewFrame(kind, e).kind = kind
                   /\ NewFrame(kind, e).e = e
  BY DEF NewFrame
<1>2. ASSUME stack # <<>>
      PROVE  Top \in Frames /\ Top = stack[Len(stack)]
  BY <1>2, Innermost
<1>3. CASE NonTerminalEnter
  <2> DEFINE f == [NewFrame("NonTerminal", ctl.e)
                     EXCEPT !.lr = Len(ctx.m_lr_stack) + 1]
  <2>1. Push(f) /\ ctl'.e = gram.body[ctl.e.rule]
    BY <1>3, NextMode DEF NonTerminalEnter
  <2>2. f.e = ctl.e
    BY DEF NewFrame
  <2> HIDE DEF f
  <2> QED
    BY <2>1, <2>2, NewTop
<1>4. CASE NonTerminalGrow
  <2> DEFINE f == [Top EXCEPT !.best = ctl.res,
                     !.rs = [m_last_pos |-> mark(ctx), m_cached_result |-> ctl.res]]
  <2>1. /\ stack # <<>> /\ SetTop(f)
        /\ Call(gram.body[ThisRule]) \/ Goto("finish")
    BY <1>4 DEF NonTerminalGrow, ReturnedTo, At
  <2>2. ctl'.e = gram.body[ThisRule]
    BY <2>1, NextMode
  <2>3. f.e = Top.e
    BY <1>2, <2>1 DEF Frames
  <2> HIDE DEF f
  <2> QED
    BY <2>1, <2>2, <2>3, NewTop DEF ThisRule
<1>5. CASE SequenceChild
  <2>1. stack # <<>> /\ stack' = stack /\ Top.kind = "Sequence"
    BY <1>5 DEF SequenceChild, At
  <2> QED
    BY <1>2, <2>1
<1>6. CASE AlternationEnter \/ PredicateEnter \/ LexemeEnter \/ SkipperEnter
  <2>1. \E kind \in {"Alternation", "Not", "And", "Lexeme", "Skipper"} :
          \E e : Push(NewFrame(kind, e))
    BY <1>6 DEF AlternationEnter, PredicateEnter, LexemeEnter, SkipperEnter
  <2>2. top.kind # "NonTerminal"
    BY <1>1, <2>1, NewTop
  <2> QED
    BY <2>2
<1>7. CASE AlternationNext \/ RepetitionChild
  <2>1. /\ stack # <<>> /\ Top.kind \in {"Alternation", "Repetition"}
        /\ SetTop([Top EXCEPT !.i = @ + 1]) \/ SetTop([Top EXCEPT !.iter = mark(ctx)])
    BY <1>7 DEF AlternationNext, RepetitionChild, ReturnedTo, At
  <2>2. PICK f : SetTop(f) /\ f.kind = Top.kind
    <3>1. /\ [Top EXCEPT !.i = @ + 1].kind = Top.kind
          /\ [Top EXCEPT !.iter = mark(ctx)].kind = Top.kind
      BY <1>2, <2>1 DEF Frames
    <3> QED
      BY <2>1, <3>1
  <2>3. top = f
    BY <2>1, <2>2, NewTop
  <2> QED
    BY <2>1, <2>2, <2>3
<1> QED
  BY <1>3, <1>4, <1>5, <1>6, <1>7 DEF CallingStep

\* Calls made inside a closed set with the skipper stay inside.
LEMMA AboveStep ==
  ASSUME Inv, CalmInv, Step, NEW E \in SUBSET Exprs, Closed(E), WithSkipper(E),
         NEW k \in Nat, k <= Len(stack), k <= Len(stack'), Above(E, k),
         GrammarStep => Ref(gram.start) \in E,
         CallingStep /\ ctl'.mode = "call" /\ k = Len(stack') => ctl'.e \in E
  PROVE  Above(E, k)'
<1>1. Inv' /\ Shaped /\ UNCHANGED setup
  BY StepShape, SetupKept DEF Next
<1>2. Len(stack) \in Nat /\ Len(stack') \in Nat
  BY <1>1, CallBefore
<1>3. ASSUME NEW j \in 1..Len(stack'), j > k PROVE stack'[j].e \in E
  <2>1. CASE j \in 1..Len(stack) /\ stack'[j].e = stack[j].e
    BY <1>3, <2>1 DEF Above
  <2>2. CASE Opens(stack'[j])
    <3>1. CASE stack'[j].kind = "Skipper"
      <4>1. /\ stack'[j].e = Ref(ctx.m_skipper) /\ ExprOK(stack'[j].e)
            /\ ctl.mode = "skip"
        BY <2>2, <3>1, FrameTypes DEF Opens
      <4>2. ctx.m_skipper \in Rules
        BY <4>1 DEF ExprOK, Ref, Expr
      <4>3. ctx.m_skipper = gram.skipper
        BY <4>1 DEF CalmInv
      <4> QED
        BY <4>1, <4>2, <4>3, RuleAssumption DEF WithSkipper
    <3>2. CASE stack'[j].kind # "Skipper"
      BY <2>2, <3>2 DEF Opens, Above
    <3> QED
      BY <3>1, <3>2
  <2> QED
    BY <1>1, <1>3, <2>1, <2>2, CallBefore
<1>4. ASSUME ctl'.mode = "call" PROVE ctl'.e \in E
  <2>1. CASE CallingStep
    <3>1. stack' # <<>>
      BY <2>1, CallerOpen
    <3>2. Len(stack') \in 1..Len(stack')
      BY <1>2, <3>1
    <3>3. CASE k < Len(stack')
      <4>1. stack'[Len(stack')].e \in E
        BY <1>3, <3>2, <3>3
      <4> QED
        BY <1>4, <2>1, <4>1, CallsInside
    <3>4. CASE k = Len(stack')
      BY <1>4, <2>1, <3>4
    <3> QED
      BY <1>2, <3>3, <3>4
  <2>2. CASE GrammarStep
    <3>1. CASE StartRule
      BY <2>2, <3>1, NextMode DEF StartRule
    <3>2. CASE StartParse
      <4>1. ctl'.mode = "skip"
        BY <3>2, Facts DEF StartParse, Control
      <4> QED
        BY <1>4, <4>1
    <3>3. CASE ~ StartRule /\ ~ StartParse
      <4>1. (ctl' = ctl /\ ctl.mode = "idle") \/ Goto("idle")
        BY <2>2, <3>3
        DEF GrammarStep, ParseReturns, ParseCatches, ParseThrows, Finish,
            TakeError, TakeDiagnostics
      <4> QED
        BY <1>4, <4>1, NextMode
    <3> QED
      BY <3>1, <3>2, <3>3
  <2> QED
    BY <1>4, <2>1, <2>2, OtherSteps
<1> QED
  BY <1>3, <1>4 DEF Above

\* A parse enters only what the start rule and the skipper may parse, and a
\* rule's body only what that body and the skipper may.
EnteredInv ==
  \A E \in SUBSET Exprs : Closed(E) /\ WithSkipper(E) =>
    /\ Ref(gram.start) \in E => Above(E, 0)
    /\ \A k \in RuleFrames(stack) :
         gram.body[stack[k].e.rule] \in E => Above(E, k)

\* EnteredInv is inductive, given Inv and CalmInv.
LEMMA EnteredNext == Inv /\ CalmInv /\ EnteredInv /\ [Next]_vars => EnteredInv'
<1> SUFFICES ASSUME Inv, CalmInv, EnteredInv, [Next]_vars,
                    NEW E \in SUBSET Exprs, Closed(E)', WithSkipper(E)'
             PROVE  /\ Ref(gram'.start) \in E => Above(E, 0)'
                    /\ \A k \in RuleFrames(stack') :
                         gram'.body[stack'[k].e.rule] \in E => Above(E, k)'
  BY DEF EnteredInv
<1>1. gram' = gram /\ Closed(E) /\ WithSkipper(E)
  BY SetupKept DEF setup, Closed, WithSkipper
<1>2. /\ Ref(gram.start) \in E => Above(E, 0)
      /\ \A k \in RuleFrames(stack) :
           gram.body[stack[k].e.rule] \in E => Above(E, k)
  BY <1>1 DEF EnteredInv
<1>3. CASE UNCHANGED vars
  BY <1>1, <1>2, <1>3 DEF vars, Above
<1>4. CASE Step
  <2>1. Inv' /\ Shaped /\ UNCHANGED setup
    BY <1>4, StepShape, SetupKept
  <2>2. Len(stack) \in Nat /\ Len(stack') \in Nat
    BY <2>1, CallBefore
  <2>3. ASSUME Ref(gram.start) \in E PROVE Above(E, 0)'
    <3>1. ~ (CallingStep /\ 0 = Len(stack'))
      BY CallerOpen
    <3>2. 0 \in Nat /\ 0 <= Len(stack) /\ 0 <= Len(stack')
      BY <2>2
    <3> QED
      BY <1>1, <1>2, <1>4, <2>3, <3>1, <3>2, AboveStep
  <2>4. ASSUME NEW k \in RuleFrames(stack'),
               gram.body[stack'[k].e.rule] \in E
        PROVE  Above(E, k)'
    <3>1. k \in 1..Len(stack') /\ stack'[k].kind = "NonTerminal"
      BY <2>4 DEF RuleFrames
    <3>2. ~ GrammarStep
      <4>1. ASSUME GrammarStep PROVE FALSE
        <5>1. Len(stack') = 0
          BY <4>1, GrammarIdle
        <5> QED
          BY <3>1, <5>1
      <4> QED
        BY <4>1
    <3>3. CallingStep /\ ctl'.mode = "call" /\ k = Len(stack') => ctl'.e \in E
      BY <2>4, <3>1, BodyCalled
    <3>4. CASE k \in 1..Len(stack) /\ stack[k].kind = "NonTerminal"
               /\ stack'[k].e = stack[k].e
      <4>1. Above(E, k)
        BY <1>2, <2>4, <3>4 DEF RuleFrames
      <4>2. k \in Nat /\ k <= Len(stack) /\ k <= Len(stack')
        BY <2>2, <3>1, <3>4
      <4> QED
        BY <1>1, <1>4, <3>2, <3>3, <4>1, <4>2, AboveStep
    <3>5. CASE k = Len(stack) + 1 /\ Opens(stack'[k])
      <4>1. NonTerminalEnter
        BY <1>4, <2>1, <3>1, <3>5, RuleOpens
      <4>2. k = Len(stack') /\ \A j \in 1..Len(stack') : ~ (j > k)
        <5>1. stack \in Seq(Frames) /\ stack' = Append(stack, stack'[k])
          BY <2>1, <3>5, StackTyped DEF Opens
        <5>2. Len(stack') = Len(stack) + 1
          BY <5>1
        <5> QED
          BY <2>2, <3>5, <5>2
      <4>3. CallingStep
        BY <4>1 DEF CallingStep
      <4> QED
        BY <3>3, <4>2, <4>3 DEF Above
    <3> QED
      BY <2>1, <3>1, <3>4, <3>5, CallBefore
  <2> QED
    BY <1>1, <2>3, <2>4
<1> QED
  BY <1>3, <1>4, CodeStep

\* Parsing e can run no cut.
Clean(e) == \E E \in SUBSET Exprs : SkipperIn(E) /\ e \in E

\* Nothing that rule r's body or the skipper may parse calls r.
Unnested(r) ==
  \E E \in SUBSET Exprs :
    /\ Closed(E) /\ WithSkipper(E) /\ gram.body[r] \in E
    /\ \A e \in E : ~ (e.op = "NonTerminal" /\ e.rule = r)

\* Cuts stay out of recursion: a rule that a parse can enter runs no cut, or
\* cannot enter itself.
RecursionCutFree ==
  \E E \in SUBSET Exprs :
    /\ Closed(E) /\ WithSkipper(E) /\ Ref(gram.start) \in E
    /\ \A e \in E : e.op = "NonTerminal" => Clean(e) \/ Unnested(e.rule)

\* Every rule in progress that runs no cut finds its entry in the memo.
CleanSeeded ==
  \A k \in RuleFrames(stack) :
    Clean(stack[k].e) => HasMemo(ctx, stack[k].e.rule, stack[k].start)

\* A rule in progress that runs no cut keeps its entry: whatever is committed
\* was committed before it was entered.
LEMMA CleanKept ==
  ASSUME Inv, CutScopesBalanced, CalmInv, MirrorInv, Step, CleanSeeded,
         NEW k \in RuleFrames(stack), Clean(stack[k].e)
  PROVE  HasMemo(ctx', stack[k].e.rule, stack[k].start)
<1> DEFINE r == stack[k].e.rule
           p == stack[k].start
           key == <<p, r>>
<1>1. k \in 1..Len(stack) /\ stack[k].kind = "NonTerminal" /\ Len(stack) \in Nat
      /\ stack # <<>>
  BY Facts DEF RuleFrames, StackOK
<1>2. PICK E \in SUBSET Exprs : Inside(E, k) /\ ctl.mode # "throw"
  BY <1>1 DEF Clean, CalmInv, Calm
<1>3. ctl.mode # "idle"
  BY <1>1, Facts DEF ControlOK, TopOK
<1>4. lr_in_progress(ctx, r, p) /\ key \in DOMAIN ctx.m_mem
  <2>1. Mirrors(stack, ctx.m_lr_stack)
    BY <1>2, <1>3 DEF MirrorInv
  <2>2. PICK i \in 1..Len(ctx.m_lr_stack) :
          ctx.m_lr_stack[i].rule = r /\ ctx.m_lr_stack[i].pos = p
    BY <2>1 DEF Mirrors
  <2> QED
    BY <2>2, Keys DEF lr_in_progress
<1>5. ctx.m_mem[key] # Absent
  BY DEF CleanSeeded, HasMemo
<1>6. ~ TopCommitted
  <2> SUFFICES ASSUME TopCommitted PROVE FALSE
    OBVIOUS
  <2>1. Top = stack[Len(stack)] /\ Top.kind # "NonTerminal"
    BY DEF TopCommitted, CutKinds, Top
  <2>2. k < Len(stack)
    BY <1>1, <2>1
  <2>3. k \in Nat \ {0} /\ k <= Len(stack)
    BY <1>1
  <2> QED
    BY <1>2, <2>3, InsideUncommitted
<1>7. Absent \notin RuleStates(Len(input))
  BY Facts
<1>8. CASE ~ Memoises
  BY <1>5, <1>6, <1>8, MemoQuiet DEF HasMemo
<1>9. CASE NonTerminalEnter
  <2>1. PICK x \in RuleStates(Len(input)) :
          Assigns(<<mark(ctx), ctl.e.rule>>, x)
    BY <1>9, RuleEnters
  <2>2. ctx'.m_mem[key] # Absent
    <3> HIDE DEF key
    <3> QED
      BY <1>4, <1>5, <1>7, <2>1 DEF Assigns
  <2> QED
    BY <2>2 DEF HasMemo
<1>10. CASE Memoises /\ ~ NonTerminalEnter /\ ~ HasMemo(ctx, ThisRule, Top.start)
  BY <1>5, <1>10, RuleForgotten DEF HasMemo
<1>11. CASE Memoises /\ ~ NonTerminalEnter /\ HasMemo(ctx, ThisRule, Top.start)
  <2>0. key[1] = p /\ key[2] = r
    OBVIOUS
  <2>1. ctx'.m_mem[key] # Absent
    <3> HIDE DEF key, p, r
    <3>1. CASE NonTerminalGrow
      BY <1>4, <1>5, <1>11, <2>0, <3>1, RuleGrows
    <3>2. CASE ~ NonTerminalGrow
      <4>1. \E x \in RuleStates(Len(input)) : Assigns(MyEntry, x)
        BY <1>11, <3>2, RuleStores DEF Memoises
      <4> QED
        BY <1>4, <1>5, <1>7, <4>1 DEF Assigns
    <3> QED
      BY <3>1, <3>2
  <2> QED
    BY <2>1 DEF HasMemo
<1> QED
  BY <1>8, <1>9, <1>10, <1>11

\* A step of a grammar whose recursion runs no cut enters no rule again where
\* it is in progress.
LEMMA CleanStep ==
  ASSUME Inv, CutScopesBalanced, CalmInv, MirrorInv, EnteredInv, Step,
         RecursionCutFree, CleanSeeded, NoRuleReentered
  PROVE  CleanSeeded' /\ NoRuleReentered'
<1> DEFINE l == ctx.m_lr_stack
           m == ctx'.m_lr_stack
           Old(k) == k \in 1..Len(l) /\ m[k].rule = l[k].rule /\ m[k].pos = l[k].pos
           New(k) == /\ NonTerminalEnter /\ k = Len(l) + 1
                     /\ m[k].rule = ctl.e.rule /\ m[k].pos = mark(ctx)
<1>1. Inv' /\ Shaped /\ UNCHANGED setup
  BY StepShape, SetupKept DEF Next
<1>2. gram' = gram
  BY <1>1 DEF setup
<1>3. \A e : Clean(e)' <=> Clean(e)
  BY <1>2 DEF Clean, SkipperIn, WithSkipper, CutFree, Closed
<1>4. ASSUME NEW k \in RuleFrames(stack'), Clean(stack'[k].e)
      PROVE  HasMemo(ctx', stack'[k].e.rule, stack'[k].start)
  <2>1. k \in 1..Len(stack') /\ stack'[k].kind = "NonTerminal"
    BY <1>4 DEF RuleFrames
  <2>2. CASE /\ k \in 1..Len(stack) /\ stack[k].kind = "NonTerminal"
             /\ stack'[k].e = stack[k].e /\ stack'[k].start = stack[k].start
    <3>1. k \in RuleFrames(stack)
      BY <2>2 DEF RuleFrames
    <3> QED
      BY <1>4, <2>2, <3>1, CleanKept
  <2>3. CASE k = Len(stack) + 1 /\ Opens(stack'[k])
    <3> DEFINE f == [NewFrame("NonTerminal", ctl.e)
                       EXCEPT !.lr = Len(ctx.m_lr_stack) + 1]
    <3>1. NonTerminalEnter
      BY <1>1, <2>1, <2>3, RuleOpens
    <3>2. Push(f)
      BY <3>1 DEF NonTerminalEnter
    <3>3. f.e = ctl.e /\ f.start = mark(ctx)
      BY DEF NewFrame
    <3> HIDE DEF f
    <3>4. stack \in Seq(Frames) /\ stack'[k] = f
      <4>1. stack \in Seq(Frames) /\ Len(stack) \in Nat
        BY <1>1, StackTyped
      <4> QED
        BY <2>3, <3>2, <4>1 DEF Push
    <3>5. PICK x \in RuleStates(Len(input)) :
            Assigns(<<mark(ctx), ctl.e.rule>>, x)
      BY <3>1, RuleEnters
    <3>6. ctx'.m_mem[<<mark(ctx), ctl.e.rule>>] # Absent
      BY <3>5, Facts DEF Assigns
    <3> QED
      BY <3>3, <3>4, <3>6 DEF HasMemo
  <2> QED
    BY <1>1, <2>1, <2>2, <2>3, CallBefore
<1>5. \A k \in 1..Len(m) : Old(k) \/ New(k)
  BY LrStep
<1>6. ASSUME NonTerminalEnter, NEW i \in 1..Len(l),
             l[i].rule = ctl.e.rule, l[i].pos = mark(ctx)
      PROVE  FALSE
  <2>1. /\ ctl.mode = "call" /\ ctl.e.op = "NonTerminal"
        /\ ~ HasMemo(ctx, ctl.e.rule, mark(ctx))
    BY <1>6 DEF NonTerminalEnter, Calling
  <2>2. Mirrors(stack, l)
    BY <2>1 DEF MirrorInv
  <2>3. PICK k \in RuleFrames(stack) : stack[k].lr = i
    BY <1>6, <2>2 DEF Mirrors
  <2>4. stack[k].e.rule = ctl.e.rule /\ stack[k].start = mark(ctx)
    BY <1>6, <2>2, <2>3 DEF Mirrors
  <2>5. ~ Clean(stack[k].e)
    BY <2>1, <2>4 DEF CleanSeeded
  <2>6. Unnested(stack[k].e.rule)
    <3>1. PICK E \in SUBSET Exprs :
            /\ Closed(E) /\ WithSkipper(E) /\ Ref(gram.start) \in E
            /\ \A e \in E : e.op = "NonTerminal" => Clean(e) \/ Unnested(e.rule)
      BY DEF RecursionCutFree
    <3>2. Above(E, 0)
      BY <3>1 DEF EnteredInv
    <3>3. k \in 1..Len(stack) /\ k > 0 /\ stack[k].kind = "NonTerminal"
          /\ Len(stack) \in Nat
      BY Facts DEF RuleFrames, StackOK
    <3>4. stack[k].e \in E
      BY <3>2, <3>3 DEF Above
    <3>5. stack[k].e.op = "NonTerminal"
      BY <3>3, Facts DEF StackOK, CallOK, FrameOK
    <3> QED
      BY <2>5, <3>1, <3>4, <3>5
  <2>7. PICK E \in SUBSET Exprs :
          /\ Closed(E) /\ WithSkipper(E) /\ gram.body[stack[k].e.rule] \in E
          /\ \A e \in E : ~ (e.op = "NonTerminal" /\ e.rule = stack[k].e.rule)
    BY <2>6 DEF Unnested
  <2>8. Above(E, k)
    BY <2>7 DEF EnteredInv
  <2> QED
    BY <2>1, <2>4, <2>7, <2>8 DEF Above
<1>7. ASSUME NEW j \in 1..Len(m), NEW k \in 1..Len(m), j # k,
             m[j].rule = m[k].rule, m[j].pos = m[k].pos
      PROVE  FALSE
  <2>1. ASSUME NEW i, NEW h, Old(i), New(h), m[i].rule = m[h].rule,
               m[i].pos = m[h].pos
        PROVE  FALSE
    BY <1>6, <2>1
  <2>2. CASE Old(j) /\ Old(k)
    BY <1>7, <2>2 DEF NoRuleReentered
  <2>3. CASE New(j) /\ New(k)
    BY <1>7, <2>3
  <2> HIDE DEF Old, New
  <2> QED
    BY <1>5, <1>7, <2>1, <2>2, <2>3
<1> QED
  BY <1>3, <1>4, <1>7 DEF CleanSeeded, NoRuleReentered

\* Whatever cuts there are beside recursion, no rule is in progress twice.
RecursionInv == RecursionCutFree => CleanSeeded /\ NoRuleReentered

\* RecursionInv is inductive, given RunInv and EnteredInv.
LEMMA RecursionNext ==
  RunInv /\ EnteredInv /\ RecursionInv /\ [Next]_vars => RecursionInv'
<1> SUFFICES ASSUME RunInv, EnteredInv, RecursionInv, [Next]_vars,
                    RecursionCutFree'
             PROVE  CleanSeeded' /\ NoRuleReentered'
  BY DEF RecursionInv
<1>1. gram' = gram
  BY SetupKept DEF setup
<1>2. \A e : Clean(e)' <=> Clean(e)
  BY <1>1 DEF Clean, SkipperIn, WithSkipper, CutFree, Closed
<1>3. RecursionCutFree
  BY <1>1, <1>2 DEF RecursionCutFree, Unnested, WithSkipper, Closed
<1>4. CleanSeeded /\ NoRuleReentered
  BY <1>3 DEF RecursionInv
<1>5. CASE Step
  BY <1>3, <1>4, <1>5, CleanStep DEF RunInv
<1>6. CASE UNCHANGED vars
  BY <1>2, <1>4, <1>6 DEF vars, CleanSeeded, NoRuleReentered, HasMemo
<1> QED
  BY <1>5, <1>6, CodeStep

\* A grammar without cuts has none in its recursion.
LEMMA CutFreeRecursion == GrammarCutFree => RecursionCutFree
BY DEF GrammarCutFree, GrammarIn, RecursionCutFree, SkipperIn, CutFree, Clean

\* A left-recursive self-call never starts the rule's body again, in any
\* grammar whose rules run no cut or cannot enter themselves:
\* NonTerminal::parseImpl finds the failure seed it planted for as long as the
\* rule is active there, since clear_siblings_at spares the rules on the
\* left-recursion stack and remove_cut evicts only as a committed scope is left,
\* while no scope inside the rule is committed.  (A cut in the recursion can
\* evict the seed.)
THEOREM NeverReentered == Spec => [](RecursionCutFree => NoRuleReentered)
<1>1. RecursionInv => (RecursionCutFree => NoRuleReentered)
  BY DEF RecursionInv
<1>2. Init => EnteredInv /\ RecursionInv
  <2> SUFFICES ASSUME Init PROVE EnteredInv /\ RecursionInv
    OBVIOUS
  <2>1. stack = <<>> /\ ctx = NewContext(Len(input)) /\ ctl.mode = "idle"
    BY DEF Init
  <2>2. ctx.m_lr_stack = <<>> /\ RuleFrames(stack) = {}
    BY <2>1 DEF NewContext, RuleFrames
  <2> QED
    BY <2>1, <2>2
    DEF EnteredInv, Above, RecursionInv, CleanSeeded, NoRuleReentered
<1>3. RunInv => Inv /\ CalmInv
  BY DEF RunInv
<1> QED
  BY <1>1, <1>2, <1>3, RunInvHolds, EnteredNext, RecursionNext, PTL DEF Spec

-----------------------------------------------------------------------------
(* Answers in the memo stay.                                               *)

\* What leaving a cut scope does to the memo.
LEMMA ScopeForgets ==
  ASSUME Inv, LeavesScope, NEW k \in DOMAIN ctx.m_mem,
         ctx'.m_mem[k] # ctx.m_mem[k]
  PROVE  /\ ctx'.m_mem[k] = Absent
         /\ IsCut(ctx) /\ k[1] < ctx.m_cut[Len(ctx.m_cut)].pos
<1>1. Len(input) \in Nat /\ ctx \in Contexts(Len(input))
  BY Facts DEF ContextOK
<1>2. PICK c : /\ Writes(ctx, c, {"m_position", "m_node_arena"})
               /\ ctx' = remove_cut(c)
  BY DEF LeavesScope
<1>3. c.m_cut = ctx.m_cut /\ c.m_mem = ctx.m_mem
  BY <1>1, <1>2, Unwritten
<1>4. DOMAIN c = DOMAIN ctx /\ "m_mem" \in DOMAIN ctx
  BY <1>1, <1>2 DEF Writes, Contexts
<1>5. IsCut(c) = IsCut(ctx)
  BY <1>3 DEF IsCut
<1>6. CASE IsCut(c)
  <2>1. ctx'.m_mem = [j \in DOMAIN c.m_mem |->
                        IF j[1] < c.m_cut[Len(c.m_cut)].pos THEN Absent
                        ELSE c.m_mem[j]]
    BY <1>2, <1>4, <1>6 DEF remove_cut
  <2> QED
    BY <1>3, <1>5, <1>6, <2>1
<1>7. CASE ~ IsCut(c)
  <2>1. ctx'.m_mem = c.m_mem
    BY <1>2, <1>4, <1>7 DEF remove_cut
  <2> QED
    BY <1>3, <2>1
<1> QED
  BY <1>6, <1>7

\* A rule whose entry a cut has evicted stores nothing.
LEMMA GrowsNothing ==
  ASSUME Inv, NonTerminalGrow, ~ HasMemo(ctx, ThisRule, Top.start)
  PROVE  ctx'.m_mem = ctx.m_mem
<1> DEFINE rs == [m_last_pos |-> mark(ctx), m_cached_result |-> ctl.res]
           b == [ctx EXCEPT !.m_lr_stack[Top.lr].last_pos = mark(ctx)]
           c == update_rule_state(b, ThisRule, Top.start, rs)
<1>1. ctx' = reset(c, mark(ctx))
  BY DEF NonTerminalGrow
<1>2. Len(input) \in Nat /\ ctx \in Contexts(Len(input))
  BY Facts DEF ContextOK
<1>3. DOMAIN b = DOMAIN ctx /\ b.m_mem = ctx.m_mem
  BY <1>2 DEF Contexts
<1> HIDE DEF b
<1>4. "m_position" \in {"m_position"} /\ "m_mem" \notin {"m_position"}
  OBVIOUS
<1>5. Writes(c, ctx', {"m_position"})
  BY <1>1, <1>4, Footprints
<1> QED
  BY <1>3, <1>4, <1>5, StoresNothing

\* A rule writes its own entry, where it is in progress; as a growing head it
\* forgets others at its position.
LEMMA RuleKeeps ==
  ASSUME Inv, MirrorInv, Step, Memoises, NEW k \in DOMAIN ctx.m_mem,
         Settled(ctx, k), ctx'.m_mem[k] # ctx.m_mem[k]
  PROVE  /\ ctx'.m_mem[k] = Absent
         /\ \E f \in 1..Len(ctx.m_lr_stack) :
              ctx.m_lr_stack[f].pos = k[1] /\ ctx.m_lr_stack[f].is_head
<1>1. ~ NonTerminalEnter
  <2> SUFFICES ASSUME NonTerminalEnter PROVE FALSE
    OBVIOUS
  <2>1. \E x : Assigns(<<mark(ctx), ctl.e.rule>>, x)
    BY RuleEnters
  <2>2. k = <<mark(ctx), ctl.e.rule>>
    BY <2>1 DEF Assigns
  <2> QED
    BY <2>2 DEF NonTerminalEnter, Settled
<1>2. /\ stack # <<>> /\ Top.kind = "NonTerminal"
      /\ ctl.mode \in {"return", "finish"}
  BY <1>1
  DEF Memoises, NonTerminalGrow, NonTerminalFixedPoint, NonTerminalFailed,
      NonTerminalRecovered, NonTerminalMatched, ReturnedTo, Finishing, At
<1>3. /\ Top.lr = Len(ctx.m_lr_stack) /\ MyLR.pos = Top.start
      /\ lr_in_progress(ctx, ThisRule, Top.start)
  BY <1>2, MineLast
<1>4. k # MyEntry
  BY <1>3 DEF MyEntry, Settled
<1>5. CASE NonTerminalGrow
  <2>1. HasMemo(ctx, ThisRule, Top.start)
    <3> SUFFICES ASSUME ~ HasMemo(ctx, ThisRule, Top.start) PROVE FALSE
      OBVIOUS
    <3> QED
      BY <1>5, GrowsNothing
  <2>2. /\ ctx'.m_mem[k] = Absent /\ MyLR.is_head /\ k[1] = Top.start
    BY <1>4, <1>5, <2>1, RuleGrows
  <2>3. Top.lr \in 1..Len(ctx.m_lr_stack)
    BY <1>2, RuleTop
  <2> QED
    BY <1>3, <2>2, <2>3 DEF MyLR
<1>6. CASE ~ NonTerminalGrow
  <2>1. PICK x : Updates(x)
    BY <1>1, <1>6, RuleUpdates DEF Memoises
  <2>2. IF HasMemo(ctx, ThisRule, Top.start) THEN Assigns(MyEntry, x)
        ELSE ctx'.m_mem = ctx.m_mem
    BY <1>2, <2>1, UpdateStores
  <2> QED
    BY <1>4, <2>2 DEF Assigns
<1> QED
  BY <1>5, <1>6

\* "Packrat memoization for linear-time parsing": whatever the grammar, an
\* answer in the memo is never replaced by another.  It is forgotten only with
\* what lies before a cut, as the committed scope is left, or with the rules at
\* the position of a left-recursive head that grows.
THEOREM AnswersStay == Spec => AnswersKept
<1>1. Inv /\ MirrorInv /\ [Next]_vars => [KeepsAnswers]_vars
  <2> SUFFICES ASSUME Inv, MirrorInv, Step PROVE KeepsAnswers
    BY DEF Next, Terminated, vars
  <2> SUFFICES ASSUME NEW k \in DOMAIN ctx.m_mem, Settled(ctx, k),
                      ctx'.m_mem[k] # ctx.m_mem[k]
               PROVE  /\ ctx'.m_mem[k] = Absent
                      /\ \/ IsCut(ctx) /\ k[1] < ctx.m_cut[Len(ctx.m_cut)].pos
                         \/ \E f \in 1..Len(ctx.m_lr_stack) :
                              /\ ctx.m_lr_stack[f].pos = k[1]
                              /\ ctx.m_lr_stack[f].is_head
    BY DEF KeepsAnswers
  <2>1. CASE Memoises
    BY <2>1, RuleKeeps
  <2>2. CASE ~ Memoises
    BY <2>2, MemoUntouched, ScopeForgets
  <2> QED
    BY <2>1, <2>2
<1> QED
  BY <1>1, InitInv, NextInv, MirrorInit, MirrorNext, PTL DEF Spec, AnswersKept

-----------------------------------------------------------------------------
(* Each answer that enters the memo is made by the call that returns it.   *)

\* The rule call returns an answer it made itself.
Answers == NonTerminalFailed \/ NonTerminalRecovered \/ NonTerminalMatched

\* A rule that answers leaves the left-recursion stack.
LEMMA AnswerLeaves ==
  ASSUME Inv, Step, Answers
  PROVE  /\ stack # <<>> /\ Top.kind = "NonTerminal" /\ ctl.mode = "finish"
         /\ ctx'.m_lr_stack = SubSeq(ctx.m_lr_stack, 1, Top.lr - 1)
<1>1. stack # <<>> /\ Top.kind = "NonTerminal" /\ ctl.mode = "finish" /\ Pop
  BY DEF Answers, NonTerminalFailed, NonTerminalRecovered,
         NonTerminalMatched, Finishing, At
<1>2. Inv' /\ Shaped /\ UNCHANGED setup
  BY StepShape, SetupKept DEF Next
<1>3. stack \in Seq(Frames) /\ stack' \in Seq(Frames) /\ Len(stack) \in Nat \ {0}
  <2>1. Len(stack) \in Nat /\ Len(stack) \in 1..Len(stack)
    BY <1>1, Innermost
  <2> QED
    BY <1>2, <2>1, StackTyped
<1>4. Len(stack') = Len(stack) - 1
  BY <1>1, FrontFacts DEF Pop, Front, Inv
<1>5. ~ Stays
  BY <1>3, <1>4 DEF Stays, SameCalls
<1>6. ASSUME NEW f, Opens(f) PROVE FALSE
  <2>1. stack' = Append(stack, f)
    BY <1>6 DEF Opens
  <2>2. Len(stack') = Len(stack) + 1
    BY <1>3, <2>1
  <2> QED
    BY <1>3, <1>4, <2>2
<1> QED
  BY <1>1, <1>2, <1>5, <1>6 DEF Shaped, Closes

\* A call of NonTerminal::parse ends only with an answer.
LEMMA OnlyAnswersClose ==
  ASSUME Inv, Step, Closes, Top.kind = "NonTerminal", ctl.mode # "throw"
  PROVE  Answers
<1> SUFFICES ASSUME ~ Answers PROVE FALSE
  OBVIOUS
<1>0. Inv' /\ UNCHANGED setup
  BY StepShape, SetupKept DEF Next
<1>1. stack # <<>> /\ stack' = Front(stack)
  BY DEF Closes
<1>2. stack \in Seq(Frames) /\ Len(stack) \in Nat /\ stack' # stack
  <2>1. stack \in Seq(Frames) /\ Len(stack) \in Nat \ {0}
    <3>1. Len(stack) \in Nat /\ Len(stack) \in 1..Len(stack)
      BY <1>1, Innermost
    <3> QED
      BY <1>0, <3>1, StackTyped
  <2>2. Len(stack') = Len(stack) - 1
    BY <1>1, FrontFacts DEF Inv
  <2> QED
    BY <2>1, <2>2
<1>3. \A f : ~ (stack' = Append(stack, f))
      /\ ~ (stack' = [stack EXCEPT ![Len(stack)] = f])
  <2>1. Len(stack) # 0
    BY <1>1, <1>2
  <2> QED
    BY <1>1, <1>2, <2>1 DEF Front
<1>4. ASSUME NonTerminalStep PROVE FALSE
  BY <1>2, <1>3, <1>4
  DEF NonTerminalStep, NonTerminalReenter, NonTerminalMemoHit,
      NonTerminalEnter, NonTerminalGrow, NonTerminalFixedPoint,
      NonTerminalBodyFailed, Answers, Push, SetTop
<1>5. ASSUME LeafStep \/ SequenceStep \/ AlternationStep PROVE FALSE
  BY <1>2, <1>3, <1>5
  DEF LeafStep, SequenceStep, AlternationStep, TerminalMatch, TokenMatch,
      SingleFail, TerminalSeqMatch, TerminalSeqFail, MatcherMatch,
      MatcherFail, Empty, Cut, Leaf, SequenceEnter, SequenceChild,
      SequenceChildMatched, SequenceMatched, SequenceFailed,
      AlternationEnter, AlternationMatched, AlternationNext,
      AlternationExhausted, AlternationThrow, At, ReturnedTo, Push
<1>6. ASSUME RepetitionStep \/ WrapperStep PROVE FALSE
  BY <1>2, <1>3, <1>6
  DEF RepetitionStep, WrapperStep, RepetitionEnter, RepetitionChild,
      RepetitionChildMatched, RepetitionMatched, RepetitionTooFew,
      RepetitionEnds, RepetitionThrow, PredicateEnter, PredicateReturn,
      LexemeEnter, LexemeReturn, At, ReturnedTo, Push
<1>7. ASSUME SkipperStep \/ Unwind PROVE FALSE
  BY <1>2, <1>3, <1>7
  DEF SkipperStep, Unwind, SkipperEnter, SkipperNone, SkipperReturn, At,
      Push
<1>8. ASSUME GrammarStep PROVE FALSE
  BY <1>1, <1>8, GrammarIdle
<1> QED
  BY <1>4, <1>5, <1>6, <1>7, <1>8 DEF Step

\* No other step takes a rule off the left-recursion stack.
LEMMA StaysInProgress ==
  ASSUME Inv, Step, ~ Answers, ctl.mode # "throw",
         NEW k \in 1..Len(ctx.m_lr_stack)
  PROVE  /\ k \in 1..Len(ctx'.m_lr_stack)
         /\ ctx'.m_lr_stack[k].rule = ctx.m_lr_stack[k].rule
         /\ ctx'.m_lr_stack[k].pos = ctx.m_lr_stack[k].pos
<1>1. Inv' /\ Shaped /\ UNCHANGED setup
  BY StepShape, SetupKept DEF Next
<1>2. /\ ctx.m_lr_stack \in Seq(LRFrames(Len(input)))
      /\ Len(ctx.m_lr_stack) \in Nat
  BY Facts
<1>3. CASE Stays
  BY <1>2, <1>3 DEF Stays, SameRules
<1>4. CASE \E f : Opens(f)
  <2>1. \/ ctx'.m_lr_stack = ctx.m_lr_stack
        \/ \E x : ctx'.m_lr_stack = Append(ctx.m_lr_stack, x)
    BY <1>4 DEF Opens
  <2> QED
    BY <1>2, <2>1
<1>5. CASE Closes
  <2>1. Top.kind # "NonTerminal"
    BY <1>5, OnlyAnswersClose
  <2>2. ctx'.m_lr_stack = ctx.m_lr_stack
    BY <1>5, <2>1 DEF Closes
  <2> QED
    BY <2>2
<1> QED
  BY <1>1, <1>3, <1>4, <1>5 DEF Shaped

\* An answer settles in the memo only as its rule returns it: a failure, a
\* recovery without a node, or a match with one.
LEMMA SettledStep ==
  ASSUME Inv, MirrorInv, Step, ~ IsCut(ctx), ctl.mode # "throw", Seeded,
         NEW k \in DOMAIN ctx'.m_mem, Settled(ctx', k)
  PROVE  \/ Settled(ctx, k) /\ ctx'.m_mem[k] = ctx.m_mem[k]
         \/ /\ Answers /\ k = MyEntry /\ ~ Settled(ctx, k)
            /\ NonTerminalFailed => ctx'.m_mem[k].m_cached_result = Failed
            /\ NonTerminalRecovered =>
                 /\ ctx'.m_mem[k].m_cached_result = Matched(nullptr)
                 /\ ctx'.m_mem[k].m_last_pos = mark(ctx')
            /\ NonTerminalMatched =>
                 /\ \E t \in Nat \ {nullptr} :
                      ctx'.m_mem[k].m_cached_result = Matched(t)
                 /\ ctx'.m_mem[k].m_last_pos = Top.rs.m_last_pos
<1> DEFINE l == ctx.m_lr_stack
           m == ctx'.m_lr_stack
<1>1. /\ DOMAIN ctx'.m_mem = DOMAIN ctx.m_mem
      /\ \/ ctx'.m_mem[k] = ctx.m_mem[k]
         \/ ctx'.m_mem[k] = Absent
         \/ /\ ctx'.m_mem[k] # Absent
            /\ IF NonTerminalEnter THEN k = <<mark(ctx), ctl.e.rule>>
               ELSE Memoises /\ k = MyEntry
  BY MemoStep
<1>2. k = <<k[1], k[2]>>
  BY <1>1, Keys
<1>3. ctx'.m_mem[k] # Absent
  BY <1>2 DEF Settled, HasMemo
<1>4. ASSUME Memoises, ~ NonTerminalEnter
      PROVE  /\ lr_in_progress(ctx, ThisRule, Top.start)
             /\ HasMemo(ctx, ThisRule, Top.start)
  <2>1. /\ stack # <<>> /\ Top.kind = "NonTerminal"
        /\ ctl.mode \in {"return", "finish"}
    BY <1>4
    DEF Memoises, NonTerminalGrow, NonTerminalFixedPoint, NonTerminalFailed,
        NonTerminalRecovered, NonTerminalMatched, ReturnedTo, Finishing, At
  <2> QED
    BY <2>1, MineLast
<1>5. MyEntry[1] = Top.start /\ MyEntry[2] = ThisRule
  BY DEF MyEntry
<1>6. CASE Settled(ctx, k)
  <2>1. ASSUME NonTerminalEnter, k = <<mark(ctx), ctl.e.rule>> PROVE FALSE
    BY <1>6, <2>1 DEF NonTerminalEnter, Settled
  <2>2. ASSUME Memoises, ~ NonTerminalEnter, k = MyEntry PROVE FALSE
    BY <1>4, <1>5, <1>6, <2>2 DEF Settled
  <2> QED
    BY <1>1, <1>3, <1>6, <2>1, <2>2
<1>7. CASE ~ Settled(ctx, k)
  <2>1. HasMemo(ctx, k[2], k[1])
    <3>1. SUFFICES ASSUME ctx.m_mem[k] = Absent PROVE FALSE
      BY <1>2 DEF HasMemo
    <3>2. CASE NonTerminalEnter /\ k = <<mark(ctx), ctl.e.rule>>
      <4>1. Inv' /\ Shaped
        BY StepShape
      <4>2. ctx'.m_lr_stack[Len(l) + 1].rule = ctl.e.rule
            /\ ctx'.m_lr_stack[Len(l) + 1].pos = mark(ctx)
            /\ Len(l) + 1 \in 1..Len(m)
        <5>1. l \in Seq(LRFrames(Len(input))) /\ Len(l) \in Nat
          BY Facts
        <5>2. \E k1 \in 1..Len(m) : k1 = Len(l) + 1
          <6>1. UNCHANGED setup
            BY SetupKept DEF Next
          <6>2. stack' = Append(stack, [NewFrame("NonTerminal", ctl.e)
                           EXCEPT !.lr = Len(ctx.m_lr_stack) + 1])
            BY <3>2 DEF NonTerminalEnter, Push
          <6>3. stack \in Seq(Frames) /\ stack' \in Seq(Frames)
                /\ Len(stack) \in Nat
            BY <4>1, <6>1, StackTyped
          <6>4. Len(stack') = Len(stack) + 1
            BY <6>2, <6>3
          <6>5. ~ Stays /\ ~ Closes
            BY <6>3, <6>4 DEF Stays, SameCalls, Closes, Front
          <6>6. PICK f : Opens(f)
            BY <4>1, <6>5 DEF Shaped
          <6>7. stack'[Len(stack) + 1] = f
            BY <6>3, <6>6 DEF Opens
          <6>8. f.kind = "NonTerminal"
            BY <6>2, <6>3, <6>7 DEF NewFrame
          <6>9. \E x : m = Append(l, x)
            BY <6>6, <6>8 DEF Opens
          <6> QED
            BY <5>1, <6>9
        <5>3. Len(l) + 1 \in 1..Len(m) /\ Len(l) + 1 \notin 1..Len(l)
          BY <5>1, <5>2
        <5> QED
          BY <5>3, LrStep
      <4>3. lr_in_progress(ctx', ctl.e.rule, mark(ctx))
        BY <4>2 DEF lr_in_progress
      <4> QED
        BY <3>2, <4>3 DEF Settled
    <3>3. CASE Memoises /\ ~ NonTerminalEnter /\ k = MyEntry
      BY <1>4, <1>5, <3>1, <3>3 DEF HasMemo, MyEntry
    <3> QED
      BY <1>1, <1>3, <3>1, <3>2, <3>3
  <2>2. PICK j \in 1..Len(l) : l[j].pos = k[1] /\ l[j].rule = k[2]
    BY <1>7, <2>1 DEF Settled, lr_in_progress
  <2>3. Answers
    <3>1. ASSUME ~ Answers PROVE FALSE
      <4>1. j \in 1..Len(m) /\ m[j].pos = k[1] /\ m[j].rule = k[2]
        BY <2>2, <3>1, StaysInProgress
      <4> QED
        BY <4>1 DEF Settled, lr_in_progress
    <3> QED
      BY <3>1
  <2>4. /\ stack # <<>> /\ Top.kind = "NonTerminal" /\ ctl.mode = "finish"
        /\ m = SubSeq(l, 1, Top.lr - 1)
    BY <2>3, AnswerLeaves
  <2>5. /\ Top.lr = Len(l) /\ MyLR.rule = ThisRule /\ MyLR.pos = Top.start
        /\ HasMemo(ctx, ThisRule, Top.start)
    BY <2>4, MineLast
  <2>6. l \in Seq(LRFrames(Len(input))) /\ Len(l) \in Nat
    BY Facts
  <2>7. j = Len(l)
    <3>1. ASSUME j # Len(l) PROVE FALSE
      <4>1. j \in 1..(Len(l) - 1)
        BY <2>6, <3>1
      <4>2. j \in 1..Len(m) /\ m[j] = l[j]
        BY <2>4, <2>5, <2>6, <4>1
      <4> QED
        BY <2>2, <4>2 DEF Settled, lr_in_progress
    <3> QED
      BY <3>1
  <2>8. k = MyEntry
    BY <1>2, <2>2, <2>5, <2>7 DEF MyLR, MyEntry
  <2>9. PICK x \in RuleStates(Len(input)) :
          /\ Assigns(MyEntry, x)
          /\ NonTerminalFailed => x.m_cached_result = Failed
          /\ NonTerminalRecovered =>
               x.m_cached_result = Matched(nullptr) /\ x.m_last_pos = mark(ctx')
          /\ NonTerminalMatched =>
               /\ \E t \in Nat \ {nullptr} : x.m_cached_result = Matched(t)
               /\ x.m_last_pos = Top.rs.m_last_pos
    BY <2>3, <2>5, RuleStores DEF Answers
  <2>10. ctx'.m_mem[k] = x
    BY <2>8, <2>9 DEF Assigns
  <2> QED
    BY <1>7, <2>3, <2>8, <2>9, <2>10
<1> QED
  BY <1>6, <1>7

-----------------------------------------------------------------------------
(* Each recovery is reported once.                                         *)

\* Only a recovery adds a diagnostic, and only the caller takes them away.
LEMMA DiagnosticsStep ==
  ASSUME Inv, Step
  PROVE  /\ ~ NonTerminalRecovered =>
              \/ ctx'.m_diagnostics = ctx.m_diagnostics
              \/ TakeDiagnostics /\ ctx'.m_diagnostics = <<>>
         /\ NonTerminalRecovered =>
              ctx'.m_diagnostics =
                Append(ctx.m_diagnostics, [pos |-> Top.start, rule |-> ThisRule])
<1> DEFINE n == Len(input)
<1>1. n \in Nat /\ ctx \in Contexts(n)
  BY Facts DEF ContextOK
<1>2. ASSUME NEW c, DOMAIN c = DOMAIN ctx, NEW d, NEW F, Writes(c, d, F),
             "m_diagnostics" \notin F
      PROVE  DOMAIN d = DOMAIN ctx /\ d.m_diagnostics = c.m_diagnostics
  BY <1>1, <1>2, MemoKept
<1>3. ASSUME NEW F, Writes(ctx, ctx', F), "m_diagnostics" \notin F
      PROVE  ctx'.m_diagnostics = ctx.m_diagnostics
  BY <1>2, <1>3
<1>4. CASE NonTerminalFailed \/ NonTerminalRecovered
  <2> DEFINE c == LeaveRule(ctx)
             e == record_failure(c, Top.start, RuleItem(ThisRule))
  <2>1. DOMAIN c = DOMAIN ctx /\ c.m_diagnostics = ctx.m_diagnostics
    <3>1. Writes(ctx, c, {"m_lr_stack", "m_growing_head"})
      BY LeaveWrites
    <3> HIDE DEF c
    <3> QED
      BY <1>2, <3>1
  <2> HIDE DEF c
  <2>2. DOMAIN e = DOMAIN ctx /\ e.m_diagnostics = ctx.m_diagnostics
    <3>1. Writes(c, e, ErrorFields)
      BY ScopeMethods
    <3>2. "m_diagnostics" \notin ErrorFields
      BY DEF ErrorFields
    <3> HIDE DEF e
    <3> QED
      BY <1>2, <2>1, <3>1, <3>2
  <2> HIDE DEF e
  <2>3. \A a, x : DOMAIN a = DOMAIN ctx =>
          update_rule_state(a, ThisRule, Top.start, x).m_diagnostics
            = a.m_diagnostics
    <3> SUFFICES ASSUME NEW a, NEW x, DOMAIN a = DOMAIN ctx
                 PROVE  update_rule_state(a, ThisRule, Top.start, x).m_diagnostics
                          = a.m_diagnostics
      OBVIOUS
    <3> DEFINE d == update_rule_state(a, ThisRule, Top.start, x)
    <3>1. Writes(a, d, {"m_mem"})
      BY Footprints
    <3> HIDE DEF d
    <3>2. d.m_diagnostics = a.m_diagnostics
      BY <1>2, <3>1
    <3> QED
      BY <3>2 DEF d
  <2>4. CASE NonTerminalFailed
    <3>1. \E x : ctx' = update_rule_state(e, ThisRule, Top.start, x)
      BY <2>4 DEF NonTerminalFailed, e, c
    <3>2. ~ NonTerminalRecovered
      BY <2>4 DEF NonTerminalFailed, NonTerminalRecovered
    <3> QED
      BY <2>2, <2>3, <3>1, <3>2
  <2>5. CASE NonTerminalRecovered
    <3> DEFINE y == [pos |-> Top.start, rule |-> ThisRule]
    <3>1. PICK p, x :
            ctx' = update_rule_state(record_diagnostic(reset(e, p), y),
                                     ThisRule, Top.start, x)
      BY <2>5 DEF NonTerminalRecovered, e, c
    <3> DEFINE b == reset(e, p)
               a == record_diagnostic(b, y)
    <3> HIDE DEF y
    <3>2. DOMAIN b = DOMAIN ctx /\ b.m_diagnostics = ctx.m_diagnostics
      <4>1. Writes(e, b, {"m_position"})
        BY Footprints
      <4> HIDE DEF b
      <4> QED
        BY <1>2, <2>2, <4>1
    <3> HIDE DEF b
    <3>3. /\ DOMAIN a = DOMAIN ctx
          /\ a.m_diagnostics = Append(ctx.m_diagnostics, y)
      <4>1. "m_diagnostics" \in DOMAIN ctx
        BY <1>1 DEF Contexts
      <4> QED
        BY <3>2, <4>1 DEF record_diagnostic
    <3>4. ctx' = update_rule_state(a, ThisRule, Top.start, x)
      BY <3>1 DEF b
    <3> HIDE DEF a
    <3> QED
      BY <2>3, <2>5, <3>3, <3>4 DEF y
  <2> QED
    BY <1>4, <2>4, <2>5
<1>5. CASE NonTerminalStep /\ ~ (NonTerminalFailed \/ NonTerminalRecovered)
  <2>1. "m_diagnostics" \notin RuleFields
    BY DEF RuleFields
  <2> QED
    BY <1>3, <1>5, <2>1, RuleWrites
<1>6. ASSUME ~ NonTerminalStep PROVE ~ NonTerminalRecovered
  BY <1>6 DEF NonTerminalStep
<1>7. CASE ~ NonTerminalStep /\ GrammarStep
  <2>1. CASE TakeDiagnostics
    <3>1. "m_diagnostics" \in DOMAIN ctx
      BY <1>1 DEF Contexts
    <3> QED
      BY <1>6, <1>7, <2>1, <3>1 DEF TakeDiagnostics, take_diagnostics
  <2>2. CASE ~ TakeDiagnostics
    <3>1. "m_diagnostics" \notin ErrorFields /\ "m_diagnostics" \notin {"m_skipper"}
      BY DEF ErrorFields
    <3> QED
      BY <1>3, <1>6, <1>7, <2>2, <3>1, GrammarWrites
  <2> QED
    BY <2>1, <2>2
<1>8. CASE ~ NonTerminalStep /\ Skips
  <2>1. "m_diagnostics" \notin {"m_skip_enabled"}
    OBVIOUS
  <2> QED
    BY <1>3, <1>6, <1>8, <2>1, SkipWrites
<1>9. CASE ~ NonTerminalStep /\ (SingleFail \/ TerminalSeqFail)
  <2>1. "m_diagnostics" \notin ErrorFields
    BY DEF ErrorFields
  <2> QED
    BY <1>3, <1>6, <1>9, <2>1, TerminalWrites
<1>10. CASE /\ ~ NonTerminalStep /\ ~ GrammarStep /\ ~ Skips
            /\ ~ (SingleFail \/ TerminalSeqFail)
  <2>1. "m_diagnostics" \notin EvalFields
    BY DEF EvalFields
  <2>2. Writes(ctx, ctx', EvalFields)
    BY <1>10, EvalWrites DEF Step
  <2> QED
    BY <1>3, <1>6, <1>10, <2>1, <2>2
<1> QED
  BY <1>4, <1>5, <1>7, <1>8, <1>9, <1>10

\* A recovery settles the rule's entry, as no other call of the rule is active
\* there.
LEMMA RecoverySettles ==
  ASSUME Inv, MirrorInv, Step, Seeded, NoRuleReentered, NonTerminalRecovered
  PROVE  /\ MyEntry \in DOMAIN ctx'.m_mem /\ Settled(ctx', MyEntry)
         /\ ctx'.m_mem[MyEntry].m_cached_result = Matched(nullptr)
         /\ ~ Settled(ctx, MyEntry)
<1> DEFINE l == ctx.m_lr_stack
<1>1. /\ stack # <<>> /\ Top.kind = "NonTerminal" /\ ctl.mode = "finish"
      /\ ctx'.m_lr_stack = SubSeq(l, 1, Top.lr - 1)
  BY AnswerLeaves DEF Answers
<1>2. /\ Top.lr = Len(l) /\ MyLR.rule = ThisRule /\ MyLR.pos = Top.start
      /\ HasMemo(ctx, ThisRule, Top.start)
      /\ lr_in_progress(ctx, ThisRule, Top.start)
  BY <1>1, MineLast
<1>3. PICK x \in RuleStates(Len(input)) :
        Assigns(MyEntry, x) /\ x.m_cached_result = Matched(nullptr)
  BY <1>2, RuleStores
<1>4. /\ MyEntry \in DOMAIN ctx'.m_mem /\ ctx'.m_mem[MyEntry] = x
      /\ x # Absent
  BY <1>3, Facts DEF Assigns
<1>5. MyEntry[1] = Top.start /\ MyEntry[2] = ThisRule
  BY DEF MyEntry
<1>6. HasMemo(ctx', MyEntry[2], MyEntry[1])
  BY <1>4, <1>5 DEF HasMemo, MyEntry
<1>7. ~ lr_in_progress(ctx', ThisRule, Top.start)
  <2>1. l \in Seq(LRFrames(Len(input))) /\ Len(l) \in Nat /\ Top.lr \in 1..Len(l)
    BY <1>1, Facts, RuleTop
  <2>2. SUFFICES ASSUME NEW j \in 1..Len(ctx'.m_lr_stack),
                        ctx'.m_lr_stack[j].pos = Top.start,
                        ctx'.m_lr_stack[j].rule = ThisRule
                 PROVE  FALSE
    BY DEF lr_in_progress
  <2>3. j \in 1..(Len(l) - 1) /\ ctx'.m_lr_stack[j] = l[j]
    BY <1>1, <1>2, <2>1
  <2>4. j \in 1..Len(l) /\ Len(l) \in 1..Len(l) /\ j # Len(l)
    BY <2>1, <2>3
  <2> QED
    BY <1>2, <2>2, <2>3, <2>4 DEF NoRuleReentered, MyLR
<1>8. ~ Settled(ctx, MyEntry)
  BY <1>2, <1>5 DEF Settled
<1> QED
  BY <1>3, <1>4, <1>5, <1>6, <1>7, <1>8 DEF Settled

\* A step reports just the recoveries it makes.
LEMMA ReportStep ==
  ASSUME Inv, MirrorInv, Step, ~ IsCut(ctx), ctl.mode # "throw", Seeded,
         NoRuleReentered
  PROVE  ReportsItsRecoveries
<1> DEFINE made == RecoveredAnswers(ctx') \ RecoveredAnswers(ctx)
<1>1. \A k : k \in RecoveredAnswers(ctx') <=>
        /\ k \in DOMAIN ctx'.m_mem /\ Settled(ctx', k)
        /\ ctx'.m_mem[k].m_cached_result = Matched(nullptr)
  BY DEF RecoveredAnswers, Settled
<1>2. \A k : k \in RecoveredAnswers(ctx) <=>
        /\ k \in DOMAIN ctx.m_mem /\ Settled(ctx, k)
        /\ ctx.m_mem[k].m_cached_result = Matched(nullptr)
  BY DEF RecoveredAnswers, Settled
<1>3. DOMAIN ctx'.m_mem = DOMAIN ctx.m_mem
  BY MemoStep
<1>4. Failed # Matched(nullptr) /\ \A t : t # nullptr => Matched(t) # Matched(nullptr)
  <2>1. ~ Failed.success /\ \A t : Matched(t).success /\ Matched(t).tree = t
    BY DEF Failed, Matched
  <2> QED
    BY <2>1
<1>5. \A k \in made : NonTerminalRecovered /\ k = MyEntry
  <2> SUFFICES ASSUME NEW k \in made PROVE NonTerminalRecovered /\ k = MyEntry
    OBVIOUS
  <2>1. /\ k \in DOMAIN ctx'.m_mem /\ Settled(ctx', k)
        /\ ctx'.m_mem[k].m_cached_result = Matched(nullptr)
    BY <1>1
  <2>2. ~ (Settled(ctx, k) /\ ctx'.m_mem[k] = ctx.m_mem[k])
    BY <1>2, <1>3, <2>1
  <2>3. /\ Answers /\ k = MyEntry
        /\ NonTerminalFailed => ctx'.m_mem[k].m_cached_result = Failed
        /\ NonTerminalMatched =>
             \E t \in Nat \ {nullptr} :
               ctx'.m_mem[k].m_cached_result = Matched(t)
    BY <2>1, <2>2, SettledStep
  <2> QED
    BY <1>4, <2>1, <2>3 DEF Answers
<1>6. CASE NonTerminalRecovered
  <2>1. MyEntry \in made
    BY <1>1, <1>2, <1>6, RecoverySettles
  <2>2. made = {MyEntry}
    BY <1>5, <2>1
  <2>3. MyEntry[1] = Top.start /\ MyEntry[2] = ThisRule
    BY DEF MyEntry
  <2>4. ctx'.m_diagnostics =
          Append(ctx.m_diagnostics, [pos |-> MyEntry[1], rule |-> MyEntry[2]])
    BY <1>6, <2>3, DiagnosticsStep
  <2> HIDE DEF made
  <2>5. made # {}
    BY <2>2
  <2> QED
    BY <2>1, <2>2, <2>4, <2>5 DEF made, ReportsItsRecoveries
<1>7. CASE ~ NonTerminalRecovered
  <2>1. made = {}
    BY <1>5, <1>7
  <2>2. \/ ctx'.m_diagnostics = ctx.m_diagnostics
        \/ TakeDiagnostics /\ ctx'.m_diagnostics = <<>>
    BY <1>7, DiagnosticsStep
  <2> HIDE DEF made
  <2> QED
    BY <2>1, <2>2 DEF made, ReportsItsRecoveries
<1> QED
  BY <1>6, <1>7

\* In a grammar without cuts each recovery is reported exactly once, and the
\* report lost by nothing but take_diagnostics, however often the parser comes
\* back to the rule there: the answer NonTerminal::parse
\* stores with the diagnostic stays in the memo, and no other answer looks like
\* one.  (A cut can evict it, and the rule recovers again.)
THEOREM RecoveriesReported == Spec => ([]GrammarCutFree => RecoveredOnce)
<1>1. RunInv /\ SeedInv /\ GrammarCutFree /\ [Next]_vars => [ReportsItsRecoveries]_vars
  <2> SUFFICES ASSUME RunInv, SeedInv, GrammarCutFree, [Next]_vars
               PROVE  [ReportsItsRecoveries]_vars
    OBVIOUS
  <2>1. CASE Step
    <3>1. ~ IsCut(ctx) /\ ctl.mode # "throw"
      BY Uncommitted DEF RunInv
    <3>2. Inv /\ MirrorInv /\ Seeded /\ NoRuleReentered
      BY DEF RunInv, SeedInv
    <3> QED
      BY <2>1, <3>1, <3>2, ReportStep
  <2> QED
    BY <2>1, CodeStep
<1> QED
  BY <1>1, RunInvHolds, SeedInit, SeedNext, PTL DEF Spec, RecoveredOnce

-----------------------------------------------------------------------------
(* A failed parse reports what it expected.                                *)

\* record_failure leaves an error behind, and nothing but take_error removes
\* one.
LEMMA ErrorStep ==
  ASSUME Inv, Step
  PROVE  /\ ~ TakeError /\ ctx.m_has_error => ctx'.m_has_error
         /\ NonTerminalFailed => ctx'.m_has_error
<1> DEFINE n == Len(input)
<1>1. n \in Nat /\ ctx \in Contexts(n) /\ ctx.m_has_error \in BOOLEAN
  BY Facts, FieldTypes DEF ContextOK
<1>2. ASSUME NEW pos, NEW item, Blames(pos, item) PROVE ctx'.m_has_error
  <2>1. PICK c : Quiet(ctx, c) /\ Quiet(record_failure(c, pos, item), ctx')
    BY <1>2 DEF Blames
  <2> DEFINE d == record_failure(c, pos, item)
  <2>2. DOMAIN c = DOMAIN ctx /\ c.m_has_error = ctx.m_has_error
    BY <1>1, <2>1, QuietKeeps
  <2>3. DOMAIN d = DOMAIN ctx
    <3>1. Writes(c, d, ErrorFields)
      BY ScopeMethods
    <3> QED
      BY <2>2, <3>1 DEF Writes
  <2>4. d.m_has_error
    <3>1. "m_has_error" \in DOMAIN c
      BY <1>1, <2>2 DEF Contexts
    <3> QED
      BY <1>1, <2>2, <3>1 DEF record_failure
  <2> HIDE DEF d
  <2>5. Quiet(d, ctx')
    BY <2>1 DEF d
  <2>6. ctx'.m_has_error = d.m_has_error
    BY <1>1, <2>3, <2>5, QuietKeeps
  <2> QED
    BY <2>4, <2>6
<1>3. CASE ~ Tracks
  <2>1. Quiet(ctx, ctx')
    BY <1>3, QuietStep
  <2>2. ctx'.m_has_error = ctx.m_has_error
    BY <1>1, <2>1, QuietKeeps
  <2> QED
    BY <1>3, <2>2 DEF Tracks
<1>4. CASE SingleFail \/ TerminalSeqFail
  BY <1>2, <1>4, TerminalBlames
<1>5. CASE NonTerminalFailed \/ NonTerminalRecovered
  BY <1>2, <1>5, RuleBlames
<1>6. CASE TakeError
  BY <1>6 DEF TakeError, NonTerminalFailed, Finishing, At
<1> QED
  BY <1>3, <1>4, <1>5, <1>6 DEF Tracks

\* Every failure that the memo holds has left an error in the tracker.
Blamed ==
  \A k \in DOMAIN ctx.m_mem :
    Settled(ctx, k) /\ ~ ctx.m_mem[k].m_cached_result.success => ctx.m_has_error

\* A failure settles in the memo together with its error.
LEMMA BlamedStep ==
  ASSUME Inv, MirrorInv, Step, ~ IsCut(ctx), ctl.mode # "throw", Seeded,
         Blamed, ~ TakeError
  PROVE  Blamed'
<1> SUFFICES ASSUME NEW k \in DOMAIN ctx'.m_mem, Settled(ctx', k),
                    ~ ctx'.m_mem[k].m_cached_result.success
             PROVE  ctx'.m_has_error
  BY DEF Blamed
<1>1. CASE Settled(ctx, k) /\ ctx'.m_mem[k] = ctx.m_mem[k]
  <2>1. k \in DOMAIN ctx.m_mem
    BY MemoStep
  <2>2. ctx.m_has_error
    BY <1>1, <2>1 DEF Blamed
  <2> QED
    BY <2>2, ErrorStep
<1>2. CASE NonTerminalFailed
  BY <1>2, ErrorStep
<1>3. CASE ~ NonTerminalFailed
           /\ ~ (Settled(ctx, k) /\ ctx'.m_mem[k] = ctx.m_mem[k])
  <2>1. /\ NonTerminalRecovered \/ NonTerminalMatched
        /\ NonTerminalRecovered =>
             ctx'.m_mem[k].m_cached_result = Matched(nullptr)
        /\ NonTerminalMatched =>
             \E t \in Nat \ {nullptr} :
               ctx'.m_mem[k].m_cached_result = Matched(t)
    BY <1>3, SettledStep DEF Answers
  <2>2. \A t : Matched(t).success
    BY DEF Matched
  <2> QED
    BY <2>1, <2>2
<1> QED
  BY <1>1, <1>2, <1>3

\* Until the start rule returns, Grammar::parse is inside its call, and a
\* failure it returns with has left an error.
Trying ==
  /\ (phase = "none") <=> (ctl.mode = "idle")
  /\ phase = "try" =>
       IF stack # <<>> THEN stack[1].kind = "NonTerminal"
       ELSE \/ ctl.mode = "call" /\ ctl.e = Ref(gram.start)
            \/ ctl.mode = "return" /\ (~ ctl.res.success => ctx.m_has_error)
  /\ ctl.mode = "idle" /\ outcome = "false" => ctx.m_has_error
  /\ parses = 0 => outcome = "none"

\* The call of the start rule: a memo hit, or a call of its own.
LEMMA StartCalled ==
  ASSUME Inv, MirrorInv, Step, Seeded, Blamed, ~ GrammarStep, stack = <<>>,
         ctl.mode = "call", ctl.e = Ref(gram.start)
  PROVE  IF stack' # <<>> THEN stack'[1].kind = "NonTerminal"
         ELSE ctl'.mode = "return" /\ (~ ctl'.res.success => ctx'.m_has_error)
<1>1. ctl.e.op = "NonTerminal"
  BY DEF Ref, Expr
<1>2. NonTerminalStep
  <2>1. ~ LeafStep
    BY <1>1
    DEF LeafStep, TerminalMatch, TokenMatch, SingleFail, TerminalSeqMatch,
        TerminalSeqFail, MatcherMatch, MatcherFail, Empty, Cut, Calling
  <2>2. ~ SequenceStep /\ ~ AlternationStep
    BY <1>1
    DEF SequenceStep, AlternationStep, SequenceEnter, SequenceChild,
        SequenceChildMatched, SequenceMatched, SequenceFailed,
        AlternationEnter, AlternationMatched, AlternationNext,
        AlternationExhausted, AlternationThrow, Calling, At, ReturnedTo
  <2>3. ~ RepetitionStep /\ ~ WrapperStep
    BY <1>1
    DEF RepetitionStep, WrapperStep, RepetitionEnter, RepetitionChild,
        RepetitionChildMatched, RepetitionMatched, RepetitionTooFew,
        RepetitionEnds, RepetitionThrow, PredicateEnter, PredicateReturn,
        LexemeEnter, LexemeReturn, Calling, At, ReturnedTo
  <2>4. ~ SkipperStep /\ ~ Unwind
    BY DEF SkipperStep, Unwind, SkipperEnter, SkipperNone, SkipperReturn, At
  <2> QED
    BY <2>1, <2>2, <2>3, <2>4 DEF Step
<1>3. Len(ctx.m_lr_stack) \in Nat /\ ~ \E j \in 1..Len(ctx.m_lr_stack) : TRUE
  <2>1. \A i \in 1..Len(ctx.m_lr_stack) : \E k \in RuleFrames(<<>>) : TRUE
    BY DEF MirrorInv, Mirrors
  <2>2. RuleFrames(<<>>) = {}
    BY DEF RuleFrames
  <2> QED
    BY <2>1, <2>2, Facts
<1>4. ~ NonTerminalReenter
  BY <1>3 DEF NonTerminalReenter, lr_in_progress
<1>5. CASE NonTerminalMemoHit
  <2> DEFINE r == ctl.e.rule
             p == mark(ctx)
             k == <<p, r>>
  <2>1. /\ HasMemo(ctx, r, p) /\ ~ lr_in_progress(ctx, r, p)
        /\ stack' = stack /\ ctx' = reset(ctx, memo_get(ctx, r, p).m_last_pos)
        /\ Return(memo_get(ctx, r, p).m_cached_result, p)
    BY <1>5 DEF NonTerminalMemoHit
  <2>2. k \in DOMAIN ctx.m_mem /\ k[1] = p /\ k[2] = r
    <3>1. p \in 0..Len(input) /\ r \in Rules
      BY <1>1, Facts DEF ExprOK
    <3> QED
      BY <3>1, Keys
  <2>3. memo_get(ctx, r, p) = ctx.m_mem[k]
    BY <2>1 DEF memo_get
  <2>4. Settled(ctx, k)
    BY <2>1, <2>2 DEF Settled
  <2>5. ctl'.mode = "return" /\ ctl'.res = ctx.m_mem[k].m_cached_result
    <3>1. ctl \in Control
      BY Facts
    <3> QED
      BY <2>1, <2>3, <3>1 DEF Return, Control
  <2>6. ctx.m_has_error => ctx'.m_has_error
    BY ErrorStep DEF GrammarStep
  <2> HIDE DEF k
  <2> QED
    BY <2>1, <2>2, <2>4, <2>5, <2>6 DEF Blamed
<1>6. CASE NonTerminalEnter
  <2> DEFINE f == [NewFrame("NonTerminal", ctl.e)
                     EXCEPT !.lr = Len(ctx.m_lr_stack) + 1]
  <2>1. f.kind = "NonTerminal"
    BY DEF NewFrame
  <2>2. stack' = Append(stack, f)
    BY <1>6 DEF NonTerminalEnter, Push
  <2> HIDE DEF f
  <2>3. stack' = <<f>>
    BY <2>2
  <2> QED
    BY <2>1, <2>3
<1> QED
  BY <1>2, <1>4, <1>5, <1>6
  DEF NonTerminalStep, NonTerminalGrow, NonTerminalFixedPoint,
      NonTerminalBodyFailed, NonTerminalFailed, NonTerminalRecovered,
      NonTerminalMatched, ReturnedTo, Finishing, At

\* The calls below the start rule come and go; it returns last.
LEMMA StartReturns ==
  ASSUME Inv, Step, ~ GrammarStep, stack # <<>>, stack[1].kind = "NonTerminal",
         ctl.mode # "throw"
  PROVE  IF stack' # <<>> THEN stack'[1].kind = "NonTerminal"
         ELSE ctl'.mode = "return" /\ (~ ctl'.res.success => ctx'.m_has_error)
<1>1. Inv' /\ Shaped /\ UNCHANGED setup
  BY StepShape, SetupKept DEF Next
<1>2. /\ stack \in Seq(Frames) /\ stack' \in Seq(Frames)
      /\ Len(stack) \in Nat /\ Len(stack) \in 1..Len(stack)
  BY <1>1, StackTyped, Innermost
<1>3. CASE stack' # <<>>
  <2>1. 1 \in 1..Len(stack')
    BY <1>2, <1>3
  <2>2. \/ 1 \in 1..Len(stack) /\ stack'[1].kind = stack[1].kind
        \/ 1 = Len(stack) + 1
    BY <1>1, <2>1, CallBefore
  <2> QED
    BY <1>2, <1>3, <2>2
<1>4. CASE stack' = <<>>
  <2>1. Len(stack) \notin 1..Len(stack')
    BY <1>4
  <2>2. Closes
    BY <1>1, <1>2, <2>1, CallBefore
  <2>3. Len(stack) = 1
    <3>1. Len(stack') = Len(stack) - 1
      BY <2>2, FrontFacts DEF Closes, Inv
    <3> QED
      BY <1>2, <1>4, <3>1
  <2>4. Top.kind = "NonTerminal"
    BY <2>3, Innermost
  <2>5. Answers
    BY <2>2, <2>4, OnlyAnswersClose
  <2>6. /\ NonTerminalFailed => ctl'.mode = "return"
        /\ ~ NonTerminalFailed => ctl'.mode = "return" /\ ctl'.res.success
    <3>1. \A r, p : Return(r, p) => ctl'.mode = "return" /\ ctl'.res = r
      <4>1. ctl \in Control
        BY Facts
      <4> QED
        BY <4>1 DEF Return, Control
    <3>2. \A t : Matched(t).success
      BY DEF Matched
    <3>3. NonTerminalFailed => \E r, p : Return(r, p)
      BY DEF NonTerminalFailed
    <3>4. NonTerminalRecovered \/ NonTerminalMatched =>
            \E t, p : Return(Matched(t), p)
      BY DEF NonTerminalRecovered, NonTerminalMatched
    <3> QED
      BY <2>5, <3>1, <3>2, <3>3, <3>4 DEF Answers
  <2> QED
    BY <1>4, <2>6, ErrorStep
<1> QED
  BY <1>3, <1>4

\* The start rule's return is the parse's.
LEMMA ReturnEnds ==
  ASSUME Inv, Step, stack = <<>>, ctl.mode = "return"
  PROVE  GrammarStep
<1>1. ~ LeafStep
  BY DEF LeafStep, TerminalMatch, TokenMatch, SingleFail, TerminalSeqMatch,
         TerminalSeqFail, MatcherMatch, MatcherFail, Empty, Cut, Calling
<1>2. ~ SequenceStep /\ ~ AlternationStep
  BY DEF SequenceStep, AlternationStep, SequenceEnter, SequenceChild,
         SequenceChildMatched, SequenceMatched, SequenceFailed,
         AlternationEnter, AlternationMatched, AlternationNext,
         AlternationExhausted, AlternationThrow, Calling, At, ReturnedTo
<1>3. ~ RepetitionStep /\ ~ WrapperStep
  BY DEF RepetitionStep, WrapperStep, RepetitionEnter, RepetitionChild,
         RepetitionChildMatched, RepetitionMatched, RepetitionTooFew,
         RepetitionEnds, RepetitionThrow, PredicateEnter, PredicateReturn,
         LexemeEnter, LexemeReturn, Calling, At, ReturnedTo
<1>4. ~ SkipperStep /\ ~ Unwind
  BY DEF SkipperStep, Unwind, SkipperEnter, SkipperNone, SkipperReturn, At
<1>5. ~ NonTerminalStep
  BY DEF NonTerminalStep, NonTerminalReenter, NonTerminalMemoHit,
         NonTerminalEnter, NonTerminalGrow, NonTerminalFixedPoint,
         NonTerminalBodyFailed, NonTerminalFailed, NonTerminalRecovered,
         NonTerminalMatched, Calling, At, ReturnedTo, Finishing
<1> QED
  BY <1>1, <1>2, <1>3, <1>4, <1>5 DEF Step

\* A failed parse, or one that succeeded, starts the next with the tracker as
\* it left it: the caller takes no error in between.
KeepsItsError == StartParse => parses = 0 \/ outcome # "none"

\* In a grammar without cuts a failure in the memo has its error, from the
\* first parse until the error is taken.
ReportedInv ==
  GrammarCutFree => Trying /\ (outcome # "none" \/ parses = 0 => Blamed)

\* Grammar::parse keeps Trying.
LEMMA TryingStep ==
  ASSUME RunInv, Step, Seeded, ctl.mode # "throw", SkipperCutFree, Trying,
         outcome # "none" => Blamed
  PROVE  Trying'
<1>1. Inv /\ MirrorInv /\ ResumeInv /\ UNCHANGED setup
  BY SetupKept DEF RunInv, Next
<1>2. \A x : Goto(x) => ctl'.mode = x
  BY <1>1, NextMode
<1>3. CASE ~ GrammarStep
  <2>1. /\ phase' = phase /\ outcome' = outcome /\ parses' = parses
        /\ ctl.mode # "idle" /\ ctl'.mode # "idle"
    BY <1>1, <1>3, RunningStep DEF Running, driver
  <2>2. outcome = "running" /\ Blamed
    BY <1>1, <2>1 DEF MirrorInv
  <2>3. gram' = gram
    BY <1>1 DEF setup
  <2>4. CASE phase # "try"
    BY <2>1, <2>2, <2>4 DEF Trying
  <2>5. CASE phase = "try"
    <3>1. ~ (stack = <<>> /\ ctl.mode = "return")
      BY <1>1, <1>3, ReturnEnds
    <3>2. IF stack' # <<>> THEN stack'[1].kind = "NonTerminal"
          ELSE ctl'.mode = "return" /\ (~ ctl'.res.success => ctx'.m_has_error)
      <4>1. CASE stack = <<>>
        <5>1. ctl.mode = "call" /\ ctl.e = Ref(gram.start)
          BY <2>5, <3>1, <4>1 DEF Trying
        <5> QED
          BY <1>1, <1>3, <2>2, <4>1, <5>1, StartCalled
      <4>2. CASE stack # <<>>
        <5>1. stack[1].kind = "NonTerminal"
          BY <2>5, <4>2 DEF Trying
        <5> QED
          BY <1>1, <1>3, <4>2, <5>1, StartReturns
      <4> QED
        BY <4>1, <4>2
    <3> QED
      BY <2>1, <2>2, <2>5, <3>2 DEF Trying
  <2> QED
    BY <2>4, <2>5
<1>4. CASE StartParse
  <2>1. ctl'.mode = "skip"
    <3>1. ctl \in Control
      BY <1>1, Facts
    <3> QED
      BY <1>4, <3>1 DEF StartParse, Control
  <2>2. phase' = "leading" /\ outcome' = "running" /\ parses' = parses + 1
    BY <1>4 DEF StartParse
  <2>3. parses' # 0
    BY <1>1, <2>2 DEF Inv, TypeOK
  <2> QED
    BY <2>1, <2>2, <2>3 DEF Trying
<1>5. CASE StartRule
  <2>1. /\ ctl'.mode = "call" /\ ctl'.e = Ref(gram.start)
        /\ phase' = "try" /\ stack' = <<>> /\ gram' = gram
        /\ outcome' = outcome /\ parses' = parses
    BY <1>1, <1>5, NextMode DEF StartRule, setup
  <2> QED
    BY <1>5, <2>1 DEF Trying, StartRule
<1>6. CASE ParseReturns
  <2>1. phase = "try" /\ (~ ctl.res.success => ctx.m_has_error)
    <3>1. phase # "leading"
      BY <1>1, <1>6 DEF ParseReturns, ResumeInv
    <3>2. phase \in {"none", "leading", "try"}
      BY <1>1 DEF Inv, TypeOK
    <3>3. phase = "try"
      BY <1>6, <3>1, <3>2 DEF ParseReturns, Trying
    <3> QED
      BY <1>6, <3>3 DEF ParseReturns, Trying
  <2>2. /\ ctl'.mode = "idle" /\ phase' = "none" /\ ctx' = ctx
        /\ parses' = parses
        /\ outcome' = IF ctl.res.success THEN "true" ELSE "false"
    BY <1>2, <1>6 DEF ParseReturns, Finish
  <2>3. parses # 0
    BY <1>1, <1>6 DEF ParseReturns, MirrorInv, Trying
  <2> QED
    BY <2>1, <2>2, <2>3 DEF Trying
<1>7. CASE ParseCatches \/ ParseThrows
  BY <1>7 DEF ParseCatches, ParseThrows
<1>8. CASE TakeError \/ TakeDiagnostics
  <2>1. /\ ctl' = ctl /\ phase' = phase /\ parses' = parses
        /\ ctl.mode = "idle"
    BY <1>8 DEF TakeError, TakeDiagnostics, driver
  <2>2. phase = "none" /\ phase' # "try"
    BY <2>1 DEF Trying
  <2>3. CASE TakeError
    BY <2>1, <2>2, <2>3 DEF Trying, TakeError
  <2>4. CASE TakeDiagnostics /\ ~ TakeError
    <3>1. outcome' = outcome /\ (ctx.m_has_error => ctx'.m_has_error)
      BY <1>1, <2>4, ErrorStep DEF TakeDiagnostics, driver
    <3> QED
      BY <2>1, <2>2, <3>1 DEF Trying
  <2> QED
    BY <1>8, <2>3, <2>4
<1> QED
  BY <1>3, <1>4, <1>5, <1>6, <1>7, <1>8 DEF GrammarStep

\* ReportedInv is inductive, given RunInv and SeedInv, while no parse starts
\* on a Context whose error was taken.
LEMMA ReportedNext ==
  RunInv /\ SeedInv /\ ReportedInv /\ [Next]_vars /\ [KeepsItsError]_vars
    => ReportedInv'
<1> SUFFICES ASSUME RunInv, SeedInv, ReportedInv, [Next]_vars,
                    [KeepsItsError]_vars, GrammarCutFree'
             PROVE  Trying' /\ (outcome' # "none" \/ parses' = 0 => Blamed')
  BY DEF ReportedInv
<1>1. GrammarCutFree /\ SkipperCutFree
  BY StaysCutFree
<1>2. Trying /\ (outcome # "none" \/ parses = 0 => Blamed)
  BY <1>1 DEF ReportedInv
<1>3. /\ Inv /\ MirrorInv /\ Seeded /\ ~ IsCut(ctx) /\ ctl.mode # "throw"
  BY <1>1, Uncommitted DEF RunInv, SeedInv
<1>4. CASE UNCHANGED vars
  <2>1. Trying'
    BY <1>2, <1>4 DEF vars, Trying
  <2>2. Blamed' <=> Blamed
    BY <1>4 DEF vars, Blamed, Settled, HasMemo, lr_in_progress
  <2>3. outcome' = outcome /\ parses' = parses
    BY <1>4 DEF vars
  <2> QED
    BY <1>2, <2>1, <2>2, <2>3
<1>5. CASE Step /\ ~ UNCHANGED vars
  <2>1. Trying'
    BY <1>1, <1>2, <1>3, <1>5, TryingStep
  <2>2. ASSUME outcome' # "none" \/ parses' = 0 PROVE Blamed'
    <3>1. ~ TakeError
      <4>1. SUFFICES ASSUME TakeError PROVE FALSE
        OBVIOUS
      <4>2. outcome = "false" /\ outcome' = "none" /\ parses' = parses
        BY <4>1 DEF TakeError
      <4> QED
        BY <1>2, <2>2, <4>2 DEF Trying
    <3>2. outcome # "none" \/ parses = 0
      <4>1. CASE StartParse
        BY <1>5, <4>1 DEF KeepsItsError
      <4>2. CASE ~ GrammarStep
        <5>1. outcome' = outcome /\ parses' = parses
          BY <1>3, <1>5, <4>2, RunningStep DEF Running, driver
        <5> QED
          BY <2>2, <5>1
      <4>3. CASE StartRule \/ ParseReturns \/ ParseCatches \/ ParseThrows
        BY <1>3, <4>3
        DEF StartRule, ParseReturns, ParseCatches, ParseThrows, MirrorInv
      <4>4. CASE TakeDiagnostics
        <5>1. outcome' = outcome /\ parses' = parses
          BY <4>4 DEF TakeDiagnostics, driver
        <5> QED
          BY <2>2, <5>1
      <4> QED
        BY <3>1, <4>1, <4>2, <4>3, <4>4 DEF GrammarStep
    <3> QED
      BY <1>2, <1>3, <1>5, <3>1, <3>2, BlamedStep
  <2> QED
    BY <2>1, <2>2
<1> QED
  BY <1>4, <1>5, CodeStep

\* A Context starts with an empty memo.
LEMMA ReportedInit == Init => ReportedInv
<1> SUFFICES ASSUME Init PROVE Trying /\ Blamed
  BY DEF ReportedInv
<1>1. Trying
  BY DEF Init, Trying
<1>2. Blamed
  BY DEF Init, NewContext, Blamed, Settled, HasMemo
<1> QED
  BY <1>1, <1>2

\* In a grammar without cuts a failed parse leaves an error to take, and
\* nothing escapes Grammar::parse, as long as no parse starts on a Context
\* whose error was taken: NonTerminal::parse records the failure it memoises,
\* but a memo hit only repeats the answer.
THEOREM FailuresTold ==
  Spec /\ [][KeepsItsError]_vars => [](GrammarCutFree => FailuresReported)
<1>1. RunInv /\ ReportedInv => (GrammarCutFree => FailuresReported)
  BY StaysCutFree
  DEF RunInv, ReportedInv, Trying, ResumeInv, FailuresReported
<1> QED
  BY <1>1, RunInvHolds, SeedInit, SeedNext, ReportedInit, ReportedNext, PTL
  DEF Spec
=============================================================================
