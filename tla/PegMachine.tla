----------------------------- MODULE PegMachine -----------------------------
(***************************************************************************)
(* The recursive-descent engine: Grammar::parse driving the parse()        *)
(* methods of the expression types over one Context (Grammar.h,            *)
(* NonTerminal.h, Combinators.h, Terminals.h).                             *)
(*                                                                         *)
(* The C++ call stack is the variable stack, one frame per active parse()  *)
(* (or run_skipper()) call, innermost last; ctl is the control point:      *)
(*   call    expression ctl.e is about to be parsed                        *)
(*   return  the innermost call just returned ctl.res                      *)
(*   skip    the innermost call is about to execute run_skipper()          *)
(*   go      the innermost call is about to parse its next child           *)
(*   finish  a NonTerminal's grow loop has ended                           *)
(*   throw   a ParseError is propagating                                   *)
(*   idle    no parse is running                                           *)
(* Each action is the code from one control point to the next.             *)
(***************************************************************************)
EXTENDS PegExpr, FiniteSets

CONSTANTS
  Chars,      \* input elements
  Inputs,     \* the inputs a Context may be constructed over
  Exprs,      \* expressions, closed under children
  Grammars,   \* the grammars a parse may use
  MaxParses   \* bound: Grammar::parse calls on one Context

LeafOps == {"Terminal", "TerminalSeq", "Token", "Matcher", "Empty", "Cut"}
UnaryOps == {"Repetition", "Not", "And", "Lexeme"}
ListOps == {"Sequence", "Alternation"}
Ops == LeafOps \cup UnaryOps \cup ListOps \cup {"NonTerminal"}

ExprOK(e) ==
  /\ e.op \in Ops
  /\ e.kids \in Seq(Exprs)
  /\ e.op \in UnaryOps => Len(e.kids) = 1
  /\ e.op \in ListOps => Len(e.kids) >= 1
  /\ e.sym \in Seq(SUBSET Chars)
  /\ e.op \in {"Terminal", "Token"} => Len(e.sym) = 1
  /\ e.sym \in ItemTexts
  /\ e.op = "NonTerminal" => e.rule \in Rules
  /\ e.min_rep \in Nat
  /\ e.max_rep \in Int

\* A grammar whose rules are all defined.  sync[r] is the set of sync tokens
\* of a rule with recovery, folds the rules with a typed action, labelled the
\* rules with a label; every rule of a Grammar has a name (Grammar::rule).
GrammarOK(g) ==
  /\ g.body \in [Rules -> Exprs]
  /\ g.start \in Rules
  /\ g.skipper \in Rules \cup {NoRule}
  /\ g.recover \in SUBSET Rules
  /\ g.sync \in [Rules -> SUBSET Chars]
  /\ g.folds \in SUBSET Rules
  /\ g.labelled \in SUBSET Rules

ASSUME MachineAssumption ==
  /\ MaxParses \in Nat \ {0}
  /\ \A s \in Inputs : s \in Seq(Chars) /\ Absent \notin RuleStates(Len(s))
  /\ \A r \in Rules : Ref(r) \in Exprs
  /\ \A e \in Exprs : ExprOK(e)
  /\ \A g \in Grammars : GrammarOK(g)

VARIABLES
  gram,     \* the Grammar
  input,    \* the elements behind the InputSource
  ctx,      \* the Context
  stack,    \* active parse() calls, innermost last
  ctl,      \* the control point
  phase,    \* where Grammar::parse is: "none", "leading" skip or "try" block
  outcome,  \* what the last Grammar::parse did
  parses    \* how many Grammar::parse calls have started

vars == <<gram, input, ctx, stack, ctl, phase, outcome, parses>>
setup == <<gram, input>>
driver == <<phase, outcome, parses>>

Modes == {"idle", "call", "return", "skip", "go", "finish", "throw"}

\* ctl.at is where the returning expression was entered.
Control == [mode : Modes, e : Exprs, res : Results, at : 0..Len(input)]

\* Locals of an active call.  start: position on entry; i: child index or
\* loopCount; node: the node being built; last, iter: a repetition's
\* lastSuccessState and startState; prev: a saved skip flag; best, rs, lr: a
\* NonTerminal's best, rule_state and LRFrame (its index on m_lr_stack).
FrameKinds == UnaryOps \cup ListOps \cup {"NonTerminal", "Skipper"}
Frames ==
  [kind : FrameKinds, e : Exprs, start : 0..Len(input), i : Nat, node : Nat,
   last : 0..Len(input), iter : 0..Len(input), prev : BOOLEAN,
   best : Results, rs : RuleStates(Len(input)), lr : Nat]

NewFrame(kind, e) ==
  [kind |-> kind, e |-> e, start |-> mark(ctx), i |-> 0, node |-> nullptr,
   last |-> mark(ctx), iter |-> mark(ctx), prev |-> ctx.m_skip_enabled,
   best |-> Failed,
   rs |-> [m_last_pos |-> mark(ctx), m_cached_result |-> Failed], lr |-> 0]

Top == stack[Len(stack)]
Push(f) == stack' = Append(stack, f)
Pop == stack' = SubSeq(stack, 1, Len(stack) - 1)
SetTop(f) == stack' = [stack EXCEPT ![Len(stack)] = f]

Calling(op) == ctl.mode = "call" /\ ctl.e.op = op
At(mode, kind) ==
  ctl.mode = mode /\ stack # <<>> /\ Top.kind = kind
ReturnedTo(kind, success) ==
  At("return", kind) /\ ctl.res.success = success

Goto(mode) == ctl' = [ctl EXCEPT !.mode = mode]
Call(e) == ctl' = [ctl EXCEPT !.mode = "call", !.e = e]
Return(r, from) ==
  ctl' = [ctl EXCEPT !.mode = "return", !.res = r, !.at = from]

-----------------------------------------------------------------------------
(* Leaf expressions: parse() makes no further call.                        *)

Leaf == UNCHANGED <<setup, driver, stack>>

symbolConsumable(v, values) == v \in values

\* The element at the cursor is one the terminal or token e accepts.
ElementHere(e) ==
  ~ ended(ctx) /\ symbolConsumable(input[mark(ctx) + 1], e.sym[1])

\* The elements from the cursor match the literal sym.
LiteralHere(sym) ==
  /\ mark(ctx) + Len(sym) <= Len(input)
  /\ \A k \in 1..Len(sym) : symbolConsumable(input[mark(ctx) + k], sym[k])

LiteralItem(e) == [kind |-> "Literal", text |-> e.sym]

record_expected(e) ==
  ctx' = record_failure(ctx, mark(ctx), LiteralItem(e))

TerminalMatch ==
  /\ Calling("Terminal")
  /\ ElementHere(ctl.e)
  /\ ctx' = next(ctx)
  /\ Return(Matched(nullptr), mark(ctx))
  /\ Leaf

TokenMatch ==
  /\ Calling("Token")
  /\ ElementHere(ctl.e)
  /\ ctx' = make_node(next(ctx), EmptyNode(mark(ctx), mark(ctx) + 1))
  /\ Return(Matched(NextNode(ctx)), mark(ctx))
  /\ Leaf

SingleFail ==
  /\ ctl.mode = "call" /\ ctl.e.op \in {"Terminal", "Token"}
  /\ ~ ElementHere(ctl.e)
  /\ record_expected(ctl.e)
  /\ Return(Failed, mark(ctx))
  /\ Leaf

TerminalSeqMatch ==
  /\ Calling("TerminalSeq") /\ LiteralHere(ctl.e.sym)
  /\ ctx' = reset(ctx, mark(ctx) + Len(ctl.e.sym))
  /\ Return(Matched(nullptr), mark(ctx))
  /\ Leaf

\* The cursor is back at the start when the failure is recorded.
TerminalSeqFail ==
  /\ Calling("TerminalSeq") /\ ~ LiteralHere(ctl.e.sym)
  /\ record_expected(ctl.e)
  /\ Return(Failed, mark(ctx))
  /\ Leaf

\* The user function is a recogniser of the literal sym; it reads only, and
\* its rejection leaves nothing in the error tracker.
MatcherMatch ==
  /\ Calling("Matcher") /\ LiteralHere(ctl.e.sym)
  /\ LET end == mark(ctx) + Len(ctl.e.sym)
     IN  ctx' = make_node(reset(ctx, end), EmptyNode(mark(ctx), end))
  /\ Return(Matched(NextNode(ctx)), mark(ctx))
  /\ Leaf

MatcherFail ==
  /\ Calling("Matcher") /\ ~ LiteralHere(ctl.e.sym)
  /\ Return(Failed, mark(ctx))
  /\ UNCHANGED ctx /\ Leaf

Empty ==
  /\ Calling("Empty")
  /\ Return(Matched(nullptr), mark(ctx))
  /\ UNCHANGED ctx /\ Leaf

Cut ==
  /\ Calling("Cut")
  /\ ctx' = cut(ctx, TRUE)
  /\ Return(Matched(nullptr), mark(ctx))
  /\ Leaf

LeafStep ==
  \/ TerminalMatch \/ TokenMatch \/ SingleFail
  \/ TerminalSeqMatch \/ TerminalSeqFail
  \/ MatcherMatch \/ MatcherFail \/ Empty \/ Cut

-----------------------------------------------------------------------------
(* SequenceExpr.                                                           *)

Inner == UNCHANGED <<setup, driver>>

SequenceEnter ==
  /\ Calling("Sequence")
  /\ Push([NewFrame("Sequence", ctl.e) EXCEPT !.node = NextNode(ctx)])
  /\ ctx' = make_node(ctx, EmptyNode(mark(ctx), 0))
  /\ Goto("go") /\ Inner

SequenceChild ==
  /\ At("go", "Sequence")
  /\ Call(Top.e.kids[Top.i + 1])
  /\ UNCHANGED <<ctx, stack>> /\ Inner

SequenceChildMatched ==
  /\ ReturnedTo("Sequence", TRUE)
  /\ Top.i + 1 < Len(Top.e.kids)
  /\ SetTop([Top EXCEPT !.i = @ + 1])
  /\ ctx' = push_child(ctx, Top.node, ctl.res.tree)
  /\ Goto("skip") /\ Inner

SequenceMatched ==
  /\ ReturnedTo("Sequence", TRUE)
  /\ Top.i + 1 >= Len(Top.e.kids)
  /\ ctx' = set_end(push_child(ctx, Top.node, ctl.res.tree), Top.node)
  /\ Return(Matched(Top.node), Top.start)
  /\ Pop /\ Inner

\* Mutant: a failed sequence forgets to rewind.
NoRewind_SequenceFailed ==
  /\ ReturnedTo("Sequence", FALSE)
  /\ Return(Failed, Top.start)
  /\ Pop /\ UNCHANGED ctx /\ Inner

SequenceFailed ==
  /\ ReturnedTo("Sequence", FALSE)
  /\ ctx' = reset(ctx, Top.start)
  /\ Return(Failed, Top.start)
  /\ Pop /\ Inner

SequenceStep ==
  \/ SequenceEnter \/ SequenceChild \/ SequenceChildMatched
  \/ SequenceMatched \/ SequenceFailed

-----------------------------------------------------------------------------
(* AlternationExpr.                                                        *)

AlternationEnter ==
  /\ Calling("Alternation")
  /\ Push(NewFrame("Alternation", ctl.e))
  /\ ctx' = init_cut(ctx)
  /\ Call(ctl.e.kids[1]) /\ Inner

stamp_winner(c, t, i) ==
  IF t = nullptr THEN c
  ELSE edit_node(c, t, [NodeAt(c, t) EXCEPT !.alt_winner = i])

AlternationMatched ==
  /\ ReturnedTo("Alternation", TRUE)
  /\ ctx' = remove_cut(stamp_winner(ctx, ctl.res.tree, Top.i))
  /\ Return(ctl.res, Top.start)
  /\ Pop /\ Inner

AlternationNext ==
  /\ ReturnedTo("Alternation", FALSE) /\ ~ IsCut(ctx)
  /\ Top.i + 1 < Len(Top.e.kids)
  /\ SetTop([Top EXCEPT !.i = @ + 1])
  /\ Call(Top.e.kids[Top.i + 2])
  /\ UNCHANGED ctx /\ Inner

AlternationExhausted ==
  /\ ReturnedTo("Alternation", FALSE) /\ ~ IsCut(ctx)
  /\ Top.i + 1 >= Len(Top.e.kids)
  /\ ctx' = remove_cut(ctx)
  /\ Return(Failed, Top.start)
  /\ Pop /\ Inner

AlternationThrow ==
  /\ ReturnedTo("Alternation", FALSE) /\ IsCut(ctx)
  /\ Goto("throw")
  /\ UNCHANGED <<ctx, stack>> /\ Inner

AlternationStep ==
  \/ AlternationEnter \/ AlternationMatched \/ AlternationNext
  \/ AlternationExhausted \/ AlternationThrow

-----------------------------------------------------------------------------
(* repeat_parse_impl: * + n* and ?, distinguished by min_rep and max_rep   *)
(* (max_rep = -1: unbounded).                                              *)

RepetitionEnter ==
  /\ Calling("Repetition")
  /\ Push([NewFrame("Repetition", ctl.e) EXCEPT !.node = NextNode(ctx)])
  /\ ctx' = make_node(init_cut(ctx), EmptyNode(mark(ctx), 0))
  /\ Goto("go") /\ Inner

RepetitionChild ==
  /\ At("go", "Repetition")
  /\ SetTop([Top EXCEPT !.iter = mark(ctx)])
  /\ ctx' = cut(ctx, FALSE)
  /\ Call(Top.e.kids[1]) /\ Inner

\* After a successful iteration that brings loopCount to n.
RepetitionStops(e, n) ==
  \/ e.max_rep > 0 /\ n >= e.max_rep
  \/ mark(ctx) = Top.iter

RepetitionChildMatched ==
  /\ ReturnedTo("Repetition", TRUE)
  /\ ~ RepetitionStops(Top.e, Top.i + 1)
  /\ SetTop([Top EXCEPT !.i = @ + 1, !.last = mark(ctx)])
  /\ ctx' = push_child(ctx, Top.node, ctl.res.tree)
  /\ Goto("skip") /\ Inner

\* The loop ends after a match: by its bound or for want of progress.
RepetitionMatched ==
  /\ ReturnedTo("Repetition", TRUE)
  /\ RepetitionStops(Top.e, Top.i + 1)
  /\ LET c == push_child(ctx, Top.node, ctl.res.tree)
     IN  IF Top.i + 1 < Top.e.min_rep
         THEN /\ ctx' = remove_cut(reset(c, Top.start))
              /\ Return(Failed, Top.start)
         ELSE /\ ctx' = remove_cut(set_end(c, Top.node))
              /\ Return(Matched(Top.node), Top.start)
  /\ Pop /\ Inner

RepetitionTooFew ==
  /\ ReturnedTo("Repetition", FALSE)
  /\ Top.i < Top.e.min_rep
  /\ ctx' = remove_cut(reset(ctx, Top.start))
  /\ Return(Failed, Top.start)
  /\ Pop /\ Inner

\* node->children.resize(loopCount): iterations that built no node leave
\* null children at the end.
PadChildren(c, t, n) ==
  LET node == NodeAt(c, t)
  IN  edit_node(c, t, [node EXCEPT !.children =
        [k \in 1..n |-> IF k <= Len(@) THEN @[k] ELSE nullptr]])

RepetitionEnds ==
  /\ ReturnedTo("Repetition", FALSE)
  /\ Top.i >= Top.e.min_rep
  /\ ~ (Top.e.max_rep < 0 /\ IsCut(ctx))
  /\ ctx' = remove_cut(
              set_end(PadChildren(reset(ctx, Top.last), Top.node, Top.i),
                      Top.node))
  /\ Return(Matched(Top.node), Top.start)
  /\ Pop /\ Inner

RepetitionThrow ==
  /\ ReturnedTo("Repetition", FALSE)
  /\ Top.i >= Top.e.min_rep
  /\ Top.e.max_rep < 0 /\ IsCut(ctx)
  /\ ctx' = PadChildren(reset(ctx, Top.last), Top.node, Top.i)
  /\ Goto("throw")
  /\ UNCHANGED stack /\ Inner

RepetitionStep ==
  \/ RepetitionEnter \/ RepetitionChild \/ RepetitionChildMatched
  \/ RepetitionMatched \/ RepetitionTooFew \/ RepetitionEnds
  \/ RepetitionThrow

-----------------------------------------------------------------------------
(* predicate_parse_impl and LexemeExpr.                                    *)

PredicateEnter ==
  \E op \in {"Not", "And"} :
    /\ Calling(op)
    /\ Push(NewFrame(op, ctl.e))
    /\ Call(ctl.e.kids[1])
    /\ UNCHANGED ctx /\ Inner

PredicateReturn ==
  \E op \in {"Not", "And"} :
    /\ At("return", op)
    /\ ctx' = reset(ctx, Top.start)
    /\ Return([success |-> (op = "And") <=> ctl.res.success,
               tree |-> nullptr], Top.start)
    /\ Pop /\ Inner

LexemeEnter ==
  /\ Calling("Lexeme")
  /\ Push(NewFrame("Lexeme", ctl.e))
  /\ ctx' = skip_enabled(ctx, FALSE)
  /\ Call(ctl.e.kids[1]) /\ Inner

\* Mutant: leaving any lexeme switches auto-skip on.
Always_LexemeReturn ==
  /\ At("return", "Lexeme")
  /\ ctx' = skip_enabled(ctx, TRUE)
  /\ Return(ctl.res, Top.start)
  /\ Pop /\ Inner

\* Mutant: leaving a lexeme does not restore the flag.
Sticky_LexemeReturn ==
  /\ At("return", "Lexeme")
  /\ Return(ctl.res, Top.start)
  /\ Pop /\ UNCHANGED ctx /\ Inner

LexemeReturn ==
  /\ At("return", "Lexeme")
  /\ ctx' = skip_enabled(ctx, Top.prev)
  /\ Return(ctl.res, Top.start)
  /\ Pop /\ Inner

WrapperStep ==
  PredicateEnter \/ PredicateReturn \/ LexemeEnter \/ LexemeReturn

-----------------------------------------------------------------------------
(* Context::run_skipper.                                                   *)

SkipperEnter ==
  /\ ctl.mode = "skip" /\ SkipperRuns(ctx)
  /\ Push(NewFrame("Skipper", Ref(ctx.m_skipper)))
  /\ ctx' = skip_enabled(ctx, FALSE)
  /\ Call(Ref(ctx.m_skipper)) /\ Inner

SkipperNone ==
  /\ ctl.mode = "skip" /\ ~ SkipperRuns(ctx)
  /\ Goto("go")
  /\ UNCHANGED <<ctx, stack>> /\ Inner

\* Mutant: the skipper is repeated for as long as it matches.
Repeated_SkipperReturn ==
  /\ At("return", "Skipper")
  /\ ctx' = skip_enabled(ctx, Top.prev)
  /\ Goto(IF ctl.res.success THEN "skip" ELSE "go")
  /\ Pop /\ Inner

\* The skipper's result is ignored.
SkipperReturn ==
  /\ At("return", "Skipper")
  /\ ctx' = skip_enabled(ctx, Top.prev)
  /\ Goto("go")
  /\ Pop /\ Inner

SkipperStep == SkipperEnter \/ SkipperNone \/ SkipperReturn

-----------------------------------------------------------------------------
(* NonTerminal::parse and NonTerminal::parseImpl.                          *)

\* (a) left-recursive re-entry: this cycle has a head, answer with its seed.
NonTerminalReenter ==
  /\ Calling("NonTerminal")
  /\ HasMemo(ctx, ctl.e.rule, mark(ctx))
  /\ lr_in_progress(ctx, ctl.e.rule, mark(ctx))
  /\ LET seed == memo_get(ctx, ctl.e.rule, mark(ctx))
     IN  /\ ctx' = reset(mark_head(ctx, ctl.e.rule, mark(ctx)),
                         seed.m_last_pos)
         /\ Return(seed.m_cached_result, mark(ctx))
  /\ UNCHANGED stack /\ Inner

\* (b) involved in another head's growth and (c) ordinary memo hit: both
\* answer with the entry as it is now.
NonTerminalMemoHit ==
  /\ Calling("NonTerminal")
  /\ HasMemo(ctx, ctl.e.rule, mark(ctx))
  /\ ~ lr_in_progress(ctx, ctl.e.rule, mark(ctx))
  /\ LET memo == memo_get(ctx, ctl.e.rule, mark(ctx))
     IN  /\ ctx' = reset(ctx, memo.m_last_pos)
         /\ Return(memo.m_cached_result, mark(ctx))
  /\ UNCHANGED stack /\ Inner

\* First-time parse: push the LR frame, plant the failure seed, run the body.
NonTerminalEnter ==
  /\ Calling("NonTerminal")
  /\ ~ HasMemo(ctx, ctl.e.rule, mark(ctx))
  /\ LET r == ctl.e.rule
         p == mark(ctx)
         f == [NewFrame("NonTerminal", ctl.e)
                 EXCEPT !.lr = Len(ctx.m_lr_stack) + 1]
         c == lr_push(rule_state(ctx, r, p),
                      [rule |-> r, pos |-> p, last_pos |-> p,
                       is_head |-> FALSE])
     IN  /\ Push(f)
         /\ ctx' = update_rule_state(c, r, p, f.rs)
         /\ Call(gram.body[r])
  /\ Inner

\* The LRFrame of the innermost call, and the rule and place it stands for.
MyLR == ctx.m_lr_stack[Top.lr]
ThisRule == Top.e.rule

\* The body matched further than the seed: grow the seed and run it again.
\* A cut inside the body may have evicted the entry; then growth stops.
NonTerminalGrow ==
  /\ ReturnedTo("NonTerminal", TRUE)
  /\ mark(ctx) > MyLR.last_pos
  /\ LET rs == [m_last_pos |-> mark(ctx), m_cached_result |-> ctl.res]
         c  == update_rule_state(
                 [ctx EXCEPT !.m_lr_stack[Top.lr].last_pos = mark(ctx)],
                 ThisRule, Top.start, rs)
     IN  /\ SetTop([Top EXCEPT !.best = ctl.res, !.rs = rs])
         /\ IF HasMemo(ctx, ThisRule, Top.start)
            THEN /\ ctx' = reset(IF MyLR.is_head
                                 THEN clear_siblings_at(c, Top.start, ThisRule)
                                 ELSE c, Top.start)
                 /\ Call(gram.body[ThisRule])
            ELSE /\ ctx' = reset(c, mark(ctx))
                 /\ Goto("finish")
  /\ Inner

\* Mutant: the last iteration's match replaces the longest one.
Regressed_NonTerminalFixedPoint ==
  /\ ReturnedTo("NonTerminal", TRUE)
  /\ mark(ctx) <= MyLR.last_pos
  /\ LET rs == [m_last_pos |-> mark(ctx), m_cached_result |-> ctl.res]
     IN  /\ SetTop([Top EXCEPT !.best = ctl.res, !.rs = rs])
         /\ ctx' = update_rule_state(ctx, ThisRule, Top.start, rs)
  /\ Goto("finish") /\ Inner

\* No further progress: keep the longest match, adopt an empty first one.
NonTerminalFixedPoint ==
  /\ ReturnedTo("NonTerminal", TRUE)
  /\ mark(ctx) <= MyLR.last_pos
  /\ LET best == IF Top.best.success THEN Top.best ELSE ctl.res
         rs   == [m_last_pos |-> MyLR.last_pos, m_cached_result |-> best]
     IN  /\ SetTop([Top EXCEPT !.best = best, !.rs = rs])
         /\ ctx' = reset(update_rule_state(ctx, ThisRule, Top.start, rs),
                         MyLR.last_pos)
  /\ Goto("finish") /\ Inner

NonTerminalBodyFailed ==
  /\ ReturnedTo("NonTerminal", FALSE)
  /\ ctx' = reset(ctx, MyLR.last_pos)
  /\ Goto("finish")
  /\ UNCHANGED stack /\ Inner

\* lr_pop, and the head's growth is over.
LeaveRule(c) ==
  LET d == lr_pop(c, Top.lr)
  IN  IF MyLR.is_head THEN clear_growing_head(d, Top.start) ELSE d

RuleItem(r) ==
  [kind |-> IF r \in gram.labelled THEN "RuleLabel" ELSE "RuleName",
   text |-> r]

\* Recovery scans from start to the first sync token, or to the end.
ScanStops(r, start, scan) ==
  /\ \A q \in start..(scan - 1) : input[q + 1] \notin gram.sync[r]
  /\ scan < Len(input) => input[scan + 1] \in gram.sync[r]

\* Mutant: one past the scan even when no sync token was found.
Past_ResumeAt(scan) == scan + 1

ResumeAt(scan) == IF scan < Len(input) THEN scan + 1 ELSE Len(input)

Finishing(success) ==
  At("finish", "NonTerminal") /\ Top.best.success = success

Recovers(c) == ThisRule \in gram.recover /\ ~ IsCut(c)

NonTerminalFailed ==
  /\ Finishing(FALSE)
  /\ ~ Recovers(ctx)
  /\ ctx' = update_rule_state(
              record_failure(LeaveRule(ctx), Top.start, RuleItem(ThisRule)),
              ThisRule, Top.start,
              [Top.rs EXCEPT !.m_cached_result = Failed])
  /\ Return(Failed, Top.start)
  /\ Pop /\ Inner

\* Mutant: the recovered answer is not memoised.
Unmemoised_NonTerminalRecovered ==
  /\ Finishing(FALSE)
  /\ Recovers(ctx)
  /\ \E scan \in Top.start..Len(input) :
       /\ ScanStops(ThisRule, Top.start, scan)
       /\ LET c == record_failure(LeaveRule(ctx), Top.start, RuleItem(ThisRule))
          IN  ctx' = record_diagnostic(
                       reset([c EXCEPT !.m_mem[<<Top.start, ThisRule>>] = Absent],
                             ResumeAt(scan)),
                       [pos |-> Top.start, rule |-> ThisRule])
  /\ Return(Matched(nullptr), Top.start)
  /\ Pop /\ Inner

NonTerminalRecovered ==
  /\ Finishing(FALSE)
  /\ Recovers(ctx)
  /\ \E scan \in Top.start..Len(input) :
       /\ ScanStops(ThisRule, Top.start, scan)
       /\ LET c == record_failure(LeaveRule(ctx), Top.start, RuleItem(ThisRule))
              d == record_diagnostic(reset(c, ResumeAt(scan)),
                                     [pos |-> Top.start, rule |-> ThisRule])
          IN  ctx' = update_rule_state(d, ThisRule, Top.start,
                       [m_last_pos |-> ResumeAt(scan),
                        m_cached_result |-> Matched(nullptr)])
  /\ Return(Matched(nullptr), Top.start)
  /\ Pop /\ Inner

\* A rule with a typed action wraps the body's node; any other adopts it.
RuleNode(c, body, tree) ==
  IF ThisRule \in gram.folds
  THEN [EmptyNode(Top.start, mark(c)) EXCEPT
          !.name = ThisRule, !.producer = ThisRule,
          !.children = IF tree = nullptr THEN <<>> ELSE <<tree>>]
  ELSE [body EXCEPT
          !.name = ThisRule,
          !.producer = IF @ = NoRule THEN ThisRule ELSE @,
          !.start_offset = Top.start, !.end_offset = mark(c)]

NonTerminalMatched ==
  /\ Finishing(TRUE)
  /\ LET c     == LeaveRule(ctx)
         tree  == Top.best.tree
         fresh == ThisRule \in gram.folds \/ tree = nullptr
         node  == RuleNode(c, IF fresh THEN EmptyNode(Top.start, mark(c))
                              ELSE NodeAt(c, tree), tree)
         t     == IF fresh THEN NextNode(c) ELSE tree
         d     == IF fresh THEN make_node(c, node) ELSE edit_node(c, t, node)
     IN  /\ ctx' = update_rule_state(d, ThisRule, Top.start,
                     [Top.rs EXCEPT !.m_cached_result = Matched(t)])
         /\ Return(Matched(t), Top.start)
  /\ Pop /\ Inner

NonTerminalStep ==
  \/ NonTerminalReenter \/ NonTerminalMemoHit \/ NonTerminalEnter
  \/ NonTerminalGrow \/ NonTerminalFixedPoint \/ NonTerminalBodyFailed
  \/ NonTerminalFailed \/ NonTerminalRecovered \/ NonTerminalMatched

-----------------------------------------------------------------------------
(* A ParseError leaves the innermost call: the ScopeGuards of alternations *)
(* and repetitions close their cut scope, a lexeme restores the skip flag; *)
(* NonTerminal::parse and run_skipper have no guard.                       *)

\* Mutant: an alternation or repetition has no ScopeGuard.
Unguarded_Unwind ==
  /\ ctl.mode = "throw" /\ stack # <<>>
  /\ ctx' = IF Top.kind = "Lexeme" THEN skip_enabled(ctx, Top.prev) ELSE ctx
  /\ Pop
  /\ UNCHANGED ctl /\ Inner

Unwind ==
  /\ ctl.mode = "throw" /\ stack # <<>>
  /\ ctx' = CASE Top.kind \in {"Alternation", "Repetition"} -> remove_cut(ctx)
              [] Top.kind = "Lexeme" -> skip_enabled(ctx, Top.prev)
              [] OTHER -> ctx
  /\ Pop
  /\ UNCHANGED ctl /\ Inner

-----------------------------------------------------------------------------
(* Grammar::parse(rule, ctx).                                              *)

\* Mutant: a parse drops the diagnostics of the one before.
Cleared_StartParse ==
  /\ ctl.mode = "idle" /\ parses < MaxParses /\ ctx.m_lr_stack = <<>>
  /\ ctx' = internal_set_skipper(take_diagnostics(ctx), gram.skipper)
  /\ ctl' = [ctl EXCEPT !.mode = "skip", !.e = Ref(gram.start)]
  /\ phase' = "leading"
  /\ outcome' = "running"
  /\ parses' = parses + 1
  /\ UNCHANGED <<setup, stack>>

\* After an exception the LR stack may point into dead frames; a parse on
\* such a Context is undefined and not taken up here.
StartParse ==
  /\ ctl.mode = "idle" /\ parses < MaxParses /\ ctx.m_lr_stack = <<>>
  /\ ctx' = internal_set_skipper(ctx, gram.skipper)
  /\ ctl' = [ctl EXCEPT !.mode = "skip", !.e = Ref(gram.start)]
  /\ phase' = "leading"
  /\ outcome' = "running"
  /\ parses' = parses + 1
  /\ UNCHANGED <<setup, stack>>

\* The leading run_skipper() is over: enter the try block.
StartRule ==
  /\ ctl.mode = "go" /\ stack = <<>>
  /\ Call(Ref(gram.start))
  /\ phase' = "try"
  /\ UNCHANGED <<setup, ctx, stack, outcome, parses>>

Finish(o) ==
  /\ phase' = "none" /\ outcome' = o
  /\ Goto("idle")
  /\ UNCHANGED <<setup, ctx, stack, parses>>

ParseReturns ==
  /\ ctl.mode = "return" /\ stack = <<>>
  /\ Finish(IF ctl.res.success THEN "true" ELSE "false")

\* catch (const ParseError&) { return false; }
ParseCatches ==
  /\ ctl.mode = "throw" /\ stack = <<>> /\ phase = "try"
  /\ Finish("false")

\* A ParseError out of the leading skipper is outside the try block.
ParseThrows ==
  /\ ctl.mode = "throw" /\ stack = <<>> /\ phase = "leading"
  /\ Finish("exception")

\* ctx.take_error() after a failed parse: the tracker starts afresh.
TakeError ==
  /\ ctl.mode = "idle" /\ outcome = "false"
  /\ ctx' = take_error(ctx)
  /\ outcome' = "none"
  /\ UNCHANGED <<setup, stack, ctl, phase, parses>>

\* ctx.take_diagnostics() between two parses: the memo stays.
TakeDiagnostics ==
  /\ ctl.mode = "idle" /\ ctx.m_diagnostics # <<>>
  /\ ctx' = take_diagnostics(ctx)
  /\ UNCHANGED <<setup, stack, ctl, driver>>

\* The caller is done with the Context.
Terminated ==
  /\ ctl.mode = "idle"
  /\ parses = MaxParses \/ ctx.m_lr_stack # <<>>
  /\ UNCHANGED vars

GrammarStep ==
  \/ StartParse \/ StartRule \/ ParseReturns \/ ParseCatches \/ ParseThrows
  \/ TakeError \/ TakeDiagnostics

Init ==
  /\ gram \in Grammars
  /\ input \in Inputs
  /\ ctx = NewContext(Len(input))
  /\ stack = <<>>
  /\ ctl = [mode |-> "idle", e |-> Ref(gram.start), res |-> Failed, at |-> 0]
  /\ phase = "none"
  /\ outcome = "none"
  /\ parses = 0

Step ==
  \/ LeafStep \/ SequenceStep \/ AlternationStep \/ RepetitionStep
  \/ WrapperStep \/ SkipperStep \/ NonTerminalStep \/ Unwind \/ GrammarStep

Next == Step \/ Terminated

\* parse() is one sequential call: it keeps taking steps until it returns.
Spec == Init /\ [][Next]_vars /\ WF_vars(Step)

-----------------------------------------------------------------------------
(* Properties.                                                             *)

\* Every variable has its type; in particular the cursor, every memoised end
\* and every saved position lie in 0..input_size, which is what the asserts
\* in reset(), current() and at() demand.
TypeOK ==
  /\ gram \in Grammars
  /\ input \in Inputs
  /\ ctx \in Contexts(Len(input))
  /\ stack \in Seq(Frames)
  /\ ctl \in Control
  /\ phase \in {"none", "leading", "try"}
  /\ outcome \in {"none", "running", "true", "false", "exception"}
  /\ parses \in 0..MaxParses

\* A parse() call that fails leaves the cursor where the call found it,
\* whichever way it failed: this is what lets AlternationExpr try its next
\* branch and predicates look ahead without saving the position again.
FailRestoresPosition ==
  ctl.mode = "return" /\ ~ ctl.res.success => mark(ctx) = ctl.at

CutFrames(s) == {k \in 1..Len(s) : s[k].kind \in {"Alternation", "Repetition"}}
RuleFrames(s) == {k \in 1..Len(s) : s[k].kind = "NonTerminal"}

\* Every open cut scope belongs to an active alternation or repetition, also
\* while a ParseError unwinds: init_cut and remove_cut pair up on every path.
CutScopesBalanced == Len(ctx.m_cut) = Cardinality(CutFrames(stack))

\* Until a ParseError is thrown, m_lr_stack lists exactly the active
\* NonTerminal::parse calls, in order, so that lr_pop always pops its own frame.
LrStackMirrorsCalls ==
  ctl.mode \notin {"throw", "idle"} \/ outcome = "true" =>
    /\ {stack[k].lr : k \in RuleFrames(stack)} = 1..Len(ctx.m_lr_stack)
    /\ \A k \in RuleFrames(stack) :
         /\ \A j \in RuleFrames(stack) : j < k => stack[j].lr < stack[k].lr
         /\ ctx.m_lr_stack[stack[k].lr].rule = stack[k].e.rule
         /\ ctx.m_lr_stack[stack[k].lr].pos = stack[k].start

\* A left-recursive self-call never starts the rule's body again: no rule is
\* active twice at one position (NonTerminal::parseImpl's failure seed).
NoRuleReentered ==
  \A j, k \in 1..Len(ctx.m_lr_stack) :
    j # k => \/ ctx.m_lr_stack[j].rule # ctx.m_lr_stack[k].rule
             \/ ctx.m_lr_stack[j].pos # ctx.m_lr_stack[k].pos

\* Node t covers from..to, and its children lie inside it, each after those
\* before it.
Covers(t, from, to) ==
  /\ t \in 1..Len(ctx.m_node_arena)
  /\ LET node == ctx.m_node_arena[t]
         kids == {k \in 1..Len(node.children) : node.children[k] # nullptr}
         Kid(k) == ctx.m_node_arena[node.children[k]]
     IN  /\ node.start_offset = from /\ node.end_offset = to
         /\ \A k \in kids :
              /\ node.children[k] \in 1..Len(ctx.m_node_arena)
              /\ Kid(k).start_offset >= from /\ Kid(k).end_offset <= to
              /\ \A j \in kids :
                   j < k => Kid(j).end_offset <= Kid(k).start_offset

\* A returned tree covers exactly what the call consumed, and every tree in
\* the memo still covers exactly its entry's match, although nodes are shared
\* between rules and re-stamped by every rule and alternation that adopts one.
TreesCoverTheirMatch ==
  /\ ctl.mode = "return" /\ ctl.res.tree # nullptr =>
       Covers(ctl.res.tree, ctl.at, mark(ctx))
  /\ \A k \in DOMAIN ctx.m_mem :
       HasMemo(ctx, k[2], k[1]) /\ ctx.m_mem[k].m_cached_result.tree # nullptr =>
         Covers(ctx.m_mem[k].m_cached_result.tree, k[1], ctx.m_mem[k].m_last_pos)

InnerSkipScope(f) == f.kind \in {"Lexeme", "Skipper"}

\* No blank is skipped inside a lexeme, or by the skipper while it skips,
\* however the calls in between leave: auto-skip is off while one is active.
NoSkipInsideLexeme ==
  ctx.m_skip_enabled => \A k \in 1..Len(stack) : ~ InnerSkipScope(stack[k])

\* Outside lexemes and the skipper auto-skip is on again, also after a
\* ParseError has left a lexeme.
SkipResumes ==
  ~ ctx.m_skip_enabled => \E k \in 1..Len(stack) : InnerSkipScope(stack[k])

\* No literal reported as expected at the furthest failure is in fact there.
ExpectedLiteralsAbsent ==
  ctx.m_has_error =>
    \A item \in ctx.m_expected :
      item.kind = "Literal" =>
        ~ /\ ctx.m_furthest_failure_pos + Len(item.text) <= Len(input)
          /\ \A k \in 1..Len(item.text) :
               input[ctx.m_furthest_failure_pos + k] \in item.text[k]

\* A failed parse returns false with a diagnostic: committed failures are
\* "surfaced as a normal failure: retrieve the diagnostic via ctx.take_error()",
\* whichever scopes and rules their ParseError passed.
FailuresReported ==
  /\ outcome # "exception"
  /\ ctl.mode = "idle" /\ outcome = "false" => ctx.m_has_error

\* The memo of c holds an answer for k, not the seed of a rule in progress.
Settled(c, k) == HasMemo(c, k[2], k[1]) /\ ~ lr_in_progress(c, k[2], k[1])

\* What a step may do to an answer in the memo: forget it, as it leaves a
\* committed cut scope (answers before the cut) or as a left-recursive head at
\* its position grows.
KeepsAnswers ==
  \A k \in DOMAIN ctx.m_mem :
    Settled(ctx, k) /\ ctx'.m_mem[k] # ctx.m_mem[k] =>
      /\ ctx'.m_mem[k] = Absent
      /\ \/ IsCut(ctx) /\ k[1] < ctx.m_cut[Len(ctx.m_cut)].pos
         \/ \E f \in 1..Len(ctx.m_lr_stack) :
              ctx.m_lr_stack[f].pos = k[1] /\ ctx.m_lr_stack[f].is_head

\* "Packrat memoization for linear-time parsing": an answer is never replaced
\* by another, and forgotten, to be parsed again, only for a cut behind it or a
\* seed that grows.
AnswersKept == [][KeepsAnswers]_vars

\* The answers in the memo of c that a recovery made: matched, no node.
RecoveredAnswers(c) ==
  {k \in DOMAIN c.m_mem :
     Settled(c, k) /\ c.m_mem[k].m_cached_result = Matched(nullptr)}

\* The step reports just the recoveries it makes, and loses no report: only the
\* caller takes them.
ReportsItsRecoveries ==
  LET made == RecoveredAnswers(ctx') \ RecoveredAnswers(ctx)
      was  == ctx.m_diagnostics
      is   == ctx'.m_diagnostics
  IN  IF made = {} THEN is = was \/ (TakeDiagnostics /\ is = <<>>)
      ELSE \E k \in made :
             made = {k} /\ is = Append(was, [pos |-> k[1], rule |-> k[2]])

\* Each recovery is reported exactly once, however often backtracking or a
\* later parse comes back to the same rule at the same place and whenever the
\* caller takes the diagnostics; a report not taken outlives failures, the next
\* parse and take_error.
RecoveredOnce == [][ReportsItsRecoveries]_vars

\* Every parse that starts returns.
ParseTerminates == ctl.mode # "idle" ~> ctl.mode = "idle"
=============================================================================
