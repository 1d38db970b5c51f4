------------------------------ MODULE TreeFold ------------------------------
(***************************************************************************)
(* Grammar::parse_ast: parse, fire the on_match hooks along the tree, fold *)
(* the tree with the typed actions (Grammar.h, ResultType.h).              *)
(*                                                                         *)
(* The fold walks the node arena as the engine of PegMachine left it.  It  *)
(* can end in other ways than with a value: at() throws out_of_range, a    *)
(* null or foreign node is dereferenced, an action is entered again for    *)
(* the same node.  Every fold_expr call starts with a cursor of 0, so a    *)
(* cursor is only the index inside a sequence; a void expression is never  *)
(* folded.                                                                 *)
(***************************************************************************)
EXTENDS PegConformance, SequencesExt

VARIABLES
  ast,    \* what the last parse_ast returned
  fired   \* the on_match calls it made: rule and span, in order

foldVars == <<vars, ast, fired>>

Pending == <<"pending">>       \* parse_ast has not returned
Nullopt == <<"nullopt">>
OutOfRange == <<"out_of_range">>
Undefined == <<"undefined">>
Diverges == <<"diverges">>

Wrong(v) == v \in {OutOfRange, Undefined, Diverges}

\* The first of vs that went wrong, or else v.
Unless(vs, v) ==
  LET bad == SelectSeq(vs, Wrong) IN IF bad = <<>> THEN v ELSE bad[1]

Node(t) == ctx.m_node_arena[t]
Children(t) == Node(t).children

\* pushes_node, or a value: the fold moves past this child of a sequence.
Advances(e) == ~ IsVoid(e) \/ e.op = "Matcher"

\* children.at(): the node the fold takes for the k-th child of a sequence.
ChildIndex(e, k) ==
  Cardinality({j \in 1..(k - 1) : Advances(e.kids[j])}) + 1

\* Mutant: the first branch, whichever won.
First_WinningBranch(e, t) == e.kids[1]

\* The jump table over alt_winner; its last entry is the default.
WinningBranch(e, t) ==
  LET w == Node(t).alt_winner
  IN  IF w \in 0..(Len(e.kids) - 2) THEN e.kids[w + 1] ELSE e.kids[Len(e.kids)]

RECURSIVE fold_expr(_, _, _)
RECURSIVE typed_fold(_, _, _)

\* Mutant: the producer is the rule the node is named after.
ByName_producer(t) == Node(t).name

producer(t) == Node(t).producer

fold_rule(t, active) ==
  IF producer(t) \in gram.folds THEN typed_fold(producer(t), t, active)
  ELSE DefaultNode

\* active holds the <<rule, node>> of the actions being folded.
fold_expr(e, t, active) ==
  LET kid == e.kids[1]
  IN  CASE t = nullptr -> Undefined
        [] t # nullptr /\ e.op = "Token" ->
             IF Node(t).start_offset < Len(input)
             THEN ElementValue(input[Node(t).start_offset + 1]) ELSE Undefined
        [] t # nullptr /\ e.op = "Lexeme" -> fold_expr(kid, t, active)
        [] t # nullptr /\ e.op = "Alternation" ->
             fold_expr(WinningBranch(e, t), t, active)
        [] t # nullptr /\ e.op = "NonTerminal" -> fold_rule(t, active)
        [] t # nullptr /\ e.op = "Repetition" /\ IsOptional(e) ->
             IF Children(t) = <<>> \/ Children(t)[1] = nullptr THEN None
             ELSE LET v == fold_expr(kid, Children(t)[1], active)
                  IN  Unless(<<v>>, Some(v))
        [] t # nullptr /\ e.op = "Repetition" /\ ~ IsOptional(e) ->
             LET vs == [k \in 1..Len(Children(t)) |->
                          fold_expr(kid, Children(t)[k], active)]
             IN  Unless(vs, VectorValue(vs))
        [] t # nullptr /\ e.op = "Sequence" ->
             LET Child(k) ==
                   CASE IsVoid(e.kids[k]) -> VoidValue
                     [] ~ IsVoid(e.kids[k]) /\ ChildIndex(e, k) > Len(Children(t)) ->
                          OutOfRange
                     [] OTHER ->
                          fold_expr(e.kids[k], Children(t)[ChildIndex(e, k)], active)
                 vs == [k \in 1..Len(e.kids) |-> Child(k)]
             IN  Unless(vs, Collapse("tuple", vs, VoidValue))

\* Mutant: the body is folded from the rule's own node.
Unwrapped_body_node(t) == t

body_node(t) == IF Children(t) = <<>> THEN t ELSE Children(t)[1]

\* fold_and_invoke for rule r on its node t.
typed_fold(r, t, active) ==
  LET e == gram.body[r]
      v == fold_expr(e, body_node(t), active \cup {<<r, t>>})
      Invoke(args) == ActionCall(r, Node(t).start_offset, Node(t).end_offset, args)
  IN  IF IsVoid(e) THEN Invoke(<<>>)
      ELSE IF <<r, t>> \in active THEN Diverges
      ELSE Unless(<<v>>, Invoke(Arguments(e, v)))

\* The root is folded by the start rule, whoever produced its node.
fold_start(t, start) ==
  IF t = nullptr THEN Undefined
  ELSE IF start \in gram.folds THEN typed_fold(start, t, {}) ELSE fold_rule(t, {})

RECURSIVE fire_on_match(_, _)
\* Pre-order; start is NoRule below the root.
fire_on_match(t, start) ==
  IF t = nullptr THEN <<>>
  ELSE LET r == IF start \in gram.hooks THEN start ELSE producer(t)
           here == IF r \in gram.hooks
                   THEN <<<<r, Node(t).start_offset, Node(t).end_offset>>>>
                   ELSE <<>>
       IN  here \o FlattenSeq([k \in 1..Len(Children(t)) |->
                                 fire_on_match(Children(t)[k], NoRule)])

-----------------------------------------------------------------------------

\* The parse inside parse_ast.
ParseTree ==
  /\ Step
  /\ ~ (ctl.mode = "idle" /\ outcome \in {"true", "false"} /\ ast = Pending)
  /\ ast' = IF ctl.mode = "idle" /\ ctl'.mode # "idle" THEN Pending ELSE ast
  /\ UNCHANGED fired

\* Mutant: a parse that succeeded is taken to have a tree.
Trusting_FoldTree ==
  /\ ctl.mode = "idle" /\ outcome \in {"true", "false"} /\ ast = Pending
  /\ ast' = IF outcome = "true" THEN fold_start(ctl.res.tree, gram.start) ELSE Nullopt
  /\ fired' = IF outcome = "true" THEN fire_on_match(ctl.res.tree, gram.start) ELSE <<>>
  /\ UNCHANGED vars

\* The parse is over: no value without a tree, else hooks and fold.
FoldTree ==
  /\ ctl.mode = "idle" /\ outcome \in {"true", "false"} /\ ast = Pending
  /\ LET tree == IF outcome = "true" THEN ctl.res.tree ELSE nullptr
     IN  /\ ast' = IF tree = nullptr THEN Nullopt ELSE fold_start(tree, gram.start)
         /\ fired' = fire_on_match(tree, gram.start)
  /\ UNCHANGED vars

FoldInit == Init /\ ast = Nullopt /\ fired = <<>>

FoldNext == ParseTree \/ FoldTree \/ (Terminated /\ ast # Pending /\ UNCHANGED <<ast, fired>>)

FoldSpec == FoldInit /\ [][FoldNext]_foldVars

-----------------------------------------------------------------------------
(* Properties.                                                             *)

Returned == ctl.mode = "idle" /\ parses > 0 /\ ast # Pending

Parsed == ParseMeaning(gram, input, PositionAfter(parses - 1))

\* parse_ast returns what the typed actions make of the match the grammar
\* means: every action of the match is called with the values of its own
\* children, whatever the memo shared, rules adopted and branches re-stamped.
FoldAgrees ==
  Returned =>
    LET v == Parsed
    IN  ast = IF v.k # "ok" \/ v.val = NoTree THEN Nullopt ELSE v.val

\* parse_ast returns: no action is called forever, no node is missing.
FoldReturns == ~ Wrong(ast)

RECURSIVE IsWithin(_, _)
\* s is t with some elements left out.
IsWithin(s, t) ==
  \/ s = <<>>
  \/ /\ t # <<>>
     /\ \/ s[1] = t[1] /\ IsWithin(Tail(s), Tail(t))
        \/ IsWithin(s, Tail(t))

\* on_match hooks fire only for matches that are part of the result, in tree
\* order, never more often than the rule matched there.
HooksFireInOrder ==
  Returned /\ Parsed.k = "ok" =>
    IsWithin(fired, SelectSeq(Parsed.rules, LAMBDA m : m[1] \in gram.hooks))
=============================================================================
