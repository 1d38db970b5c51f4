---------------------------- MODULE PegTreeProofs ----------------------------
(***************************************************************************)
(* Proofs about PegMachine's trees: a node that a call has returned is not *)
(* changed any more in a way that matters, so the trees in the memo, in    *)
(* answers on their way up and under nodes being built stay what they are. *)
(***************************************************************************)
EXTENDS PegScopeProofs

-----------------------------------------------------------------------------
(* The inductive invariant.                                                *)

\* The nodes that active sequences and repetitions are building.
Building(s) == {s[k].node : k \in {j \in 1..Len(s) : s[j].kind \in RunsSkipper}}

\* The nodes of arena N that no call of s is building.
Built(N, s) == (1..Len(N)) \ Building(s)

\* The children kids lie between from and to, one after another; D holds the
\* nodes that are done.
Tidy(N, D, kids, from, to) ==
  \A k \in 1..Len(kids) : kids[k] # nullptr =>
    /\ kids[k] \in D
    /\ from <= N[kids[k]].start_offset /\ N[kids[k]].end_offset <= to
    /\ \A j \in 1..(k - 1) : kids[j] # nullptr =>
         N[kids[j]].end_offset <= N[kids[k]].start_offset

\* Node t is done and covers from..to.
Spans(N, D, t, from, to) ==
  /\ t \in D
  /\ N[t].start_offset = from /\ N[t].end_offset = to
  /\ Tidy(N, D, N[t].children, from, to)

\* The answer r of a call covers what the call consumed, from..to.
Answer(N, D, r, from, to) ==
  /\ r.success => from <= to
  /\ r.tree # nullptr => Spans(N, D, r.tree, from, to)

\* The memo m holds only such answers.
MemoTidy(N, D, m) ==
  \A k \in DOMAIN m : m[k] # Absent =>
    Answer(N, D, m[k].m_cached_result, k[1], m[k].m_last_pos)

\* The call f, whose current child was entered at here, has built its node up
\* to there; a rule holds the longest match so far.  l is the left-recursion
\* stack, fin tells whether a rule's grow loop has ended.
FrameTidy(N, D, l, f, here, fin) ==
  /\ f.start <= here
  /\ f.kind \in RunsSkipper =>
       /\ f.node \in 1..Len(N) /\ N[f.node].start_offset = f.start
       /\ Tidy(N, D, N[f.node].children, f.start,
               IF f.kind = "Repetition" THEN f.last ELSE here)
  /\ f.kind = "Repetition" => f.start <= f.last /\ f.last <= here
  /\ f.kind = "NonTerminal" =>
       /\ f.start <= l[f.lr].last_pos /\ f.rs.m_last_pos = l[f.lr].last_pos
       /\ Answer(N, D, f.best, f.start, l[f.lr].last_pos)
       /\ here = IF fin THEN l[f.lr].last_pos ELSE f.start

\* Where the child that the innermost call runs, or ran, was entered.
Here == IF ctl.mode = "return" THEN ctl.at ELSE mark(ctx)

\* Where the child that the k-th call runs was entered.
HereOf(k) == IF k < Len(stack) THEN stack[k + 1].start ELSE Here

CallsTidy ==
  /\ \A k \in 1..Len(stack) :
       FrameTidy(ctx.m_node_arena, Built(ctx.m_node_arena, stack),
                 ctx.m_lr_stack, stack[k], HereOf(k),
                 k = Len(stack) /\ ctl.mode = "finish")
  /\ \A j, k \in 1..Len(stack) :
       /\ j # k /\ stack[j].kind \in RunsSkipper /\ stack[k].kind \in RunsSkipper
       => stack[j].node # stack[k].node

\* Memo, answer and, until a ParseError is thrown, active calls.
TreeInv ==
  /\ MemoTidy(ctx.m_node_arena, Built(ctx.m_node_arena, stack), ctx.m_mem)
  /\ ctl.mode = "return" =>
       Answer(ctx.m_node_arena, Built(ctx.m_node_arena, stack), ctl.res,
              ctl.at, mark(ctx))
  /\ ctl.mode # "throw" => CallsTidy

-----------------------------------------------------------------------------
(* Trees under changes of the arena.                                       *)

\* Every node of D, in arena N, is one of E with the same span and children
\* in arena M.
Keeps(N, D, M, E) ==
  \A t \in D :
    /\ t \in E
    /\ M[t].start_offset = N[t].start_offset
    /\ M[t].end_offset = N[t].end_offset
    /\ M[t].children = N[t].children

\* Children in an arena: indices of nodes, or null.
Kids == Seq(Nat)

\* Children that are done stay in order.
LEMMA TidyKept ==
  ASSUME NEW N, NEW D, NEW M, NEW E, Keeps(N, D, M, E),
         NEW kids, NEW from, NEW to, Tidy(N, D, kids, from, to)
  PROVE  Tidy(M, E, kids, from, to)
<1> SUFFICES ASSUME NEW k \in 1..Len(kids), kids[k] # nullptr
             PROVE  /\ kids[k] \in E
                    /\ from <= M[kids[k]].start_offset
                    /\ M[kids[k]].end_offset <= to
                    /\ \A j \in 1..(k - 1) : kids[j] # nullptr =>
                         M[kids[j]].end_offset <= M[kids[k]].start_offset
  BY DEF Tidy
<1>1. /\ kids[k] \in D
      /\ from <= N[kids[k]].start_offset /\ N[kids[k]].end_offset <= to
      /\ \A j \in 1..(k - 1) : kids[j] # nullptr =>
           N[kids[j]].end_offset <= N[kids[k]].start_offset
  BY DEF Tidy
<1>2. \A j \in 1..(k - 1) : j \in 1..Len(kids)
  <2>1. CASE Len(kids) \in Int
    BY <2>1
  <2>2. CASE Len(kids) \notin Int
    BY <2>2
  <2> QED
    BY <2>1, <2>2
<1>3. \A j \in 1..(k - 1) : kids[j] # nullptr => kids[j] \in D
  BY <1>2 DEF Tidy
<1> QED
  BY <1>1, <1>3 DEF Keeps

\* An answer stays one.
LEMMA AnswerKept ==
  ASSUME NEW N, NEW D, NEW M, NEW E, Keeps(N, D, M, E),
         NEW r, NEW from, NEW to, Answer(N, D, r, from, to)
  PROVE  Answer(M, E, r, from, to)
<1>1. CASE r.tree = nullptr
  BY <1>1 DEF Answer
<1>2. CASE r.tree # nullptr
  <2>1. Spans(N, D, r.tree, from, to)
    BY <1>2 DEF Answer
  <2>2. /\ r.tree \in E /\ M[r.tree].start_offset = from
        /\ M[r.tree].end_offset = to
        /\ M[r.tree].children = N[r.tree].children
    BY <2>1 DEF Spans, Keeps
  <2>3. Tidy(M, E, N[r.tree].children, from, to)
    BY <2>1, TidyKept DEF Spans
  <2> QED
    BY <2>2, <2>3 DEF Answer, Spans
<1> QED
  BY <1>1, <1>2

\* The entries of the memo that a step keeps stay answers.
LEMMA MemoTidyKept ==
  ASSUME NEW N, NEW D, NEW M, NEW E, Keeps(N, D, M, E), NEW m, NEW w,
         MemoTidy(N, D, m),
         \A k \in DOMAIN w :
           \/ k \in DOMAIN m /\ w[k] = m[k]
           \/ w[k] = Absent
           \/ Answer(M, E, w[k].m_cached_result, k[1], w[k].m_last_pos)
  PROVE  MemoTidy(M, E, w)
<1> SUFFICES ASSUME NEW k \in DOMAIN w, w[k] # Absent
             PROVE  Answer(M, E, w[k].m_cached_result, k[1], w[k].m_last_pos)
  BY DEF MemoTidy
<1>1. CASE k \in DOMAIN m /\ w[k] = m[k]
  <2>1. Answer(N, D, w[k].m_cached_result, k[1], w[k].m_last_pos)
    BY <1>1 DEF MemoTidy
  <2> QED
    BY <2>1, AnswerKept
<1> QED
  BY <1>1

\* Room after the last child.
LEMMA TidyUp ==
  ASSUME NEW n \in Nat, NEW N \in Seq(Nodes(n)), NEW D \in SUBSET (1..Len(N)),
         NEW kids, NEW from, NEW to \in Nat, NEW far \in Nat, to <= far,
         Tidy(N, D, kids, from, to)
  PROVE  Tidy(N, D, kids, from, far)
<1>1. \A t \in D : N[t].end_offset \in Nat
  <2> SUFFICES ASSUME NEW t \in D PROVE N[t].end_offset \in Nat
    OBVIOUS
  <2>1. N[t] \in Nodes(n)
    OBVIOUS
  <2>2. N[t].end_offset \in 0..n
    BY <2>1 DEF Nodes
  <2> QED
    BY <2>2
<1>2. \A t \in D : N[t].end_offset <= to => N[t].end_offset <= far
  BY <1>1
<1> QED
  BY <1>2 DEF Tidy

\* A child that matched goes after the others.
LEMMA ChildAdded ==
  ASSUME NEW n \in Nat, NEW N \in Seq(Nodes(n)), NEW D \in SUBSET (1..Len(N)),
         NEW kids \in Kids, NEW from \in Nat, NEW at \in Nat, NEW to \in Nat,
         from <= at, Tidy(N, D, kids, from, at),
         NEW r, r.success, Answer(N, D, r, at, to)
  PROVE  /\ r.tree = nullptr => Tidy(N, D, kids, from, to)
         /\ r.tree # nullptr => Tidy(N, D, Append(kids, r.tree), from, to)
<1>1. at <= to
  BY DEF Answer
<1>2. Tidy(N, D, kids, from, to)
  BY <1>1, TidyUp
<1>3. ASSUME r.tree # nullptr PROVE Tidy(N, D, Append(kids, r.tree), from, to)
  <2> DEFINE all == Append(kids, r.tree)
             n0 == Len(kids)
  <2>1. /\ r.tree \in D /\ N[r.tree].start_offset = at
        /\ N[r.tree].end_offset = to
    BY <1>3 DEF Answer, Spans
  <2>2. /\ n0 \in Nat /\ Len(all) = n0 + 1 /\ all[n0 + 1] = r.tree
        /\ \A k \in 1..n0 : all[k] = kids[k]
    BY DEF Kids
  <2> HIDE DEF all, n0
  <2> SUFFICES ASSUME NEW k \in 1..Len(all), all[k] # nullptr
               PROVE  /\ all[k] \in D
                      /\ from <= N[all[k]].start_offset
                      /\ N[all[k]].end_offset <= to
                      /\ \A j \in 1..(k - 1) : all[j] # nullptr =>
                           N[all[j]].end_offset <= N[all[k]].start_offset
    BY DEF Tidy, all
  <2>3. \A j \in 1..n0 : all[j] # nullptr => N[all[j]].end_offset <= at
    BY <2>2 DEF Tidy, n0
  <2>4. CASE k = n0 + 1
    BY <2>1, <2>2, <2>3, <2>4
  <2>5. CASE k \in 1..n0
    <3>1. \A j \in 1..(k - 1) : j \in 1..n0
      BY <2>2, <2>5
    <3>2. kids[k] = all[k] /\ \A j \in 1..(k - 1) : kids[j] = all[j]
      BY <2>2, <2>5, <3>1
    <3> QED
      BY <1>2, <2>5, <3>2 DEF Tidy, n0
  <2> QED
    BY <2>2, <2>4, <2>5
<1> QED
  BY <1>2, <1>3

-----------------------------------------------------------------------------
(* What each method makes of the cursor, the memo, the left-recursion      *)
(* stack and the arena.                                                    *)

Members ==
  {"m_position", "m_input_size", "m_last_cut", "m_mem", "m_cut", "m_lr_stack",
   "m_growing_head", "m_furthest_failure_pos", "m_expected", "m_has_error",
   "m_diagnostics", "m_skipper", "m_skip_enabled", "m_node_arena"}

\* d is a record of these members, with cursor p, memo m, LR stack l and arena N.
Holds(d, p, m, l, N) ==
  /\ DOMAIN d = Members
  /\ d.m_position = p /\ d.m_mem = m /\ d.m_lr_stack = l
  /\ d.m_node_arena = N

\* The memo w has lost entries of m, and has no other.
Evicted(m, w) ==
  DOMAIN w = DOMAIN m /\ \A k \in DOMAIN m : w[k] \in {m[k], Absent}

\* A Context is such a record.
LEMMA ContextHolds ==
  ASSUME NEW n \in Nat, NEW c \in Contexts(n)
  PROVE  Holds(c, c.m_position, c.m_mem, c.m_lr_stack, c.m_node_arena)
BY DEF Contexts, Holds, Members

\* Methods that write none of the four.
LEMMA HoldsScopes ==
  ASSUME NEW c, NEW p, NEW m, NEW l, NEW N, Holds(c, p, m, l, N)
  PROVE  /\ Holds(init_cut(c), p, m, l, N)
         /\ \A b : Holds(cut(c, b), p, m, l, N)
         /\ \A b : Holds(skip_enabled(c, b), p, m, l, N)
         /\ \A q : Holds(clear_growing_head(c, q), p, m, l, N)
         /\ \A d : Holds(record_diagnostic(c, d), p, m, l, N)
         /\ \A x : Holds(internal_set_skipper(c, x), p, m, l, N)
         /\ \A q, i : Holds(record_failure(c, q, i), p, m, l, N)
         /\ Holds(take_error(c), p, m, l, N)
         /\ Holds(take_diagnostics(c), p, m, l, N)
<1>1. Holds(init_cut(c), p, m, l, N)
  BY DEF Holds, Members, init_cut
<1>2. \A b : Holds(cut(c, b), p, m, l, N)
  BY DEF Holds, Members, cut
<1>3. \A b : Holds(skip_enabled(c, b), p, m, l, N)
  BY DEF Holds, Members, skip_enabled
<1>4. \A q : Holds(clear_growing_head(c, q), p, m, l, N)
  BY DEF Holds, Members, clear_growing_head
<1>5. \A d : Holds(record_diagnostic(c, d), p, m, l, N)
  BY DEF Holds, Members, record_diagnostic
<1>6. \A x : Holds(internal_set_skipper(c, x), p, m, l, N)
  BY DEF Holds, Members, internal_set_skipper
<1>7. \A q, i : Holds(record_failure(c, q, i), p, m, l, N)
  BY DEF Holds, Members, record_failure
<1>8. Holds(take_error(c), p, m, l, N)
  BY DEF Holds, Members, take_error
<1>9. Holds(take_diagnostics(c), p, m, l, N)
  BY DEF Holds, Members, take_diagnostics
<1> QED
  BY <1>1, <1>2, <1>3, <1>4, <1>5, <1>6, <1>7, <1>8, <1>9

\* Methods that write the cursor or the arena.
LEMMA HoldsNodes ==
  ASSUME NEW c, NEW p, NEW m, NEW l, NEW N, Holds(c, p, m, l, N)
  PROVE  /\ \A q : Holds(reset(c, q), q, m, l, N)
         /\ ~ ended(c) => Holds(next(c), p + 1, m, l, N)
         /\ \A x : Holds(make_node(c, x), p, m, l, Append(N, x))
         /\ \A t, x : Holds(edit_node(c, t, x), p, m, l,
                            IF t \in 1..Len(N) THEN [N EXCEPT ![t] = x] ELSE N)
<1>1. \A q : Holds(reset(c, q), q, m, l, N)
  BY DEF Holds, Members, reset
<1>2. ~ ended(c) => Holds(next(c), p + 1, m, l, N)
  BY DEF Holds, Members, next
<1>3. \A x : Holds(make_node(c, x), p, m, l, Append(N, x))
  BY DEF Holds, Members, make_node
<1>4. \A t, x : Holds(edit_node(c, t, x), p, m, l,
                      IF t \in 1..Len(N) THEN [N EXCEPT ![t] = x] ELSE N)
  BY DEF Holds, Members, edit_node
<1> QED
  BY <1>1, <1>2, <1>3, <1>4

\* Methods that edit a node in place.
LEMMA HoldsEdits ==
  ASSUME NEW c, NEW p, NEW m, NEW l, NEW N, Holds(c, p, m, l, N),
         NEW t \in 1..Len(N)
  PROVE  /\ Holds(set_end(c, t), p, m, l,
                  [N EXCEPT ![t] = [N[t] EXCEPT !.end_offset = p]])
         /\ \A k : k # nullptr =>
              Holds(push_child(c, t, k), p, m, l,
                    [N EXCEPT ![t] = [N[t] EXCEPT !.children = Append(@, k)]])
         /\ Holds(push_child(c, t, nullptr), p, m, l, N)
         /\ NodeAt(c, t) = N[t]
<1>1. NodeAt(c, t) = N[t] /\ mark(c) = p
  BY DEF Holds, NodeAt, mark
<1>2. \A x : Holds(edit_node(c, t, x), p, m, l, [N EXCEPT ![t] = x])
  BY HoldsNodes
<1>3. Holds(set_end(c, t), p, m, l,
            [N EXCEPT ![t] = [N[t] EXCEPT !.end_offset = p]])
  BY <1>1, <1>2 DEF set_end
<1>4. \A k : k # nullptr =>
        Holds(push_child(c, t, k), p, m, l,
              [N EXCEPT ![t] = [N[t] EXCEPT !.children = Append(@, k)]])
  BY <1>1, <1>2 DEF push_child
<1>5. Holds(push_child(c, t, nullptr), p, m, l, N)
  BY DEF push_child
<1> QED
  BY <1>1, <1>3, <1>4, <1>5

\* Methods that write the memo or the left-recursion stack.
LEMMA HoldsMemo ==
  ASSUME NEW c, NEW p, NEW m, NEW l, NEW N, Holds(c, p, m, l, N)
  PROVE  /\ \A r, q, x : Holds(update_rule_state(c, r, q, x), p,
              IF m[<<q, r>>] # Absent THEN [m EXCEPT ![<<q, r>>] = x] ELSE m,
              l, N)
         /\ \A r, q : Holds(rule_state(c, r, q), p,
              IF m[<<q, r>>] # Absent THEN m
              ELSE [m EXCEPT ![<<q, r>>] = FreshRuleState], l, N)
         /\ \A q, r : \E w : /\ Evicted(m, w)
                             /\ Holds(clear_siblings_at(c, q, r), p, w, l, N)
         /\ \E w : Evicted(m, w) /\ Holds(remove_cut(c), p, w, l, N)
         /\ \A x : Holds(lr_push(c, x), p, m, Append(l, x), N)
         /\ \A i : Holds(lr_pop(c, i), p, m, SubSeq(l, 1, i - 1), N)
<1>1. \A r, q, x : Holds(update_rule_state(c, r, q, x), p,
        IF m[<<q, r>>] # Absent THEN [m EXCEPT ![<<q, r>>] = x] ELSE m, l, N)
  BY DEF Holds, Members, update_rule_state, HasMemo
<1>2. \A r, q : Holds(rule_state(c, r, q), p,
        IF m[<<q, r>>] # Absent THEN m
        ELSE [m EXCEPT ![<<q, r>>] = FreshRuleState], l, N)
  BY DEF Holds, Members, rule_state, HasMemo
<1>3. ASSUME NEW q, NEW r
      PROVE  \E w : Evicted(m, w) /\ Holds(clear_siblings_at(c, q, r), p, w, l, N)
  <2> DEFINE w == [k \in DOMAIN m |->
                     IF k[1] = q /\ k[2] # r /\ ~ lr_in_progress(c, k[2], q)
                     THEN Absent ELSE m[k]]
  <2>1. Evicted(m, w)
    BY DEF Evicted
  <2>2. clear_siblings_at(c, q, r) = [c EXCEPT !.m_mem = w]
    BY DEF Holds, clear_siblings_at
  <2> HIDE DEF w
  <2>3. Holds(clear_siblings_at(c, q, r), p, w, l, N)
    BY <2>2 DEF Holds, Members
  <2> QED
    BY <2>1, <2>3
<1>4. \E w : Evicted(m, w) /\ Holds(remove_cut(c), p, w, l, N)
  <2>1. CASE ~ IsCut(c)
    <3>1. Holds(remove_cut(c), p, m, l, N)
      BY <2>1 DEF Holds, Members, remove_cut
    <3>2. Evicted(m, m)
      BY DEF Evicted
    <3> QED
      BY <3>1, <3>2
  <2>2. CASE IsCut(c)
    <3> DEFINE top == c.m_cut[Len(c.m_cut)]
               w == [k \in DOMAIN m |-> IF k[1] < top.pos THEN Absent ELSE m[k]]
    <3>1. Evicted(m, w)
      BY DEF Evicted
    <3>2. remove_cut(c) =
            [c EXCEPT !.m_cut = SubSeq(c.m_cut, 1, Len(c.m_cut) - 1),
                      !.m_last_cut = top.pos, !.m_mem = w]
      BY <2>2 DEF Holds, remove_cut
    <3> HIDE DEF w, top
    <3>3. Holds(remove_cut(c), p, w, l, N)
      BY <3>2 DEF Holds, Members
    <3> QED
      BY <3>1, <3>3
  <2> QED
    BY <2>1, <2>2
<1>5. \A x : Holds(lr_push(c, x), p, m, Append(l, x), N)
  BY DEF Holds, Members, lr_push
<1>6. \A i : Holds(lr_pop(c, i), p, m, SubSeq(l, 1, i - 1), N)
  BY DEF Holds, Members, lr_pop
<1> QED
  BY <1>1, <1>2, <1>3, <1>4, <1>5, <1>6

-----------------------------------------------------------------------------
(* The shapes of a step.                                                   *)

Arena == ctx.m_node_arena

\* A step leaves alone the node that the call f is building, and its marker.
Spared(f) ==
  /\ f.kind \in RunsSkipper =>
       /\ f.node \in 1..Len(Arena')
       /\ Arena'[f.node].start_offset = Arena[f.node].start_offset
       /\ Arena'[f.node].children = Arena[f.node].children
  /\ f.kind = "NonTerminal" =>
       ctx'.m_lr_stack[f.lr].last_pos = ctx.m_lr_stack[f.lr].last_pos

\* A step leaves alone what is done and what the n outermost calls build.
Spares(n) ==
  /\ Keeps(Arena, Built(Arena, stack), Arena', Built(Arena', stack'))
  /\ \A k \in 1..n : Spared(stack[k])

MemoStays == MemoTidy(Arena', Built(Arena', stack'), ctx'.m_mem)

\* A call that a step leaves alone stays tidy.
LEMMA SparedTidy ==
  ASSUME NEW f, Spared(f), NEW here, NEW fin,
         Keeps(Arena, Built(Arena, stack), Arena', Built(Arena', stack')),
         FrameTidy(Arena, Built(Arena, stack), ctx.m_lr_stack, f, here, fin)
  PROVE  FrameTidy(Arena', Built(Arena', stack'), ctx'.m_lr_stack, f, here, fin)
<1> DEFINE D == Built(Arena, stack)
           E == Built(Arena', stack')
           end == IF f.kind = "Repetition" THEN f.last ELSE here
<1>1. ASSUME f.kind \in RunsSkipper
      PROVE  /\ f.node \in 1..Len(Arena') /\ Arena'[f.node].start_offset = f.start
             /\ Tidy(Arena', E, Arena'[f.node].children, f.start, end)
  <2>1. Tidy(Arena, D, Arena[f.node].children, f.start, end)
    BY <1>1 DEF FrameTidy
  <2>2. Tidy(Arena', E, Arena[f.node].children, f.start, end)
    BY <2>1, TidyKept
  <2> QED
    BY <1>1, <2>2 DEF FrameTidy, Spared
<1>2. ASSUME f.kind = "NonTerminal"
      PROVE  LET p == ctx'.m_lr_stack[f.lr].last_pos
             IN  /\ f.start <= p /\ f.rs.m_last_pos = p
                 /\ Answer(Arena', E, f.best, f.start, p)
                 /\ here = IF fin THEN p ELSE f.start
  <2>1. ctx'.m_lr_stack[f.lr].last_pos = ctx.m_lr_stack[f.lr].last_pos
    BY <1>2 DEF Spared
  <2>2. Answer(Arena, D, f.best, f.start, ctx.m_lr_stack[f.lr].last_pos)
    BY <1>2 DEF FrameTidy
  <2>3. Answer(Arena', E, f.best, f.start, ctx.m_lr_stack[f.lr].last_pos)
    BY <2>2, AnswerKept
  <2> QED
    BY <1>2, <2>1, <2>3 DEF FrameTidy
<1>3. /\ f.start <= here
      /\ f.kind = "Repetition" => f.start <= f.last /\ f.last <= here
  BY DEF FrameTidy
<1> HIDE DEF D, E
<1> QED
  BY <1>1, <1>2, <1>3 DEF FrameTidy, E

\* The same for any of the n outermost calls.
LEMMA CallersTidy ==
  ASSUME CallsTidy, NEW n \in Nat, n <= Len(stack), Len(stack) \in Nat,
         Spares(n), NEW k \in 1..n
  PROVE  FrameTidy(Arena', Built(Arena', stack'), ctx'.m_lr_stack, stack[k],
                   HereOf(k), k = Len(stack) /\ ctl.mode = "finish")
<1>1. k \in 1..Len(stack)
  OBVIOUS
<1>2. FrameTidy(Arena, Built(Arena, stack), ctx.m_lr_stack, stack[k],
                HereOf(k), k = Len(stack) /\ ctl.mode = "finish")
  BY <1>1 DEF CallsTidy, Arena
<1> QED
  BY <1>2, SparedTidy DEF Spares

\* A parse() that returns at once, without a frame of its own.
LEMMA ReturnsNow ==
  ASSUME Inv, TreeInv, ctl.mode = "call", stack' = stack,
         Spares(Len(stack)), MemoStays,
         ctl'.mode = "return", ctl'.at = mark(ctx),
         Answer(Arena', Built(Arena', stack'), ctl'.res, ctl'.at, mark(ctx'))
  PROVE  TreeInv'
<1>1. Len(stack) \in Nat /\ CallsTidy
  BY Facts DEF StackOK, TreeInv
<1>2. ASSUME NEW k \in 1..Len(stack)
      PROVE  /\ HereOf(k)' = HereOf(k)
             /\ FrameTidy(Arena', Built(Arena', stack'), ctx'.m_lr_stack,
                          stack[k], HereOf(k), FALSE)
  <2>1. HereOf(k)' = HereOf(k)
    BY DEF HereOf, Here
  <2>2. FrameTidy(Arena', Built(Arena', stack'), ctx'.m_lr_stack, stack[k],
                  HereOf(k), k = Len(stack) /\ ctl.mode = "finish")
    BY <1>1, CallersTidy
  <2>3. (k = Len(stack) /\ ctl.mode = "finish") = FALSE
    OBVIOUS
  <2> QED
    BY <2>1, <2>2, <2>3
<1>3. \A k \in 1..Len(stack') :
        FrameTidy(Arena', Built(Arena', stack'), ctx'.m_lr_stack, stack'[k],
                  HereOf(k)', k = Len(stack') /\ ctl'.mode = "finish")
  <2> SUFFICES ASSUME NEW k \in 1..Len(stack)
               PROVE  FrameTidy(Arena', Built(Arena', stack'), ctx'.m_lr_stack,
                        stack[k], HereOf(k)', k = Len(stack) /\ ctl'.mode = "finish")
    OBVIOUS
  <2>1. (k = Len(stack) /\ ctl'.mode = "finish") = FALSE
    OBVIOUS
  <2> QED
    BY <1>2, <2>1
<1>4. CallsTidy'
  BY <1>1, <1>3 DEF CallsTidy, Arena
<1> QED
  BY <1>4 DEF TreeInv, MemoStays, Arena

\* A parse() or run_skipper() that opens a frame.
LEMMA OpensFrame ==
  ASSUME Inv, TreeInv, ctl.mode \in {"call", "skip"}, NEW f,
         stack' = Append(stack, f), f.start = mark(ctx),
         f.kind \in RunsSkipper => f.node = Len(Arena) + 1,
         Spares(Len(stack)), MemoStays,
         ctl'.mode \in {"call", "go"}, mark(ctx') = mark(ctx),
         FrameTidy(Arena', Built(Arena', stack'), ctx'.m_lr_stack, f,
                   mark(ctx), FALSE)
  PROVE  TreeInv'
<1>1. stack \in Seq(Frames) /\ Len(stack) \in Nat /\ CallsTidy
  BY Facts DEF StackOK, TreeInv
<1>2. /\ Len(stack') = Len(stack) + 1 /\ stack'[Len(stack) + 1] = f
      /\ \A k \in 1..Len(stack) : stack'[k] = stack[k]
  BY <1>1
<1>3. ASSUME NEW k \in 1..Len(stack)
      PROVE  FrameTidy(Arena', Built(Arena', stack'), ctx'.m_lr_stack,
                       stack'[k], HereOf(k)', FALSE)
  <2>1. HereOf(k)' = HereOf(k)
    BY <1>1, <1>2 DEF HereOf, Here
  <2>2. FrameTidy(Arena', Built(Arena', stack'), ctx'.m_lr_stack, stack[k],
                  HereOf(k), k = Len(stack) /\ ctl.mode = "finish")
    BY <1>1, CallersTidy
  <2>3. (k = Len(stack) /\ ctl.mode = "finish") = FALSE
    OBVIOUS
  <2> QED
    BY <1>2, <2>1, <2>2, <2>3
<1>4. ASSUME NEW k, k = Len(stack') PROVE HereOf(k)' = mark(ctx)
  <2>1. ~ k < Len(stack')
    BY <1>1, <1>2, <1>4
  <2> QED
    BY <2>1 DEF HereOf, Here
<1>5. ASSUME NEW k \in 1..Len(stack')
      PROVE  FrameTidy(Arena', Built(Arena', stack'), ctx'.m_lr_stack, stack'[k],
                       HereOf(k)', k = Len(stack') /\ ctl'.mode = "finish")
  <2>1. (k = Len(stack') /\ ctl'.mode = "finish") = FALSE
    OBVIOUS
  <2>2. CASE k \in 1..Len(stack)
    BY <1>3, <2>1, <2>2
  <2>3. CASE k = Len(stack')
    <3>1. stack'[k] = f /\ HereOf(k)' = mark(ctx)
      BY <1>2, <1>4, <2>3
    <3> QED
      BY <2>1, <3>1
  <2> QED
    BY <1>1, <1>2, <2>2, <2>3
<1>6. ASSUME NEW j \in 1..Len(stack'), NEW k \in 1..Len(stack'), j # k,
             stack'[j].kind \in RunsSkipper, stack'[k].kind \in RunsSkipper
      PROVE  stack'[j].node # stack'[k].node
  <2>1. \A i \in 1..Len(stack) :
          stack[i].kind \in RunsSkipper => stack[i].node # Len(Arena) + 1
    <3> SUFFICES ASSUME NEW i \in 1..Len(stack), stack[i].kind \in RunsSkipper
                 PROVE  stack[i].node # Len(Arena) + 1
      OBVIOUS
    <3>1. stack[i].node \in 1..Len(Arena)
      BY <1>1 DEF CallsTidy, FrameTidy, Arena
    <3>2. Len(Arena) \in Nat
      BY Facts, FieldTypes DEF ContextOK, Arena
    <3> QED
      BY <3>1, <3>2
  <2>2. CASE j \in 1..Len(stack) /\ k \in 1..Len(stack)
    BY <1>1, <1>2, <1>6, <2>2 DEF CallsTidy
  <2>3. CASE j \in 1..Len(stack) /\ k = Len(stack) + 1
    BY <1>2, <1>6, <2>1, <2>3
  <2>4. CASE k \in 1..Len(stack) /\ j = Len(stack) + 1
    BY <1>2, <1>6, <2>1, <2>4
  <2> QED
    BY <1>1, <1>2, <1>6, <2>2, <2>3, <2>4
<1>7. CallsTidy'
  BY <1>5, <1>6 DEF CallsTidy, Arena
<1> QED
  BY <1>7 DEF TreeInv, MemoStays, Arena

\* What the callers of a frame that is popped or goes on need.
LEMMA CallersStay ==
  ASSUME Inv, TreeInv, ctl.mode # "throw", stack # <<>>,
         NEW m, Len(stack') = Len(stack) - 1 \/ Len(stack') = Len(stack),
         m = Len(stack) - 1,
         \A k \in 1..m : stack'[k] = stack[k],
         Spares(Len(stack) - 1)
  PROVE  /\ m \in Nat /\ Len(stack) \in Nat
         /\ \A k \in 1..m :
              FrameTidy(Arena', Built(Arena', stack'), ctx'.m_lr_stack,
                        stack'[k], stack[k + 1].start, FALSE)
         /\ \A j, k \in 1..m :
              /\ j # k /\ stack'[j].kind \in RunsSkipper
              /\ stack'[k].kind \in RunsSkipper
              => stack'[j].node # stack'[k].node
<1>1. /\ stack \in Seq(Frames) /\ Len(stack) \in Nat /\ CallsTidy
      /\ Len(stack) \in 1..Len(stack)
  BY Facts, Innermost DEF StackOK, TreeInv
<1>2. m \in Nat /\ m <= Len(stack) /\ Spares(m)
  BY <1>1
<1>3. ASSUME NEW k \in 1..m
      PROVE  FrameTidy(Arena', Built(Arena', stack'), ctx'.m_lr_stack,
                       stack'[k], stack[k + 1].start, FALSE)
  <2>1. k < Len(stack)
    BY <1>1
  <2>2. HereOf(k) = stack[k + 1].start
    BY <2>1 DEF HereOf
  <2>3. FrameTidy(Arena', Built(Arena', stack'), ctx'.m_lr_stack, stack[k],
                  HereOf(k), k = Len(stack) /\ ctl.mode = "finish")
    BY <1>1, <1>2, CallersTidy
  <2>4. (k = Len(stack) /\ ctl.mode = "finish") = FALSE
    BY <1>1, <2>1
  <2> QED
    BY <2>2, <2>3, <2>4
<1>4. \A k \in 1..m : k \in 1..Len(stack)
  BY <1>1
<1>5. ASSUME NEW j \in 1..m, NEW k \in 1..m, j # k,
             stack'[j].kind \in RunsSkipper, stack'[k].kind \in RunsSkipper
      PROVE  stack'[j].node # stack'[k].node
  BY <1>1, <1>4, <1>5 DEF CallsTidy
<1> QED
  BY <1>1, <1>2, <1>3, <1>5

\* The innermost call returns to its caller.
LEMMA ClosesFrame ==
  ASSUME Inv, TreeInv, ctl.mode # "throw", stack # <<>>, stack' = Front(stack),
         Spares(Len(stack) - 1), MemoStays,
         ctl'.mode = "return", ctl'.at = Top.start,
         Answer(Arena', Built(Arena', stack'), ctl'.res, ctl'.at, mark(ctx'))
  PROVE  TreeInv'
<1> DEFINE m == Len(stack) - 1
<1>1. /\ Len(stack') = m /\ m \in Nat /\ Len(stack) \in Nat
      /\ \A k \in 1..m : stack'[k] = stack[k]
  BY Facts, FrontFacts, Innermost
<1>2. /\ \A k \in 1..m :
           FrameTidy(Arena', Built(Arena', stack'), ctx'.m_lr_stack,
                     stack'[k], stack[k + 1].start, FALSE)
      /\ \A j, k \in 1..m :
           /\ j # k /\ stack'[j].kind \in RunsSkipper
           /\ stack'[k].kind \in RunsSkipper
           => stack'[j].node # stack'[k].node
  BY <1>1, CallersStay
<1> HIDE DEF m
<1>3. ASSUME NEW k \in 1..m
      PROVE  FrameTidy(Arena', Built(Arena', stack'), ctx'.m_lr_stack,
                       stack'[k], HereOf(k)', k = m /\ ctl'.mode = "finish")
  <2>1. (k = m /\ ctl'.mode = "finish") = FALSE
    OBVIOUS
  <2>2. HereOf(k)' = stack[k + 1].start
    <3>1. CASE k < m
      <4>1. k + 1 \in 1..m
        BY <1>1, <3>1
      <4> QED
        BY <1>1, <3>1, <4>1 DEF HereOf
    <3>2. CASE ~ k < m
      <4>1. k + 1 = Len(stack)
        BY <1>1, <3>2 DEF m
      <4> QED
        BY <1>1, <3>2, <4>1 DEF HereOf, Here, Top
    <3> QED
      BY <3>1, <3>2
  <2> QED
    BY <1>2, <2>1, <2>2
<1>4. CallsTidy'
  BY <1>1, <1>2, <1>3 DEF CallsTidy, Arena
<1> QED
  BY <1>4 DEF TreeInv, MemoStays, Arena

\* The innermost call goes on, as f.
LEMMA GoesOn ==
  ASSUME Inv, TreeInv, ctl.mode # "throw", stack # <<>>, NEW f,
         stack' = [stack EXCEPT ![Len(stack)] = f],
         f.kind = Top.kind, f.start = Top.start, f.node = Top.node,
         Spares(Len(stack) - 1), MemoStays,
         ctl'.mode \in {"call", "skip", "go", "finish"},
         FrameTidy(Arena', Built(Arena', stack'), ctx'.m_lr_stack, f,
                   mark(ctx'), ctl'.mode = "finish")
  PROVE  TreeInv'
<1> DEFINE m == Len(stack) - 1
<1>1. /\ Len(stack') = Len(stack) /\ Len(stack) = m + 1 /\ m \in Nat
      /\ stack'[m + 1] = f /\ \A k \in 1..m : stack'[k] = stack[k]
      /\ m = Len(stack) - 1
  <2>1. stack \in Seq(Frames) /\ Len(stack) \in Nat /\ Len(stack) \in 1..Len(stack)
    BY Facts, Innermost DEF StackOK
  <2> QED
    BY <2>1
<1>7. \A j, k \in 1..Len(stack) :
        /\ j # k /\ stack[j].kind \in RunsSkipper
        /\ stack[k].kind \in RunsSkipper
        => stack[j].node # stack[k].node
  BY DEF TreeInv, CallsTidy
<1>2. /\ \A k \in 1..m :
           FrameTidy(Arena', Built(Arena', stack'), ctx'.m_lr_stack,
                     stack'[k], stack[k + 1].start, FALSE)
      /\ \A j, k \in 1..m :
           /\ j # k /\ stack'[j].kind \in RunsSkipper
           /\ stack'[k].kind \in RunsSkipper
           => stack'[j].node # stack'[k].node
  BY <1>1, CallersStay
<1> HIDE DEF m
<1>3. \A k \in 1..(m + 1) : stack'[k].start = stack[k].start
                            /\ stack'[k].kind = stack[k].kind
                            /\ stack'[k].node = stack[k].node
  <2>1. stack[m + 1] = Top
    BY <1>1 DEF Top
  <2> SUFFICES ASSUME NEW k \in 1..(m + 1)
               PROVE  /\ stack'[k].start = stack[k].start
                      /\ stack'[k].kind = stack[k].kind
                      /\ stack'[k].node = stack[k].node
    OBVIOUS
  <2>2. CASE k = m + 1
    BY <1>1, <2>1, <2>2
  <2>3. CASE k \in 1..m
    BY <1>1, <2>3
  <2> QED
    BY <1>1, <2>2, <2>3
<1>4. ASSUME NEW k \in 1..(m + 1)
      PROVE  FrameTidy(Arena', Built(Arena', stack'), ctx'.m_lr_stack,
                       stack'[k], HereOf(k)',
                       k = m + 1 /\ ctl'.mode = "finish")
  <2>1. CASE k = m + 1
    <3>1. HereOf(k)' = mark(ctx')
      <4>1. ~ k < Len(stack')
        BY <1>1, <2>1
      <4> QED
        BY <4>1 DEF HereOf, Here
    <3>2. (k = m + 1 /\ ctl'.mode = "finish") = (ctl'.mode = "finish")
      BY <2>1
    <3> QED
      BY <1>1, <2>1, <3>1, <3>2
  <2>2. CASE k \in 1..m
    <3>1. k < m + 1 /\ k + 1 \in 1..(m + 1)
      BY <1>1, <2>2
    <3>2. HereOf(k)' = stack[k + 1].start
      BY <1>1, <1>3, <3>1 DEF HereOf
    <3>3. (k = m + 1 /\ ctl'.mode = "finish") = FALSE
      BY <1>1, <3>1
    <3> QED
      BY <1>2, <2>2, <3>2, <3>3
  <2> QED
    BY <1>1, <2>1, <2>2
<1>5. ASSUME NEW j \in 1..Len(stack'), NEW k \in 1..Len(stack'), j # k,
             stack'[j].kind \in RunsSkipper, stack'[k].kind \in RunsSkipper
      PROVE  stack'[j].node # stack'[k].node
  <2>1. /\ stack[j].kind \in RunsSkipper /\ stack[k].kind \in RunsSkipper
        /\ stack'[j].node = stack[j].node /\ stack'[k].node = stack[k].node
    BY <1>1, <1>3, <1>5
  <2> QED
    <3>1. j \in 1..Len(stack) /\ k \in 1..Len(stack)
      BY <1>1
    <3> QED
      BY <1>5, <1>7, <2>1, <3>1
<1>8. \A k \in 1..Len(stack') :
        FrameTidy(Arena', Built(Arena', stack'), ctx'.m_lr_stack, stack'[k],
                  HereOf(k)', k = Len(stack') /\ ctl'.mode = "finish")
  <2>1. Len(stack') = m + 1
    BY <1>1
  <2> QED
    BY <1>4, <2>1
<1>6. CallsTidy'
  BY <1>8, <1>5 DEF CallsTidy, Arena
<1> QED
  BY <1>6 DEF TreeInv, MemoStays, Arena

\* The skipper is over, and its caller goes on from where it got to.
LEMMA SkipperGone ==
  ASSUME Inv, TreeInv, ctl.mode # "throw", stack # <<>>, stack' = Front(stack),
         Top.kind = "Skipper", Spares(Len(stack) - 1), MemoStays,
         Inv', UNCHANGED setup,
         ctl'.mode = "go", Top.start <= mark(ctx')
  PROVE  TreeInv'
<1> DEFINE m == Len(stack) - 1
<1>1. /\ Len(stack') = m /\ m \in Nat /\ Len(stack) = m + 1
      /\ \A k \in 1..m : stack'[k] = stack[k]
  BY Facts, FrontFacts, Innermost
<1>2. /\ \A k \in 1..m :
           FrameTidy(Arena', Built(Arena', stack'), ctx'.m_lr_stack,
                     stack'[k], stack[k + 1].start, FALSE)
      /\ \A j, k \in 1..m :
           /\ j # k /\ stack'[j].kind \in RunsSkipper
           /\ stack'[k].kind \in RunsSkipper
           => stack'[j].node # stack'[k].node
  BY <1>1, CallersStay
<1>3. /\ Len(stack) > 1 => stack[m].kind \in RunsSkipper
      /\ Top = stack[m + 1]
  <2>1. EntryOK(stack, Len(stack)) /\ Top = stack[Len(stack)]
    BY TopOKFacts, Innermost DEF CallOK
  <2> QED
    BY <1>1, <2>1 DEF EntryOK
<1>4. /\ Arena' \in Seq(Nodes(Len(input))) /\ Len(input) \in Nat
      /\ mark(ctx') \in Nat /\ Top.start \in Nat
  <2>1. input' = input
    BY DEF setup
  <2>2. Len(input) \in Nat /\ ctx' \in Contexts(Len(input)) /\ Top \in Frames
    BY <2>1, Facts, Innermost DEF Inv, TypeOK
  <2>3. ctx'.m_position \in 0..Len(input) /\ Top.start \in 0..Len(input)
        /\ Arena' \in Seq(Nodes(Len(input)))
    BY <2>2, FieldTypes, FrameTypes DEF Arena
  <2> QED
    BY <2>2, <2>3 DEF mark
<1> HIDE DEF m
<1>5. ASSUME NEW k \in 1..m
      PROVE  FrameTidy(Arena', Built(Arena', stack'), ctx'.m_lr_stack,
                       stack'[k], HereOf(k)', k = m /\ ctl'.mode = "finish")
  <2>1. (k = m /\ ctl'.mode = "finish") = FALSE
    OBVIOUS
  <2>2. CASE k < m
    <3>1. HereOf(k)' = stack[k + 1].start
      <4>1. k + 1 \in 1..m
        BY <1>1, <2>2
      <4> QED
        BY <1>1, <2>2, <4>1 DEF HereOf
    <3> QED
      BY <1>2, <2>1, <3>1
  <2>3. CASE ~ k < m
    <3>1. k = m /\ stack'[m] = stack[m] /\ m > 0
      BY <1>1, <2>3
    <3>2. HereOf(k)' = mark(ctx') /\ stack[m].kind \in RunsSkipper
      BY <1>1, <1>3, <2>3, <3>1 DEF HereOf, Here, m
    <3> DEFINE f == stack[m]
               E == Built(Arena', stack')
    <3>3. FrameTidy(Arena', E, ctx'.m_lr_stack, f, Top.start, FALSE)
      BY <1>2, <1>3, <3>1
    <3>4. E \in SUBSET (1..Len(Arena'))
      BY DEF Built
    <3> HIDE DEF f, E
    <3>5. f.kind # "Repetition" =>
            Tidy(Arena', E, Arena'[f.node].children, f.start, mark(ctx'))
      <4> SUFFICES ASSUME f.kind # "Repetition"
                   PROVE  Tidy(Arena', E, Arena'[f.node].children, f.start,
                               mark(ctx'))
        OBVIOUS
      <4>1. Tidy(Arena', E, Arena'[f.node].children, f.start, Top.start)
        BY <3>2, <3>3 DEF FrameTidy, f
      <4>2. \A kids, from :
              Tidy(Arena', E, kids, from, Top.start) =>
                Tidy(Arena', E, kids, from, mark(ctx'))
        BY <1>4, <3>4, TidyUp
      <4> QED
        BY <4>1, <4>2
    <3>6. f.start \in Nat /\ (f.kind = "Repetition" => f.last \in Nat)
      <4>1. m \in 1..Len(stack) /\ stack \in Seq(Frames)
        BY <1>1, <3>1, Facts DEF StackOK
      <4>2. f \in Frames
        BY <4>1 DEF f
      <4> QED
        BY <4>2, FrameTypes, Facts
    <3>7. f.kind \in {"Sequence", "Repetition"}
      BY <3>2 DEF f, RunsSkipper
    <3>8. FrameTidy(Arena', E, ctx'.m_lr_stack, f, mark(ctx'), FALSE)
      BY <1>4, <3>3, <3>5, <3>6, <3>7 DEF FrameTidy
    <3> QED
      BY <2>1, <3>1, <3>2, <3>8 DEF f, E
  <2> QED
    BY <2>2, <2>3
<1>6. CallsTidy'
  BY <1>1, <1>2, <1>5 DEF CallsTidy, Arena
<1> QED
  BY <1>6 DEF TreeInv, MemoStays, Arena

\* A ParseError on its way leaves only the memo to keep.
LEMMA ThrownTidy ==
  ASSUME MemoStays, ctl'.mode = "throw"
  PROVE  TreeInv'
BY DEF TreeInv, MemoStays, Arena

\* No call of the engine is active.
LEMMA OutsideTidy ==
  ASSUME MemoStays, stack' = <<>>, ctl'.mode # "return"
  PROVE  TreeInv'
<1>1. CallsTidy'
  BY DEF CallsTidy
<1> QED
  BY <1>1 DEF TreeInv, MemoStays, Arena

-----------------------------------------------------------------------------
(* What leaves calls and memo alone.                                       *)

\* M has the nodes of N, with the same spans and children outside X.
SameNodes(N, M, X) ==
  /\ Len(N) <= Len(M)
  /\ \A t \in 1..Len(N) : t \notin X =>
       /\ M[t].start_offset = N[t].start_offset
       /\ M[t].end_offset = N[t].end_offset
       /\ M[t].children = N[t].children

\* The calls of stack' build no node but those of stack and a new one.
BuildsNoOther ==
  \A t \in Building(stack') : t \in Building(stack) \/ t = Len(Arena) + 1

\* The node that the innermost call is building.
TopNodes == IF Top.kind \in RunsSkipper THEN {Top.node} ELSE {}

\* The arena of a Context is a sequence of nodes.
LEMMA ArenaTyped ==
  ASSUME Inv
  PROVE  /\ Arena \in Seq(Nodes(Len(input))) /\ Len(Arena) \in Nat
         /\ Len(input) \in Nat /\ ctx \in Contexts(Len(input))
<1>1. Len(input) \in Nat /\ ctx \in Contexts(Len(input))
  BY Facts DEF ContextOK
<1>2. Arena \in Seq(Nodes(Len(input)))
  BY <1>1, FieldTypes DEF Arena
<1> QED
  BY <1>1, <1>2

\* Nodes outside X, a set of nodes under construction, are kept.
LEMMA NodesKept ==
  ASSUME Inv, NEW X, X \subseteq Building(stack), Len(Arena') \in Nat,
         SameNodes(Arena, Arena', X), BuildsNoOther
  PROVE  Keeps(Arena, Built(Arena, stack), Arena', Built(Arena', stack'))
<1> SUFFICES ASSUME NEW t \in Built(Arena, stack)
             PROVE  /\ t \in Built(Arena', stack')
                    /\ Arena'[t].start_offset = Arena[t].start_offset
                    /\ Arena'[t].end_offset = Arena[t].end_offset
                    /\ Arena'[t].children = Arena[t].children
  BY DEF Keeps
<1>1. t \in 1..Len(Arena) /\ t \notin Building(stack) /\ Len(Arena) \in Nat
  BY ArenaTyped DEF Built
<1>2. t \in 1..Len(Arena') /\ t # Len(Arena) + 1
  BY <1>1 DEF SameNodes
<1>3. t \notin Building(stack')
  BY <1>1, <1>2 DEF BuildsNoOther
<1> QED
  BY <1>1, <1>2, <1>3 DEF SameNodes, Built

\* Nothing that was there is touched: all calls are spared.
LEMMA SparesAll ==
  ASSUME Inv, CallsTidy, Len(Arena') \in Nat,
         SameNodes(Arena, Arena', {}), BuildsNoOther,
         \A j \in 1..Len(ctx.m_lr_stack) :
           ctx'.m_lr_stack[j].last_pos = ctx.m_lr_stack[j].last_pos
  PROVE  Spares(Len(stack))
<1>1. Keeps(Arena, Built(Arena, stack), Arena', Built(Arena', stack'))
  BY NodesKept
<1>2. ASSUME NEW k \in 1..Len(stack) PROVE Spared(stack[k])
  <2>1. ASSUME stack[k].kind \in RunsSkipper
        PROVE  stack[k].node \in 1..Len(Arena)
    BY <2>1 DEF CallsTidy, FrameTidy, Arena
  <2>2. \A t \in 1..Len(Arena) : t \in 1..Len(Arena')
    BY ArenaTyped DEF SameNodes
  <2>3. ASSUME stack[k].kind = "NonTerminal"
        PROVE  stack[k].lr \in 1..Len(ctx.m_lr_stack)
    BY <2>3, Facts DEF StackOK, CallOK, RuleFrameOK
  <2> QED
    BY <2>1, <2>2, <2>3 DEF Spared, SameNodes
<1> QED
  BY <1>1, <1>2 DEF Spares

\* Only the innermost call's node and the markers from its own on are
\* touched: its callers are spared.
LEMMA SparesCallers ==
  ASSUME Inv, CallsTidy, stack # <<>>, Len(Arena') \in Nat,
         SameNodes(Arena, Arena', TopNodes), BuildsNoOther,
         \A j \in 1..Len(ctx.m_lr_stack) :
           \/ Top.kind = "NonTerminal" /\ j >= Top.lr
           \/ ctx'.m_lr_stack[j].last_pos = ctx.m_lr_stack[j].last_pos
  PROVE  Spares(Len(stack) - 1)
<1> DEFINE m == Len(stack) - 1
<1>1. /\ Len(stack) \in Nat /\ Len(stack) \in 1..Len(stack)
      /\ m \in Nat /\ Len(stack) = m + 1 /\ Top = stack[Len(stack)]
  BY Facts, Innermost DEF StackOK, Top
<1> HIDE DEF m
<1>2. TopNodes \subseteq Building(stack)
  BY <1>1 DEF TopNodes, Building
<1>3. Keeps(Arena, Built(Arena, stack), Arena', Built(Arena', stack'))
  BY <1>2, NodesKept
<1>4. ASSUME NEW k \in 1..m PROVE Spared(stack[k])
  <2>1. k \in 1..Len(stack) /\ k # Len(stack) /\ k \in 1..(Len(stack) - 1)
    BY <1>1
  <2>2. ASSUME stack[k].kind \in RunsSkipper
        PROVE  stack[k].node \in 1..Len(Arena) /\ stack[k].node \notin TopNodes
    <3>1. stack[k].node \in 1..Len(Arena)
      BY <2>1, <2>2 DEF CallsTidy, FrameTidy, Arena
    <3>2. Top.kind \in RunsSkipper => stack[k].node # Top.node
      BY <1>1, <2>1, <2>2 DEF CallsTidy
    <3> QED
      BY <3>1, <3>2 DEF TopNodes
  <2>3. \A t \in 1..Len(Arena) : t \in 1..Len(Arena')
    BY ArenaTyped DEF SameNodes
  <2>4. ASSUME stack[k].kind = "NonTerminal"
        PROVE  /\ stack[k].lr \in 1..Len(ctx.m_lr_stack)
               /\ ~ (Top.kind = "NonTerminal" /\ stack[k].lr >= Top.lr)
    <3>1. /\ RuleFrameOK(stack, ctx.m_lr_stack, k)
          /\ RuleFrameOK(stack, ctx.m_lr_stack, Len(stack))
      BY <1>1, <2>1, Facts DEF StackOK, CallOK
    <3>2. stack[k].lr \in 1..Len(ctx.m_lr_stack)
      BY <2>4, <3>1 DEF RuleFrameOK
    <3>3. ASSUME Top.kind = "NonTerminal" PROVE stack[k].lr < Top.lr /\ Top.lr \in Nat
      <4>1. Top.lr \in 1..Len(ctx.m_lr_stack) /\ Len(ctx.m_lr_stack) \in Nat
        BY <1>1, <3>1, <3>3, Facts DEF RuleFrameOK
      <4>2. stack[k].lr < Top.lr
        BY <1>1, <2>1, <2>4, <3>1, <3>3 DEF RuleFrameOK
      <4> QED
        BY <4>1, <4>2
    <3> QED
      BY <3>2, <3>3
  <2> QED
    BY <2>2, <2>3, <2>4 DEF Spared, SameNodes
<1> QED
  BY <1>3, <1>4 DEF Spares, m

\* A step that keeps the stack builds no other node.
LEMMA BuildsSame ==
  ASSUME stack' = stack
  PROVE  BuildsNoOther
BY DEF BuildsNoOther, Building

\* A call that opens a frame builds the node it has just made.
LEMMA BuildsPushed ==
  ASSUME Inv, NEW f, stack' = Append(stack, f),
         f.kind \in RunsSkipper => f.node = Len(Arena) + 1
  PROVE  BuildsNoOther
<1>1. stack \in Seq(Frames) /\ Len(stack) \in Nat
  BY Facts DEF StackOK
<1>2. /\ Len(stack') = Len(stack) + 1 /\ stack'[Len(stack) + 1] = f
      /\ \A k \in 1..Len(stack) : stack'[k] = stack[k]
  BY <1>1
<1>3. ASSUME NEW k \in 1..Len(stack'), stack'[k].kind \in RunsSkipper
      PROVE  stack'[k].node \in Building(stack) \/ stack'[k].node = Len(Arena) + 1
  <2>1. CASE k \in 1..Len(stack)
    BY <1>2, <1>3, <2>1 DEF Building
  <2>2. CASE k = Len(stack) + 1
    BY <1>2, <1>3, <2>2
  <2> QED
    BY <1>1, <1>2, <2>1, <2>2
<1> QED
  BY <1>3 DEF BuildsNoOther, Building

\* A call that returns, or that a ParseError leaves, builds no node any more.
LEMMA BuildsPopped ==
  ASSUME Inv, stack # <<>>, stack' = Front(stack)
  PROVE  BuildsNoOther
<1>1. /\ Len(stack') = Len(stack) - 1 /\ Len(stack) \in Nat
      /\ \A k \in 1..(Len(stack) - 1) : stack'[k] = stack[k]
  BY Facts, FrontFacts, Innermost
<1>2. ASSUME NEW k \in 1..Len(stack'), stack'[k].kind \in RunsSkipper
      PROVE  stack'[k].node \in Building(stack)
  <2>1. k \in 1..Len(stack) /\ stack'[k] = stack[k]
    BY <1>1
  <2> QED
    BY <1>2, <2>1 DEF Building
<1> QED
  BY <1>2 DEF BuildsNoOther, Building

\* A call that goes on builds the node it was building.
LEMMA BuildsEdited ==
  ASSUME Inv, stack # <<>>, NEW f, stack' = [stack EXCEPT ![Len(stack)] = f],
         f.kind = Top.kind, f.node = Top.node
  PROVE  BuildsNoOther
<1>1. /\ stack \in Seq(Frames) /\ Len(stack) \in Nat
      /\ Len(stack) \in 1..Len(stack) /\ Top = stack[Len(stack)]
  BY Facts, Innermost DEF StackOK, Top
<1>2. /\ Len(stack') = Len(stack) /\ stack'[Len(stack)] = f
      /\ \A k \in 1..Len(stack) : k # Len(stack) => stack'[k] = stack[k]
  BY <1>1
<1>3. ASSUME NEW k \in 1..Len(stack'), stack'[k].kind \in RunsSkipper
      PROVE  stack'[k].node \in Building(stack)
  <2>1. k \in 1..Len(stack) /\ stack[k].kind = stack'[k].kind
        /\ stack[k].node = stack'[k].node
    BY <1>1, <1>2
  <2> QED
    BY <1>3, <2>1 DEF Building
<1> QED
  BY <1>3 DEF BuildsNoOther, Building

\* The memo keeps only answers that were there: eviction.
LEMMA MemoEvicted ==
  ASSUME Inv, TreeInv, Evicted(ctx.m_mem, ctx'.m_mem),
         Keeps(Arena, Built(Arena, stack), Arena', Built(Arena', stack'))
  PROVE  MemoStays
<1>1. MemoTidy(Arena, Built(Arena, stack), ctx.m_mem)
  BY DEF TreeInv, Arena
<1>2. \A k \in DOMAIN ctx'.m_mem :
        \/ k \in DOMAIN ctx.m_mem /\ ctx'.m_mem[k] = ctx.m_mem[k]
        \/ ctx'.m_mem[k] = Absent
        \/ Answer(Arena', Built(Arena', stack'), ctx'.m_mem[k].m_cached_result,
                  k[1], ctx'.m_mem[k].m_last_pos)
  BY DEF Evicted
<1> QED
  BY <1>1, <1>2, MemoTidyKept DEF MemoStays

\* The memo keeps answers that were there and gets one new one, for the rule
\* r at p.
LEMMA MemoAnswered ==
  ASSUME Inv, TreeInv, NEW p, NEW r, NEW x,
         Answer(Arena', Built(Arena', stack'), x.m_cached_result, p, x.m_last_pos),
         \A k \in DOMAIN ctx'.m_mem :
           \/ k \in DOMAIN ctx.m_mem /\ ctx'.m_mem[k] = ctx.m_mem[k]
           \/ ctx'.m_mem[k] = Absent
           \/ k = <<p, r>> /\ ctx'.m_mem[k] = x,
         Keeps(Arena, Built(Arena, stack), Arena', Built(Arena', stack'))
  PROVE  MemoStays
<1>1. MemoTidy(Arena, Built(Arena, stack), ctx.m_mem)
  BY DEF TreeInv, Arena
<1>2. <<p, r>>[1] = p
  OBVIOUS
<1>3. \A k \in DOMAIN ctx'.m_mem :
        \/ k \in DOMAIN ctx.m_mem /\ ctx'.m_mem[k] = ctx.m_mem[k]
        \/ ctx'.m_mem[k] = Absent
        \/ Answer(Arena', Built(Arena', stack'), ctx'.m_mem[k].m_cached_result,
                  k[1], ctx'.m_mem[k].m_last_pos)
  BY <1>2
<1> QED
  BY <1>1, <1>3, MemoTidyKept DEF MemoStays

\* The arena as it was, or with a node on top.
GrownArena == Arena' = Arena \/ \E x : Arena' = Append(Arena, x)

\* make_node leaves the nodes that are there alone.
LEMMA GrownNodes ==
  ASSUME Inv, GrownArena
  PROVE  Len(Arena') \in Nat /\ \A X : SameNodes(Arena, Arena', X)
<1>1. Arena \in Seq(Nodes(Len(input))) /\ Len(Arena) \in Nat
  BY ArenaTyped
<1>2. CASE Arena' = Arena
  BY <1>1, <1>2 DEF SameNodes
<1>3. ASSUME NEW x, Arena' = Append(Arena, x)
      PROVE  Len(Arena') \in Nat /\ \A X : SameNodes(Arena, Arena', X)
  <2>1. Len(Arena') = Len(Arena) + 1 /\ \A t \in 1..Len(Arena) : Arena'[t] = Arena[t]
    BY <1>1, <1>3
  <2> QED
    BY <1>1, <2>1 DEF SameNodes
<1> QED
  BY <1>2, <1>3 DEF GrownArena

\* A step that moves the cursor, grows the arena and evicts entries at most.
LEMMA Quietly ==
  ASSUME Inv, TreeInv, BuildsNoOther, ctl.mode # "throw",
         NEW q, NEW w, NEW N, Holds(ctx', q, w, ctx.m_lr_stack, N),
         Evicted(ctx.m_mem, w), N = Arena \/ \E x : N = Append(Arena, x)
  PROVE  /\ Spares(Len(stack)) /\ MemoStays
         /\ mark(ctx') = q /\ Arena' = N
<1>1. /\ mark(ctx') = q /\ Arena' = N /\ ctx'.m_mem = w
      /\ ctx'.m_lr_stack = ctx.m_lr_stack
  BY DEF Holds, mark, Arena
<1>2. Len(Arena') \in Nat /\ SameNodes(Arena, Arena', {})
  BY <1>1, GrownNodes DEF GrownArena
<1>3. CallsTidy
  BY DEF TreeInv
<1>4. Spares(Len(stack))
  BY <1>1, <1>2, <1>3, SparesAll
<1>5. MemoStays
  BY <1>1, <1>4, MemoEvicted DEF Spares
<1> QED
  BY <1>1, <1>4, <1>5

\* Nothing is evicted by keeping the memo.
LEMMA NoneEvicted == \A m : Evicted(m, m)
BY DEF Evicted

\* A new node without children that no call is building is an answer.
LEMMA NewLeaf ==
  ASSUME Inv, CallsTidy, NEW from, NEW to, from <= to, stack' = stack,
         NEW N, N = Append(Arena, EmptyNode(from, to)), Arena' = N
  PROVE  Answer(Arena', Built(Arena', stack'), Matched(Len(Arena) + 1), from, to)
<1>1. Arena \in Seq(Nodes(Len(input))) /\ Len(Arena) \in Nat
  BY ArenaTyped
<1>2. Len(N) = Len(Arena) + 1 /\ N[Len(Arena) + 1] = EmptyNode(from, to)
  BY <1>1
<1>3. Len(Arena) + 1 \notin Building(stack)
  <2>1. \A k \in 1..Len(stack) : stack[k].kind \in RunsSkipper =>
          stack[k].node \in 1..Len(Arena)
    BY DEF CallsTidy, FrameTidy, Arena
  <2> QED
    BY <1>1, <2>1 DEF Building
<1>4. Len(Arena) + 1 \in Built(N, stack')
  BY <1>1, <1>2, <1>3 DEF Built
<1>5. /\ EmptyNode(from, to).start_offset = from
      /\ EmptyNode(from, to).end_offset = to
      /\ EmptyNode(from, to).children = <<>>
  BY DEF EmptyNode
<1>6. \A M, D : Tidy(M, D, <<>>, from, to)
  BY DEF Tidy
<1>7. Spans(N, Built(N, stack'), Len(Arena) + 1, from, to)
  BY <1>2, <1>4, <1>5, <1>6 DEF Spans
<1> QED
  BY <1>7 DEF Answer, Matched

\* An answer without a tree.
LEMMA NoTree ==
  \A N, D, from, to :
    /\ Answer(N, D, Failed, from, to)
    /\ from <= to => Answer(N, D, Matched(nullptr), from, to)
BY DEF Answer, Failed, Matched

\* Leaf expressions: what they return, they have just made.
LEMMA LeafTree == Inv /\ TreeInv /\ LeafStep => TreeInv'
<1> SUFFICES ASSUME Inv, TreeInv, LeafStep PROVE TreeInv'
  OBVIOUS
<1>1. ctl.mode = "call" /\ stack' = stack
  BY DEF LeafStep, TerminalMatch, TokenMatch, SingleFail, TerminalSeqMatch,
         TerminalSeqFail, MatcherMatch, MatcherFail, Empty, Cut, Calling, Leaf
<1> DEFINE p == mark(ctx)
<1>2. /\ Holds(ctx, p, ctx.m_mem, ctx.m_lr_stack, Arena)
      /\ p \in Nat /\ Len(input) \in Nat /\ p \in 0..Len(input)
  BY ArenaTyped, ContextHolds, Facts DEF Arena, mark
<1>3. ASSUME NEW q, NEW N, NEW r, Return(r, p),
             Holds(ctx', q, ctx.m_mem, ctx.m_lr_stack, N),
             \/ N = Arena /\ r = Failed
             \/ N = Arena /\ r = Matched(nullptr) /\ p <= q
             \/ /\ p <= q /\ N = Append(Arena, EmptyNode(p, q))
                /\ r = Matched(Len(Arena) + 1)
      PROVE  TreeInv'
  <2>1. BuildsNoOther /\ CallsTidy
    BY <1>1, BuildsSame DEF TreeInv
  <2>2. Spares(Len(stack)) /\ MemoStays /\ mark(ctx') = q /\ Arena' = N
    BY <1>1, <1>3, <2>1, NoneEvicted, Quietly
  <2>3. Answer(Arena', Built(Arena', stack'), r, p, q)
    BY <1>1, <1>3, <2>1, <2>2, NewLeaf, NoTree
  <2>4. ctl'.mode = "return" /\ ctl'.at = p /\ ctl'.res = r
    BY <1>3, Facts DEF Return, Control
  <2> QED
    BY <1>1, <2>2, <2>3, <2>4, ReturnsNow
<1> HIDE DEF p
<1>13. /\ \A b : Holds(cut(ctx, b), p, ctx.m_mem, ctx.m_lr_stack, Arena)
       /\ \A q, i : Holds(record_failure(ctx, q, i), p, ctx.m_mem,
                          ctx.m_lr_stack, Arena)
  BY <1>2, HoldsScopes
<1>4. CASE TerminalMatch
  <2>1. /\ ~ ended(ctx) /\ ctx' = next(ctx) /\ Return(Matched(nullptr), p)
    BY <1>4 DEF TerminalMatch, ElementHere, p
  <2>2. Holds(ctx', p + 1, ctx.m_mem, ctx.m_lr_stack, Arena)
    BY <1>2, <2>1, HoldsNodes
  <2>3. p <= p + 1
    BY <1>2
  <2> QED
    BY <1>3, <2>1, <2>2, <2>3
<1>5. CASE TokenMatch
  <2>1. /\ ~ ended(ctx) /\ Return(Matched(Len(Arena) + 1), p)
        /\ ctx' = make_node(next(ctx), EmptyNode(p, p + 1))
    BY <1>5 DEF TokenMatch, ElementHere, p, NextNode, Arena
  <2>2. Holds(next(ctx), p + 1, ctx.m_mem, ctx.m_lr_stack, Arena)
    BY <1>2, <2>1, HoldsNodes
  <2>3. Holds(ctx', p + 1, ctx.m_mem, ctx.m_lr_stack,
              Append(Arena, EmptyNode(p, p + 1)))
    BY <2>1, <2>2, HoldsNodes
  <2>4. p <= p + 1
    BY <1>2
  <2> QED
    BY <1>3, <2>1, <2>3, <2>4
<1>6. CASE SingleFail
  <2>1. /\ \E i : ctx' = record_failure(ctx, p, i)
        /\ Return(Failed, p)
    BY <1>6 DEF SingleFail, record_expected, p
  <2>2. Holds(ctx', p, ctx.m_mem, ctx.m_lr_stack, Arena)
    BY <1>13, <2>1
  <2> QED
    BY <1>3, <2>1, <2>2
<1>7. CASE TerminalSeqMatch
  <2>1. /\ ctx' = reset(ctx, p + Len(ctl.e.sym)) /\ Return(Matched(nullptr), p)
    BY <1>7 DEF TerminalSeqMatch, p
  <2>2. Holds(ctx', p + Len(ctl.e.sym), ctx.m_mem, ctx.m_lr_stack, Arena)
    BY <1>2, <2>1, HoldsNodes
  <2>3. Len(ctl.e.sym) \in Nat
    BY <1>7, Facts DEF ExprOK, TerminalSeqMatch, Calling
  <2>4. p <= p + Len(ctl.e.sym)
    BY <1>2, <2>3
  <2> QED
    BY <1>3, <2>1, <2>2, <2>4
<1>8. CASE TerminalSeqFail
  <2>1. /\ \E i : ctx' = record_failure(ctx, p, i)
        /\ Return(Failed, p)
    BY <1>8 DEF TerminalSeqFail, record_expected, p
  <2>2. Holds(ctx', p, ctx.m_mem, ctx.m_lr_stack, Arena)
    BY <1>13, <2>1
  <2> QED
    BY <1>3, <2>1, <2>2
<1>9. CASE MatcherMatch
  <2> DEFINE q == p + Len(ctl.e.sym)
  <2>1. /\ ctx' = make_node(reset(ctx, q), EmptyNode(p, q))
        /\ Return(Matched(Len(Arena) + 1), p)
    BY <1>9 DEF MatcherMatch, p, NextNode, Arena
  <2>2. Len(ctl.e.sym) \in Nat
    BY <1>9, Facts DEF ExprOK, MatcherMatch, Calling
  <2>3. p <= q
    BY <1>2, <2>2
  <2> HIDE DEF q
  <2>4. Holds(reset(ctx, q), q, ctx.m_mem, ctx.m_lr_stack, Arena)
    BY <1>2, HoldsNodes
  <2>5. Holds(ctx', q, ctx.m_mem, ctx.m_lr_stack, Append(Arena, EmptyNode(p, q)))
    BY <2>1, <2>4, HoldsNodes
  <2> QED
    BY <1>3, <2>1, <2>3, <2>5
<1>10. CASE MatcherFail
  BY <1>2, <1>3, <1>10 DEF MatcherFail, p
<1>11. CASE Empty
  BY <1>2, <1>3, <1>11 DEF Empty, p
<1>12. CASE Cut
  <2>1. ctx' = cut(ctx, TRUE) /\ Return(Matched(nullptr), p)
    BY <1>12 DEF Cut, p
  <2>2. Holds(ctx', p, ctx.m_mem, ctx.m_lr_stack, Arena)
    BY <1>13, <2>1
  <2>3. p <= p
    BY <1>2
  <2> QED
    BY <1>3, <2>1, <2>2, <2>3
<1> QED
  BY <1>4, <1>5, <1>6, <1>7, <1>8, <1>9, <1>10, <1>11, <1>12 DEF LeafStep

-----------------------------------------------------------------------------
(* Calls with a frame: what each shape of step comes down to.              *)

\* The innermost call is tidy.
LEMMA TopTidy ==
  ASSUME Inv, TreeInv, stack # <<>>, ctl.mode # "throw"
  PROVE  FrameTidy(Arena, Built(Arena, stack), ctx.m_lr_stack, Top, Here,
                   ctl.mode = "finish")
<1>1. Len(stack) \in 1..Len(stack) /\ Len(stack) \in Nat /\ CallsTidy
  BY Facts, Innermost DEF StackOK, TreeInv
<1>2. ASSUME NEW k, k = Len(stack)
      PROVE  FrameTidy(Arena, Built(Arena, stack), ctx.m_lr_stack, Top, Here,
                       ctl.mode = "finish")
  <2>1. k \in 1..Len(stack) /\ ~ k < Len(stack) /\ stack[k] = Top
    BY <1>1, <1>2 DEF Top
  <2>2. HereOf(k) = Here
    BY <2>1 DEF HereOf
  <2>3. (k = Len(stack) /\ ctl.mode = "finish") = (ctl.mode = "finish")
    BY <1>2
  <2>4. FrameTidy(Arena, Built(Arena, stack), ctx.m_lr_stack, stack[k],
                  HereOf(k), k = Len(stack) /\ ctl.mode = "finish")
    BY <1>1, <2>1 DEF CallsTidy, Arena
  <2> QED
    BY <2>1, <2>2, <2>3, <2>4
<1> QED
  BY <1>2

\* The node that the innermost call built is no caller's.
LEMMA TopDone ==
  ASSUME Inv, TreeInv, stack # <<>>, ctl.mode # "throw",
         Top.kind \in RunsSkipper, stack' = Front(stack)
  PROVE  Top.node \notin Building(stack') /\ Top.node \in 1..Len(Arena)
<1>1. /\ Len(stack') = Len(stack) - 1 /\ Len(stack) \in Nat
      /\ Len(stack) \in 1..Len(stack) /\ Top = stack[Len(stack)]
      /\ \A k \in 1..(Len(stack) - 1) : stack'[k] = stack[k]
  BY Facts, FrontFacts, Innermost DEF Top
<1>2. ASSUME NEW k \in 1..Len(stack'), stack'[k].kind \in RunsSkipper
      PROVE  stack'[k].node # Top.node
  <2>1. k \in 1..Len(stack) /\ k # Len(stack) /\ stack'[k] = stack[k]
    BY <1>1
  <2> QED
    BY <1>1, <1>2, <2>1 DEF TreeInv, CallsTidy
<1>3. Top.node \in 1..Len(Arena)
  BY TopTidy DEF FrameTidy
<1> QED
  BY <1>2, <1>3 DEF Building

\* The innermost call, no rule, returns r.
LEMMA Closing ==
  ASSUME Inv, TreeInv, ctl.mode # "throw", stack # <<>>, Pop,
         NEW r, Return(r, Top.start),
         NEW q, NEW w, NEW N, Holds(ctx', q, w, ctx.m_lr_stack, N),
         Evicted(ctx.m_mem, w), Len(N) \in Nat, SameNodes(Arena, N, TopNodes)
  PROVE  /\ stack' = Front(stack) /\ Arena' = N /\ mark(ctx') = q
         /\ Keeps(Arena, Built(Arena, stack), N, Built(N, stack'))
         /\ Answer(N, Built(N, stack'), r, Top.start, q) => TreeInv'
<1>1. /\ mark(ctx') = q /\ Arena' = N /\ ctx'.m_mem = w
      /\ ctx'.m_lr_stack = ctx.m_lr_stack /\ stack' = Front(stack)
      /\ ctl'.mode = "return" /\ ctl'.res = r /\ ctl'.at = Top.start
  BY Facts DEF Holds, mark, Arena, Pop, Front, Return, Control
<1>2. CallsTidy /\ BuildsNoOther
  BY <1>1, BuildsPopped DEF TreeInv
<1>3. Spares(Len(stack) - 1)
  BY <1>1, <1>2, SparesCallers
<1>4. /\ Keeps(Arena, Built(Arena, stack), N, Built(N, stack'))
      /\ MemoStays
  BY <1>1, <1>3, MemoEvicted DEF Spares
<1>5. Answer(N, Built(N, stack'), r, Top.start, q) => TreeInv'
  BY <1>1, <1>3, <1>4, ClosesFrame
<1> QED
  BY <1>1, <1>4, <1>5

\* A call that is no rule opens the frame f.
LEMMA Opening ==
  ASSUME Inv, TreeInv, ctl.mode \in {"call", "skip"}, NEW f, Push(f),
         f.start = mark(ctx), f.kind # "NonTerminal", NEW N,
         Holds(ctx', mark(ctx), ctx.m_mem, ctx.m_lr_stack, N),
         \/ f.kind \notin RunsSkipper /\ N = Arena
         \/ /\ f.kind \in RunsSkipper /\ f.node = Len(Arena) + 1
            /\ N = Append(Arena, EmptyNode(mark(ctx), 0))
            /\ f.kind = "Repetition" => f.last = mark(ctx),
         ctl'.mode \in {"call", "go"}
  PROVE  TreeInv'
<1>1. stack' = Append(stack, f) /\ CallsTidy /\ mark(ctx) \in Nat
  BY Facts DEF Push, TreeInv
<1>2. BuildsNoOther
  BY <1>1, BuildsPushed
<1>3. N = Arena \/ \E x : N = Append(Arena, x)
  OBVIOUS
<1>4. /\ Spares(Len(stack)) /\ MemoStays /\ mark(ctx') = mark(ctx) /\ Arena' = N
  BY <1>2, <1>3, NoneEvicted, Quietly
<1>5. ASSUME f.kind \in RunsSkipper
      PROVE  /\ f.node \in 1..Len(N) /\ N[f.node].start_offset = mark(ctx)
             /\ N[f.node].children = <<>>
  <2>1. Arena \in Seq(Nodes(Len(input))) /\ Len(Arena) \in Nat
    BY ArenaTyped
  <2>2. Len(N) = Len(Arena) + 1 /\ N[Len(Arena) + 1] = EmptyNode(mark(ctx), 0)
    BY <1>5, <2>1
  <2> QED
    BY <1>5, <2>1, <2>2 DEF EmptyNode
<1>6. \A M, D, from, to : Tidy(M, D, <<>>, from, to)
  BY DEF Tidy
<1>7. mark(ctx) <= mark(ctx)
  BY <1>1
<1>8. FrameTidy(Arena', Built(Arena', stack'), ctx'.m_lr_stack, f, mark(ctx), FALSE)
  BY <1>4, <1>5, <1>6, <1>7 DEF FrameTidy, RunsSkipper
<1> QED
  BY <1>1, <1>4, <1>8, OpensFrame

\* Predicates return no tree, a lexeme the tree of its body.
LEMMA WrapperTree == Inv /\ TreeInv /\ WrapperStep => TreeInv'
<1> SUFFICES ASSUME Inv, TreeInv, WrapperStep PROVE TreeInv'
  OBVIOUS
<1>1. /\ Holds(ctx, mark(ctx), ctx.m_mem, ctx.m_lr_stack, Arena)
      /\ Len(Arena) \in Nat
  BY ArenaTyped, ContextHolds DEF Arena, mark
<1>2. /\ \A b : Holds(skip_enabled(ctx, b), mark(ctx), ctx.m_mem,
                      ctx.m_lr_stack, Arena)
      /\ \A q : Holds(reset(ctx, q), q, ctx.m_mem, ctx.m_lr_stack, Arena)
  BY <1>1, HoldsScopes, HoldsNodes
<1>3. Evicted(ctx.m_mem, ctx.m_mem) /\ SameNodes(Arena, Arena, TopNodes)
  BY <1>1, NoneEvicted DEF SameNodes
<1>4. CASE PredicateEnter
  <2> PICK op \in {"Not", "And"} :
        /\ Calling(op) /\ Push(NewFrame(op, ctl.e)) /\ Call(ctl.e.kids[1])
        /\ UNCHANGED ctx
    BY <1>4 DEF PredicateEnter
  <2> DEFINE f == NewFrame(op, ctl.e)
  <2>1. f.kind \notin RunsSkipper /\ f.kind # "NonTerminal" /\ f.start = mark(ctx)
    BY DEF NewFrame, RunsSkipper
  <2>2. ctl.mode = "call" /\ ctl'.mode = "call" /\ Push(f)
    BY Facts DEF Calling, Call, Control
  <2> HIDE DEF f
  <2> QED
    BY <1>1, <2>1, <2>2, Opening
<1>5. CASE PredicateReturn
  <2> PICK op \in {"Not", "And"} :
        /\ At("return", op) /\ ctx' = reset(ctx, Top.start)
        /\ Return([success |-> (op = "And") <=> ctl.res.success,
                   tree |-> nullptr], Top.start)
        /\ Pop
    BY <1>5 DEF PredicateReturn
  <2> DEFINE r == [success |-> (op = "And") <=> ctl.res.success, tree |-> nullptr]
  <2>1. stack # <<>> /\ ctl.mode # "throw" /\ Return(r, Top.start)
    BY DEF At
  <2>2. r.tree = nullptr
    OBVIOUS
  <2> HIDE DEF r
  <2>3. Top.start <= Top.start
    BY <2>1, TopOKFacts, FrameTypes, Facts
  <2>4. \A N, D : Answer(N, D, r, Top.start, Top.start)
    BY <2>2, <2>3 DEF Answer
  <2>5. Holds(ctx', Top.start, ctx.m_mem, ctx.m_lr_stack, Arena)
    BY <1>2
  <2>6. Answer(Arena, Built(Arena, stack'), r, Top.start, Top.start) => TreeInv'
    BY <1>1, <1>3, <2>1, <2>5, Closing
  <2> QED
    BY <2>4, <2>6
<1>6. CASE LexemeEnter
  <2> DEFINE f == NewFrame("Lexeme", ctl.e)
  <2>1. f.kind \notin RunsSkipper /\ f.kind # "NonTerminal" /\ f.start = mark(ctx)
    BY DEF NewFrame, RunsSkipper
  <2>2. ctl.mode = "call" /\ ctl'.mode = "call" /\ Push(f)
        /\ ctx' = skip_enabled(ctx, FALSE)
    BY <1>6, Facts DEF LexemeEnter, Calling, Call, Control
  <2> HIDE DEF f
  <2>3. Holds(ctx', mark(ctx), ctx.m_mem, ctx.m_lr_stack, Arena)
    BY <1>2, <2>2
  <2> QED
    BY <2>1, <2>2, <2>3, Opening
<1>7. CASE LexemeReturn
  <2>1. /\ stack # <<>> /\ ctl.mode = "return" /\ Return(ctl.res, Top.start)
        /\ Top.kind = "Lexeme" /\ Pop /\ ctx' = skip_enabled(ctx, Top.prev)
    BY <1>7 DEF LexemeReturn, At
  <2>2. ctl.at = Top.start
    BY <2>1, TopOKFacts DEF TopOK, Transparent
  <2>3. Answer(Arena, Built(Arena, stack), ctl.res, Top.start, mark(ctx))
    BY <2>1, <2>2 DEF TreeInv, Arena
  <2>4. Holds(ctx', mark(ctx), ctx.m_mem, ctx.m_lr_stack, Arena)
    BY <1>2, <2>1
  <2>5. /\ Keeps(Arena, Built(Arena, stack), Arena, Built(Arena, stack'))
        /\ Answer(Arena, Built(Arena, stack'), ctl.res, Top.start, mark(ctx))
             => TreeInv'
    BY <1>1, <1>3, <2>1, <2>4, Closing
  <2>6. Answer(Arena, Built(Arena, stack'), ctl.res, Top.start, mark(ctx))
    BY <2>3, <2>5, AnswerKept
  <2> QED
    BY <2>5, <2>6
<1> QED
  BY <1>4, <1>5, <1>6, <1>7 DEF WrapperStep

-----------------------------------------------------------------------------
(* Sequences and alternations.                                             *)

\* The innermost call, no rule, goes on as f.
LEMMA Going ==
  ASSUME Inv, TreeInv, ctl.mode # "throw", stack # <<>>, NEW f,
         stack' = [stack EXCEPT ![Len(stack)] = f],
         f.kind = Top.kind, f.start = Top.start, f.node = Top.node,
         NEW q, NEW N, Holds(ctx', q, ctx.m_mem, ctx.m_lr_stack, N),
         Len(N) \in Nat, SameNodes(Arena, N, TopNodes),
         ctl'.mode \in {"call", "skip", "go"}
  PROVE  /\ Arena' = N /\ mark(ctx') = q
         /\ Keeps(Arena, Built(Arena, stack), N, Built(N, stack'))
         /\ FrameTidy(N, Built(N, stack'), ctx.m_lr_stack, f, q, FALSE) => TreeInv'
<1>1. /\ mark(ctx') = q /\ Arena' = N /\ ctx'.m_mem = ctx.m_mem
      /\ ctx'.m_lr_stack = ctx.m_lr_stack
  BY DEF Holds, mark, Arena
<1>2. CallsTidy /\ BuildsNoOther
  BY BuildsEdited DEF TreeInv
<1>3. Spares(Len(stack) - 1)
  BY <1>1, <1>2, SparesCallers
<1>4. /\ Keeps(Arena, Built(Arena, stack), N, Built(N, stack'))
      /\ MemoStays
  BY <1>1, <1>3, NoneEvicted, MemoEvicted DEF Spares
<1>5. (ctl'.mode = "finish") = FALSE
  OBVIOUS
<1>6. FrameTidy(N, Built(N, stack'), ctx.m_lr_stack, f, q, FALSE) => TreeInv'
  BY <1>1, <1>3, <1>4, <1>5, GoesOn
<1> QED
  BY <1>1, <1>4, <1>6

\* The innermost call as it is.
LEMMA SameTop ==
  ASSUME Inv, stack # <<>>, stack' = stack
  PROVE  stack' = [stack EXCEPT ![Len(stack)] = Top]
<1>1. stack \in Seq(Frames) /\ Len(stack) \in 1..Len(stack)
  BY Facts, Innermost DEF StackOK
<1> QED
  BY <1>1 DEF Top

\* A child that matched is pushed on the node that the call builds.
LEMMA ChildPushed ==
  ASSUME Inv, TreeInv, stack # <<>>, ctl.mode = "return", ctl.res.success,
         Top.kind \in RunsSkipper,
         NEW c, c = push_child(ctx, Top.node, ctl.res.tree),
         NEW N, N = c.m_node_arena
  PROVE  /\ Holds(c, mark(ctx), ctx.m_mem, ctx.m_lr_stack, N)
         /\ N \in Seq(Nodes(Len(input))) /\ Len(N) = Len(Arena)
         /\ SameNodes(Arena, N, TopNodes)
         /\ Top.node \in 1..Len(N) /\ N[Top.node].start_offset = Top.start
         /\ Tidy(Arena, Built(Arena, stack), N[Top.node].children, Top.start,
                 mark(ctx))
         /\ Top.start <= ctl.at /\ ctl.at <= mark(ctx)
<1> DEFINE n == Len(input)
           t == Top.node
           D == Built(Arena, stack)
           kids == Arena[t].children
           r == ctl.res
<1>1. /\ n \in Nat /\ ContextOK(ctx, n) /\ Arena \in Seq(Nodes(n))
      /\ Len(Arena) \in Nat /\ mark(ctx) \in Nat /\ ctl.at \in Nat
      /\ r.tree \in Nat /\ Top.start \in Nat /\ Top.last \in Nat
  BY ArenaTyped, Facts, TopOKFacts, FrameTypes DEF Results
<1>2. /\ Holds(ctx, mark(ctx), ctx.m_mem, ctx.m_lr_stack, Arena)
      /\ Holds(c, mark(ctx), ctx.m_mem, ctx.m_lr_stack, N) => N = c.m_node_arena
  BY <1>1, ContextHolds DEF Arena, mark, ContextOK
<1>3. FrameTidy(Arena, D, ctx.m_lr_stack, Top, ctl.at, FALSE)
  <2>1. Here = ctl.at /\ (ctl.mode = "finish") = FALSE
    BY DEF Here
  <2> QED
    BY <2>1, TopTidy
<1>4. /\ t \in 1..Len(Arena) /\ Arena[t].start_offset = Top.start
      /\ Top.start <= ctl.at
      /\ Tidy(Arena, D, kids, Top.start, ctl.at)
  <2>1. /\ t \in 1..Len(Arena) /\ Arena[t].start_offset = Top.start
        /\ Top.start <= ctl.at
        /\ Tidy(Arena, D, kids, Top.start,
                IF Top.kind = "Repetition" THEN Top.last ELSE ctl.at)
        /\ Top.kind = "Repetition" => Top.last <= ctl.at
    BY <1>3 DEF FrameTidy
  <2>2. D \in SUBSET (1..Len(Arena))
    BY DEF Built
  <2> HIDE DEF D, kids
  <2>3. Top.kind = "Repetition" => Tidy(Arena, D, kids, Top.start, ctl.at)
    <3> SUFFICES ASSUME Top.kind = "Repetition"
                 PROVE  Tidy(Arena, D, kids, Top.start, ctl.at)
      OBVIOUS
    <3>1. Tidy(Arena, D, kids, Top.start, Top.last) /\ Top.last <= ctl.at
      BY <2>1
    <3> QED
      BY <1>1, <2>2, <3>1, TidyUp
  <2> QED
    BY <2>1, <2>3
<1>5. Arena[t] \in Nodes(n)
  BY <1>1, <1>4
<1>6. kids \in Kids
  BY <1>5 DEF Kids, Nodes
<1>7. Answer(Arena, D, r, ctl.at, mark(ctx))
  BY DEF TreeInv, Arena
<1>8. ctl.at <= mark(ctx)
  BY <1>7 DEF Answer
<1>9. D \in SUBSET (1..Len(Arena))
  BY DEF Built
<1> HIDE DEF n, t, D, kids, r
<1>10. /\ r.tree = nullptr => Tidy(Arena, D, kids, Top.start, mark(ctx))
       /\ r.tree # nullptr =>
            Tidy(Arena, D, Append(kids, r.tree), Top.start, mark(ctx))
  <2>1. r.success
    BY DEF r
  <2> QED
    BY <1>1, <1>4, <1>6, <1>7, <1>9, <2>1, ChildAdded
<1>11. CASE r.tree = nullptr
  <2>1. Holds(c, mark(ctx), ctx.m_mem, ctx.m_lr_stack, Arena)
    BY <1>2, <1>4, <1>11, HoldsEdits DEF r, t
  <2>2. N = Arena
    BY <2>1 DEF Holds
  <2>3. SameNodes(Arena, N, TopNodes)
    BY <1>1, <2>2 DEF SameNodes
  <2> QED
    BY <1>1, <1>4, <1>8, <1>10, <1>11, <2>1, <2>2, <2>3 DEF n, t, D, kids
<1>12. CASE r.tree # nullptr
  <2> DEFINE x == [Arena[t] EXCEPT !.children = Append(@, r.tree)]
             M == [Arena EXCEPT ![t] = x]
  <2>1. Holds(c, mark(ctx), ctx.m_mem, ctx.m_lr_stack, M)
    BY <1>2, <1>4, <1>12, HoldsEdits DEF r, t
  <2>2. /\ x.start_offset = Arena[t].start_offset
        /\ x.children = Append(kids, r.tree)
    BY <1>5 DEF Nodes, kids
  <2> HIDE DEF x
  <2>3. /\ Len(M) = Len(Arena) /\ M[t] = x
        /\ \A j \in 1..Len(Arena) : j # t => M[j] = Arena[j]
    BY <1>1, <1>4
  <2>4. N = M
    BY <2>1 DEF Holds
  <2>5. N \in Seq(Nodes(n))
    <3>1. ContextOK(c, n)
      BY <1>1, PushChildOK DEF Kept, r
    <3>2. c \in Contexts(n) /\ n \in Nat
      BY <1>1, <3>1 DEF ContextOK
    <3> HIDE DEF M
    <3>3. c.m_node_arena \in Seq(Nodes(n))
      BY <3>2, FieldTypes
    <3> QED
      BY <3>3
  <2> HIDE DEF M
  <2>6. SameNodes(Arena, N, TopNodes)
    BY <1>1, <2>3, <2>4 DEF SameNodes, TopNodes, t
  <2> QED
    BY <1>1, <1>4, <1>8, <1>10, <1>12, <2>1, <2>2, <2>3, <2>4, <2>5, <2>6
    DEF n, t, D
<1> QED
  BY <1>11, <1>12

\* node->end_offset = context.mark() changes nothing else.
LEMMA EndStamped ==
  ASSUME NEW n \in Nat, NEW c, NEW p, NEW m, NEW l, NEW N \in Seq(Nodes(n)),
         Holds(c, p, m, l, N), NEW t \in 1..Len(N)
  PROVE  \E M : /\ Holds(set_end(c, t), p, m, l, M) /\ Len(M) = Len(N)
                /\ \A j \in 1..Len(N) : j # t => M[j] = N[j]
                /\ M[t].start_offset = N[t].start_offset
                /\ M[t].children = N[t].children /\ M[t].end_offset = p
<1> DEFINE x == [N[t] EXCEPT !.end_offset = p]
           M == [N EXCEPT ![t] = x]
<1>1. Holds(set_end(c, t), p, m, l, M)
  BY HoldsEdits
<1>2. N[t] \in Nodes(n)
  OBVIOUS
<1>3. /\ x.start_offset = N[t].start_offset /\ x.children = N[t].children
      /\ x.end_offset = p
  BY <1>2 DEF Nodes
<1>4. /\ Len(M) = Len(N) /\ M[t] = x
      /\ \A j \in 1..Len(N) : j # t => M[j] = N[j]
  OBVIOUS
<1> HIDE DEF M, x
<1> QED
  BY <1>1, <1>3, <1>4

\* The innermost call returns the node it has built.
LEMMA NodeFinished ==
  ASSUME Inv, TreeInv, ctl.mode # "throw", stack # <<>>, Pop,
         Top.kind \in RunsSkipper, Return(Matched(Top.node), Top.start),
         NEW q, NEW w, NEW N, Holds(ctx', q, w, ctx.m_lr_stack, N),
         Evicted(ctx.m_mem, w), Len(N) \in Nat, SameNodes(Arena, N, TopNodes),
         Top.start <= q,
         N[Top.node].start_offset = Top.start, N[Top.node].end_offset = q,
         Tidy(Arena, Built(Arena, stack), N[Top.node].children, Top.start, q)
  PROVE  TreeInv'
<1> DEFINE r == Matched(Top.node)
           E == Built(N, stack')
<1>1. /\ stack' = Front(stack)
      /\ Keeps(Arena, Built(Arena, stack), N, E)
      /\ Answer(N, E, r, Top.start, q) => TreeInv'
  BY Closing
<1>2. Top.node \in E
  <2>1. Top.node \notin Building(stack') /\ Top.node \in 1..Len(Arena)
    BY <1>1, TopDone
  <2>2. Len(Arena) \in Nat /\ Len(Arena) <= Len(N)
    BY ArenaTyped DEF SameNodes
  <2> QED
    BY <2>1, <2>2 DEF Built
<1>3. Tidy(N, E, N[Top.node].children, Top.start, q)
  BY <1>1, TidyKept
<1>4. Spans(N, E, Top.node, Top.start, q)
  BY <1>2, <1>3 DEF Spans
<1>5. Answer(N, E, r, Top.start, q)
  BY <1>4 DEF Answer, Matched
<1> QED
  BY <1>1, <1>5

\* Sequences: the children lie in order between start and cursor.
LEMMA SequenceTree == Inv /\ TreeInv /\ SequenceStep => TreeInv'
<1> SUFFICES ASSUME Inv, TreeInv, SequenceStep PROVE TreeInv'
  OBVIOUS
<1>1. /\ Holds(ctx, mark(ctx), ctx.m_mem, ctx.m_lr_stack, Arena)
      /\ Len(Arena) \in Nat /\ SameNodes(Arena, Arena, TopNodes)
  BY ArenaTyped, ContextHolds DEF Arena, mark, SameNodes
<1>2. \A q : Holds(reset(ctx, q), q, ctx.m_mem, ctx.m_lr_stack, Arena)
  BY <1>1, HoldsNodes
<1>3. CASE SequenceEnter
  <2> DEFINE f == [NewFrame("Sequence", ctl.e) EXCEPT !.node = NextNode(ctx)]
  <2>1. /\ f.kind = "Sequence" /\ f.start = mark(ctx) /\ f.node = Len(Arena) + 1
    BY DEF NewFrame, NextNode, Arena
  <2>2. /\ ctl.mode = "call" /\ ctl'.mode = "go" /\ Push(f)
        /\ ctx' = make_node(ctx, EmptyNode(mark(ctx), 0))
    BY <1>3, Facts DEF SequenceEnter, Calling, Goto, Control
  <2> HIDE DEF f
  <2>3. Holds(ctx', mark(ctx), ctx.m_mem, ctx.m_lr_stack,
              Append(Arena, EmptyNode(mark(ctx), 0)))
    BY <1>1, <2>2, HoldsNodes
  <2> QED
    BY <2>1, <2>2, <2>3, Opening DEF RunsSkipper
<1>4. CASE SequenceChild
  <2>1. /\ stack # <<>> /\ Top.kind = "Sequence" /\ ctl.mode = "go"
        /\ ctx' = ctx /\ stack' = stack /\ ctl'.mode = "call"
    BY <1>4, Facts DEF SequenceChild, At, Call, Control
  <2>2. FrameTidy(Arena, Built(Arena, stack), ctx.m_lr_stack, Top, mark(ctx), FALSE)
    <3>1. Here = mark(ctx) /\ (ctl.mode = "finish") = FALSE
      BY <2>1 DEF Here
    <3> QED
      BY <2>1, <3>1, TopTidy
  <2>3. stack' = [stack EXCEPT ![Len(stack)] = Top]
    BY <2>1, SameTop
  <2>4. FrameTidy(Arena, Built(Arena, stack'), ctx.m_lr_stack, Top, mark(ctx),
                  FALSE) => TreeInv'
    BY <1>1, <2>1, <2>3, Going
  <2> QED
    BY <2>1, <2>2, <2>4
<1>5. ASSUME stack # <<>>, Top.kind = "Sequence", ctl.mode = "return",
             ctl.res.success, NEW c, c = push_child(ctx, Top.node, ctl.res.tree)
      PROVE  \E N : /\ Holds(c, mark(ctx), ctx.m_mem, ctx.m_lr_stack, N)
                    /\ N \in Seq(Nodes(Len(input))) /\ Len(N) = Len(Arena)
                    /\ SameNodes(Arena, N, TopNodes)
                    /\ Top.node \in 1..Len(N)
                    /\ N[Top.node].start_offset = Top.start
                    /\ Tidy(Arena, Built(Arena, stack), N[Top.node].children,
                            Top.start, mark(ctx))
                    /\ Top.start <= mark(ctx)
  <2> DEFINE N == c.m_node_arena
  <2>1. /\ Holds(c, mark(ctx), ctx.m_mem, ctx.m_lr_stack, N)
        /\ N \in Seq(Nodes(Len(input))) /\ Len(N) = Len(Arena)
        /\ SameNodes(Arena, N, TopNodes)
        /\ Top.node \in 1..Len(N) /\ N[Top.node].start_offset = Top.start
        /\ Tidy(Arena, Built(Arena, stack), N[Top.node].children, Top.start,
                mark(ctx))
        /\ Top.start <= ctl.at /\ ctl.at <= mark(ctx)
    BY <1>5, ChildPushed DEF RunsSkipper
  <2>2. Top.start \in Nat /\ ctl.at \in Nat /\ mark(ctx) \in Nat
    BY <1>5, Facts, TopOKFacts, FrameTypes
  <2>3. Top.start <= mark(ctx)
    BY <2>1, <2>2
  <2> QED
    BY <2>1, <2>3
<1>6. CASE SequenceChildMatched
  <2> DEFINE f == [Top EXCEPT !.i = @ + 1]
  <2>1. /\ stack # <<>> /\ Top.kind = "Sequence" /\ ctl.mode = "return"
        /\ ctl.res.success
        /\ ctx' = push_child(ctx, Top.node, ctl.res.tree)
        /\ stack' = [stack EXCEPT ![Len(stack)] = f] /\ ctl'.mode = "skip"
    BY <1>6, Facts DEF SequenceChildMatched, ReturnedTo, At, SetTop, Goto, Control
  <2>2. f.kind = Top.kind /\ f.start = Top.start /\ f.node = Top.node
    BY <2>1, TopOKFacts DEF Frames
  <2> HIDE DEF f
  <2> PICK N : /\ Holds(ctx', mark(ctx), ctx.m_mem, ctx.m_lr_stack, N)
               /\ N \in Seq(Nodes(Len(input))) /\ Len(N) = Len(Arena)
               /\ SameNodes(Arena, N, TopNodes)
               /\ Top.node \in 1..Len(N)
               /\ N[Top.node].start_offset = Top.start
               /\ Tidy(Arena, Built(Arena, stack), N[Top.node].children,
                       Top.start, mark(ctx))
               /\ Top.start <= mark(ctx)
    BY <1>5, <2>1
  <2>3. /\ Keeps(Arena, Built(Arena, stack), N, Built(N, stack'))
        /\ FrameTidy(N, Built(N, stack'), ctx.m_lr_stack, f, mark(ctx), FALSE)
             => TreeInv'
    BY <1>1, <2>1, <2>2, Going
  <2>4. Tidy(N, Built(N, stack'), N[Top.node].children, Top.start, mark(ctx))
    BY <2>3, TidyKept
  <2>5. FrameTidy(N, Built(N, stack'), ctx.m_lr_stack, f, mark(ctx), FALSE)
    BY <2>1, <2>2, <2>4 DEF FrameTidy
  <2> QED
    BY <2>3, <2>5
<1>7. CASE SequenceMatched
  <2> DEFINE c == push_child(ctx, Top.node, ctl.res.tree)
  <2>1. /\ stack # <<>> /\ Top.kind = "Sequence" /\ ctl.mode = "return"
        /\ ctl.res.success /\ ctx' = set_end(c, Top.node)
        /\ Return(Matched(Top.node), Top.start) /\ Pop
    BY <1>7 DEF SequenceMatched, ReturnedTo, At
  <2> PICK N : /\ Holds(c, mark(ctx), ctx.m_mem, ctx.m_lr_stack, N)
               /\ N \in Seq(Nodes(Len(input))) /\ Len(N) = Len(Arena)
               /\ SameNodes(Arena, N, TopNodes)
               /\ Top.node \in 1..Len(N)
               /\ N[Top.node].start_offset = Top.start
               /\ Tidy(Arena, Built(Arena, stack), N[Top.node].children,
                       Top.start, mark(ctx))
               /\ Top.start <= mark(ctx)
    BY <1>5, <2>1
  <2> HIDE DEF c
  <2> PICK M : /\ Holds(ctx', mark(ctx), ctx.m_mem, ctx.m_lr_stack, M)
               /\ Len(M) = Len(N)
               /\ \A j \in 1..Len(N) : j # Top.node => M[j] = N[j]
               /\ M[Top.node].start_offset = N[Top.node].start_offset
               /\ M[Top.node].children = N[Top.node].children
               /\ M[Top.node].end_offset = mark(ctx)
    <3> DEFINE p == mark(ctx)
               m == ctx.m_mem
               l == ctx.m_lr_stack
               t == Top.node
    <3>1. /\ Holds(c, p, m, l, N) /\ N \in Seq(Nodes(Len(input)))
          /\ t \in 1..Len(N) /\ ctx' = set_end(c, t)
      BY <2>1
    <3>2. Len(input) \in Nat
      BY ArenaTyped
    <3> HIDE DEF p, m, l, t
    <3>3. \E M : /\ Holds(ctx', p, m, l, M) /\ Len(M) = Len(N)
                 /\ \A j \in 1..Len(N) : j # t => M[j] = N[j]
                 /\ M[t].start_offset = N[t].start_offset
                 /\ M[t].children = N[t].children /\ M[t].end_offset = p
      BY <3>1, <3>2, EndStamped
    <3> QED
      BY <3>3 DEF p, m, l, t
  <2>2. SameNodes(Arena, M, TopNodes) /\ Len(M) \in Nat
    BY <1>1, <2>1 DEF SameNodes, TopNodes, RunsSkipper
  <2> QED
    BY <1>1, <2>1, <2>2, NoneEvicted, NodeFinished DEF RunsSkipper
<1>8. CASE SequenceFailed
  <2>1. /\ stack # <<>> /\ ctl.mode = "return" /\ ctx' = reset(ctx, Top.start)
        /\ Return(Failed, Top.start) /\ Pop
    BY <1>8 DEF SequenceFailed, ReturnedTo, At
  <2>2. Holds(ctx', Top.start, ctx.m_mem, ctx.m_lr_stack, Arena)
    BY <1>2, <2>1
  <2>3. Answer(Arena, Built(Arena, stack'), Failed, Top.start, Top.start) => TreeInv'
    BY <1>1, <2>1, <2>2, NoneEvicted, Closing
  <2> QED
    BY <2>3, NoTree
<1> QED
  BY <1>3, <1>4, <1>6, <1>7, <1>8 DEF SequenceStep

\* The stamp of an alternation's winner changes neither span nor children.
LEMMA WinnerStamped ==
  ASSUME NEW n \in Nat, NEW c, NEW p, NEW m, NEW l, NEW N \in Seq(Nodes(n)),
         Holds(c, p, m, l, N), NEW t, NEW i, t # nullptr => t \in 1..Len(N)
  PROVE  \E M : /\ Holds(stamp_winner(c, t, i), p, m, l, M)
                /\ Len(M) \in Nat /\ \A X : SameNodes(N, M, X)
<1>1. Len(N) \in Nat
  OBVIOUS
<1>2. CASE t = nullptr
  <2>1. Holds(stamp_winner(c, t, i), p, m, l, N)
    BY <1>2 DEF stamp_winner
  <2>2. \A X : SameNodes(N, N, X)
    BY <1>1 DEF SameNodes
  <2> QED
    BY <1>1, <2>1, <2>2
<1>3. CASE t # nullptr
  <2> DEFINE x == [N[t] EXCEPT !.alt_winner = i]
             M == [N EXCEPT ![t] = x]
  <2>1. t \in 1..Len(N)
    BY <1>3
  <2>2. /\ NodeAt(c, t) = N[t]
        /\ \A y : Holds(edit_node(c, t, y), p, m, l, [N EXCEPT ![t] = y])
    BY <2>1, HoldsEdits, HoldsNodes
  <2>3. Holds(stamp_winner(c, t, i), p, m, l, M)
    BY <1>3, <2>2 DEF stamp_winner
  <2>4. N[t] \in Nodes(n)
    BY <2>1
  <2>5. /\ x.start_offset = N[t].start_offset /\ x.children = N[t].children
        /\ x.end_offset = N[t].end_offset
    BY <2>4 DEF Nodes
  <2>6. /\ Len(M) = Len(N) /\ M[t] = x
        /\ \A j \in 1..Len(N) : j # t => M[j] = N[j]
    BY <2>1
  <2> HIDE DEF M, x
  <2>7. \A X : SameNodes(N, M, X)
    BY <1>1, <2>5, <2>6 DEF SameNodes
  <2> QED
    BY <1>1, <2>3, <2>6, <2>7
<1> QED
  BY <1>2, <1>3

\* Alternations return the tree of the alternative that won.
LEMMA AlternationTree == Inv /\ TreeInv /\ AlternationStep => TreeInv'
<1> SUFFICES ASSUME Inv, TreeInv, AlternationStep PROVE TreeInv'
  OBVIOUS
<1>1. /\ Holds(ctx, mark(ctx), ctx.m_mem, ctx.m_lr_stack, Arena)
      /\ Len(Arena) \in Nat /\ SameNodes(Arena, Arena, TopNodes)
      /\ Len(input) \in Nat /\ Arena \in Seq(Nodes(Len(input)))
  BY ArenaTyped, ContextHolds DEF Arena, mark, SameNodes
<1>2. Holds(init_cut(ctx), mark(ctx), ctx.m_mem, ctx.m_lr_stack, Arena)
  BY <1>1, HoldsScopes
<1>3. CASE AlternationEnter
  <2> DEFINE f == NewFrame("Alternation", ctl.e)
  <2>1. f.kind \notin RunsSkipper /\ f.kind # "NonTerminal" /\ f.start = mark(ctx)
    BY DEF NewFrame, RunsSkipper
  <2>2. ctl.mode = "call" /\ ctl'.mode = "call" /\ Push(f) /\ ctx' = init_cut(ctx)
    BY <1>3, Facts DEF AlternationEnter, Calling, Call, Control
  <2> HIDE DEF f
  <2> QED
    BY <1>2, <2>1, <2>2, Opening
<1>4. CASE AlternationMatched
  <2> DEFINE c == stamp_winner(ctx, ctl.res.tree, Top.i)
  <2>1. /\ stack # <<>> /\ Top.kind = "Alternation" /\ ctl.mode = "return"
        /\ ctx' = remove_cut(c) /\ Return(ctl.res, Top.start) /\ Pop
    BY <1>4 DEF AlternationMatched, ReturnedTo, At
  <2>2. ctl.at = Top.start
    BY <2>1, TopOKFacts DEF TopOK, Transparent
  <2>3. Answer(Arena, Built(Arena, stack), ctl.res, Top.start, mark(ctx))
    BY <2>1, <2>2 DEF TreeInv, Arena
  <2>4. ctl.res.tree # nullptr => ctl.res.tree \in 1..Len(Arena)
    BY <2>3 DEF Answer, Spans, Built
  <2> PICK N : /\ Holds(c, mark(ctx), ctx.m_mem, ctx.m_lr_stack, N)
               /\ Len(N) \in Nat /\ \A X : SameNodes(Arena, N, X)
    BY <1>1, <2>4, WinnerStamped
  <2> HIDE DEF c
  <2> PICK w : /\ Evicted(ctx.m_mem, w)
               /\ Holds(remove_cut(c), mark(ctx), w, ctx.m_lr_stack, N)
    BY HoldsMemo
  <2>5. /\ Keeps(Arena, Built(Arena, stack), N, Built(N, stack'))
        /\ Answer(N, Built(N, stack'), ctl.res, Top.start, mark(ctx)) => TreeInv'
    BY <2>1, Closing
  <2>6. Answer(N, Built(N, stack'), ctl.res, Top.start, mark(ctx))
    BY <2>3, <2>5, AnswerKept
  <2> QED
    BY <2>5, <2>6
<1>5. CASE AlternationNext
  <2> DEFINE f == [Top EXCEPT !.i = @ + 1]
  <2>1. /\ stack # <<>> /\ Top.kind = "Alternation" /\ ctl.mode = "return"
        /\ ctx' = ctx /\ ~ ctl.res.success
        /\ stack' = [stack EXCEPT ![Len(stack)] = f] /\ ctl'.mode = "call"
    BY <1>5, Facts DEF AlternationNext, ReturnedTo, At, SetTop, Call, Control
  <2>2. /\ f.kind = Top.kind /\ f.start = Top.start /\ f.node = Top.node
    BY <2>1, TopOKFacts DEF Frames
  <2> HIDE DEF f
  <2>3. mark(ctx) = Top.start /\ Top.start \in Nat
    BY <2>1, Facts, TopOKFacts, FrameTypes DEF TopOK, Transparent, ControlOK
  <2>4. Top.start <= mark(ctx)
    BY <2>3
  <2>5. FrameTidy(Arena, Built(Arena, stack'), ctx.m_lr_stack, f, mark(ctx), FALSE)
          => TreeInv'
    BY <1>1, <2>1, <2>2, Going
  <2>6. f.kind \notin RunsSkipper /\ f.kind # "Repetition" /\ f.kind # "NonTerminal"
    BY <2>1, <2>2 DEF RunsSkipper
  <2> QED
    BY <2>2, <2>4, <2>5, <2>6 DEF FrameTidy
<1>6. CASE AlternationExhausted
  <2>1. /\ stack # <<>> /\ ctl.mode = "return" /\ ctx' = remove_cut(ctx)
        /\ Return(Failed, Top.start) /\ Pop
    BY <1>6 DEF AlternationExhausted, ReturnedTo, At
  <2> PICK w : /\ Evicted(ctx.m_mem, w)
               /\ Holds(remove_cut(ctx), mark(ctx), w, ctx.m_lr_stack, Arena)
    BY <1>1, HoldsMemo
  <2>2. Answer(Arena, Built(Arena, stack'), Failed, Top.start, mark(ctx)) => TreeInv'
    BY <1>1, <2>1, Closing
  <2> QED
    BY <2>2, NoTree
<1>7. CASE AlternationThrow
  <2>1. ctx' = ctx /\ stack' = stack /\ ctl'.mode = "throw"
    BY <1>7, Facts DEF AlternationThrow, Goto, Control
  <2>2. MemoStays
    BY <2>1 DEF MemoStays, TreeInv, Arena
  <2> QED
    BY <2>1, <2>2, ThrownTidy
<1> QED
  BY <1>3, <1>4, <1>5, <1>6, <1>7 DEF AlternationStep

-----------------------------------------------------------------------------
(* Repetitions, the skipper, exceptions and Grammar::parse.                *)

\* Null children at the end disturb no order.
LEMMA TidyPadded ==
  ASSUME NEW N, NEW D, NEW kids \in Kids, NEW from, NEW to,
         Tidy(N, D, kids, from, to), NEW i \in Nat, NEW all,
         all = [k \in 1..i |-> IF k <= Len(kids) THEN kids[k] ELSE nullptr]
  PROVE  Tidy(N, D, all, from, to)
<1>1. /\ Len(all) = i /\ Len(kids) \in Nat
      /\ \A k \in 1..i : all[k] # nullptr =>
           k \in 1..Len(kids) /\ all[k] = kids[k]
  BY DEF Kids
<1> SUFFICES ASSUME NEW k \in 1..Len(all), all[k] # nullptr
             PROVE  /\ all[k] \in D
                    /\ from <= N[all[k]].start_offset
                    /\ N[all[k]].end_offset <= to
                    /\ \A j \in 1..(k - 1) : all[j] # nullptr =>
                         N[all[j]].end_offset <= N[all[k]].start_offset
  BY DEF Tidy
<1>2. k \in 1..Len(kids) /\ all[k] = kids[k]
  BY <1>1
<1>3. \A j \in 1..(k - 1) : j \in 1..i
  BY <1>1
<1>4. \A j \in 1..(k - 1) : all[j] # nullptr => all[j] = kids[j]
  BY <1>1, <1>3
<1> QED
  BY <1>2, <1>4 DEF Tidy

\* node->children.resize keeps the node tidy up to the last success.
LEMMA Padded ==
  ASSUME Inv, TreeInv, stack # <<>>, ctl.mode = "return",
         Top.kind = "Repetition",
         NEW c, c = PadChildren(reset(ctx, Top.last), Top.node, Top.i)
  PROVE  \E N : /\ Holds(c, Top.last, ctx.m_mem, ctx.m_lr_stack, N)
                /\ N \in Seq(Nodes(Len(input))) /\ Len(N) = Len(Arena)
                /\ SameNodes(Arena, N, TopNodes)
                /\ Top.node \in 1..Len(N)
                /\ N[Top.node].start_offset = Top.start
                /\ Tidy(Arena, Built(Arena, stack), N[Top.node].children,
                        Top.start, Top.last)
                /\ Top.start <= Top.last
<1> DEFINE n == Len(input)
           t == Top.node
           D == Built(Arena, stack)
           kids == Arena[t].children
           all == [k \in 1..Top.i |-> IF k <= Len(kids) THEN kids[k] ELSE nullptr]
           x == [Arena[t] EXCEPT !.children = all]
           M == [Arena EXCEPT ![t] = x]
<1>1. /\ n \in Nat /\ ContextOK(ctx, n) /\ Arena \in Seq(Nodes(n))
      /\ Len(Arena) \in Nat /\ Top.i \in Nat /\ Top.last \in 0..n
  BY ArenaTyped, Facts, TopOKFacts, FrameTypes
<1>2. /\ t \in 1..Len(Arena) /\ Arena[t].start_offset = Top.start
      /\ Tidy(Arena, D, kids, Top.start, Top.last) /\ Top.start <= Top.last
  BY TopTidy DEF FrameTidy, RunsSkipper
<1>3. Arena[t] \in Nodes(n)
  BY <1>1, <1>2
<1>4. kids \in Kids
  BY <1>3 DEF Kids, Nodes
<1>5. Holds(reset(ctx, Top.last), Top.last, ctx.m_mem, ctx.m_lr_stack, Arena)
  BY <1>1, ContextHolds, HoldsNodes DEF Arena, ContextOK
<1>6. /\ NodeAt(reset(ctx, Top.last), t) = Arena[t]
      /\ \A y : Holds(edit_node(reset(ctx, Top.last), t, y), Top.last,
                      ctx.m_mem, ctx.m_lr_stack, [Arena EXCEPT ![t] = y])
  BY <1>2, <1>5, HoldsEdits, HoldsNodes
<1>7. c = edit_node(reset(ctx, Top.last), t, x)
  BY <1>6 DEF PadChildren
<1> HIDE DEF all
<1>8. Holds(c, Top.last, ctx.m_mem, ctx.m_lr_stack, M)
  BY <1>6, <1>7
<1>9. x.start_offset = Arena[t].start_offset /\ x.children = all
  BY <1>3 DEF Nodes
<1> HIDE DEF x
<1>10. /\ Len(M) = Len(Arena) /\ M[t] = x
       /\ \A j \in 1..Len(Arena) : j # t => M[j] = Arena[j]
  BY <1>1, <1>2
<1> HIDE DEF D, n
<1>11. Tidy(Arena, D, all, Top.start, Top.last)
  <2>1. \A all1 :
          all1 = [k \in 1..Top.i |-> IF k <= Len(kids) THEN kids[k] ELSE nullptr]
          => Tidy(Arena, D, all1, Top.start, Top.last)
    BY <1>1, <1>2, <1>4, TidyPadded
  <2> QED
    BY <2>1 DEF all
<1>12. M \in Seq(Nodes(n))
  <2>1. ContextOK(reset(ctx, Top.last), n)
    BY <1>1, ResetOK DEF n
  <2>2. ContextOK(c, n)
    BY <1>1, <2>1, PadOK DEF Kept
  <2>3. c.m_node_arena = M /\ c \in Contexts(n)
    BY <1>8, <2>2 DEF Holds, ContextOK
  <2> HIDE DEF M
  <2> QED
    BY <1>1, <2>3, FieldTypes
<1> HIDE DEF M
<1>13. SameNodes(Arena, M, TopNodes)
  BY <1>1, <1>10 DEF SameNodes, TopNodes, t, RunsSkipper
<1> QED
  BY <1>1, <1>2, <1>8, <1>9, <1>10, <1>11, <1>12, <1>13 DEF n, t, D

\* Repetitions: the children lie in order up to the last success.
LEMMA RepetitionTree == Inv /\ TreeInv /\ RepetitionStep => TreeInv'
<1> SUFFICES ASSUME Inv, TreeInv, RepetitionStep PROVE TreeInv'
  OBVIOUS
<1>1. /\ Holds(ctx, mark(ctx), ctx.m_mem, ctx.m_lr_stack, Arena)
      /\ Len(Arena) \in Nat /\ SameNodes(Arena, Arena, TopNodes)
  BY ArenaTyped, ContextHolds DEF Arena, mark, SameNodes
<1>2. /\ \A q : Holds(reset(ctx, q), q, ctx.m_mem, ctx.m_lr_stack, Arena)
      /\ \A b : Holds(cut(ctx, b), mark(ctx), ctx.m_mem, ctx.m_lr_stack, Arena)
      /\ Holds(init_cut(ctx), mark(ctx), ctx.m_mem, ctx.m_lr_stack, Arena)
  BY <1>1, HoldsNodes, HoldsScopes
<1>3. CASE RepetitionEnter
  <2> DEFINE f == [NewFrame("Repetition", ctl.e) EXCEPT !.node = NextNode(ctx)]
  <2>1. /\ f.kind = "Repetition" /\ f.start = mark(ctx) /\ f.last = mark(ctx)
        /\ f.node = Len(Arena) + 1
    BY DEF NewFrame, NextNode, Arena
  <2>2. /\ ctl.mode = "call" /\ ctl'.mode = "go" /\ Push(f)
        /\ ctx' = make_node(init_cut(ctx), EmptyNode(mark(ctx), 0))
    BY <1>3, Facts DEF RepetitionEnter, Calling, Goto, Control
  <2> HIDE DEF f
  <2>3. Holds(ctx', mark(ctx), ctx.m_mem, ctx.m_lr_stack,
              Append(Arena, EmptyNode(mark(ctx), 0)))
    BY <1>2, <2>2, HoldsNodes
  <2> QED
    BY <2>1, <2>2, <2>3, Opening DEF RunsSkipper
<1>4. CASE RepetitionChild
  <2> DEFINE f == [Top EXCEPT !.iter = mark(ctx)]
  <2>1. /\ stack # <<>> /\ Top.kind = "Repetition" /\ ctl.mode = "go"
        /\ ctx' = cut(ctx, FALSE) /\ ctl'.mode = "call"
        /\ stack' = [stack EXCEPT ![Len(stack)] = f]
    BY <1>4, Facts DEF RepetitionChild, At, SetTop, Call, Control
  <2>2. /\ f.kind = Top.kind /\ f.start = Top.start /\ f.node = Top.node
        /\ f.last = Top.last
    BY <2>1, TopOKFacts DEF Frames
  <2> HIDE DEF f
  <2>3. FrameTidy(Arena, Built(Arena, stack), ctx.m_lr_stack, Top, mark(ctx), FALSE)
    <3>1. Here = mark(ctx) /\ (ctl.mode = "finish") = FALSE
      BY <2>1 DEF Here
    <3> QED
      BY <2>1, <3>1, TopTidy
  <2>4. Holds(ctx', mark(ctx), ctx.m_mem, ctx.m_lr_stack, Arena)
    BY <1>2, <2>1
  <2>5. /\ Keeps(Arena, Built(Arena, stack), Arena, Built(Arena, stack'))
        /\ FrameTidy(Arena, Built(Arena, stack'), ctx.m_lr_stack, f, mark(ctx),
                     FALSE) => TreeInv'
    BY <1>1, <2>1, <2>2, <2>4, Going
  <2>6. Tidy(Arena, Built(Arena, stack'), Arena[Top.node].children, Top.start,
             Top.last)
    <3>1. Tidy(Arena, Built(Arena, stack), Arena[Top.node].children, Top.start,
               Top.last)
      BY <2>1, <2>3 DEF FrameTidy, RunsSkipper
    <3> QED
      BY <2>5, <3>1, TidyKept
  <2>7. FrameTidy(Arena, Built(Arena, stack'), ctx.m_lr_stack, f, mark(ctx), FALSE)
    BY <2>1, <2>2, <2>3, <2>6 DEF FrameTidy, RunsSkipper
  <2> QED
    BY <2>5, <2>7
<1>5. ASSUME stack # <<>>, Top.kind = "Repetition", ctl.mode = "return",
             ctl.res.success, NEW c, c = push_child(ctx, Top.node, ctl.res.tree)
      PROVE  \E N : /\ Holds(c, mark(ctx), ctx.m_mem, ctx.m_lr_stack, N)
                    /\ N \in Seq(Nodes(Len(input))) /\ Len(N) = Len(Arena)
                    /\ SameNodes(Arena, N, TopNodes)
                    /\ Top.node \in 1..Len(N)
                    /\ N[Top.node].start_offset = Top.start
                    /\ Tidy(Arena, Built(Arena, stack), N[Top.node].children,
                            Top.start, mark(ctx))
                    /\ Top.start <= mark(ctx) /\ mark(ctx) \in Nat
  <2> DEFINE N == c.m_node_arena
  <2>1. /\ Holds(c, mark(ctx), ctx.m_mem, ctx.m_lr_stack, N)
        /\ N \in Seq(Nodes(Len(input))) /\ Len(N) = Len(Arena)
        /\ SameNodes(Arena, N, TopNodes)
        /\ Top.node \in 1..Len(N) /\ N[Top.node].start_offset = Top.start
        /\ Tidy(Arena, Built(Arena, stack), N[Top.node].children, Top.start,
                mark(ctx))
        /\ Top.start <= ctl.at /\ ctl.at <= mark(ctx)
    BY <1>5, ChildPushed DEF RunsSkipper
  <2>2. Top.start \in Nat /\ ctl.at \in Nat /\ mark(ctx) \in Nat
    BY <1>5, Facts, TopOKFacts, FrameTypes
  <2>3. Top.start <= mark(ctx)
    BY <2>1, <2>2
  <2> QED
    BY <2>1, <2>2, <2>3
<1>6. CASE RepetitionChildMatched
  <2> DEFINE f == [Top EXCEPT !.i = @ + 1, !.last = mark(ctx)]
  <2>1. /\ stack # <<>> /\ Top.kind = "Repetition" /\ ctl.mode = "return"
        /\ ctl.res.success
        /\ ctx' = push_child(ctx, Top.node, ctl.res.tree)
        /\ stack' = [stack EXCEPT ![Len(stack)] = f] /\ ctl'.mode = "skip"
    BY <1>6, Facts DEF RepetitionChildMatched, ReturnedTo, At, SetTop, Goto, Control
  <2>2. f.kind = Top.kind /\ f.start = Top.start /\ f.node = Top.node
        /\ f.last = mark(ctx)
    BY <2>1, TopOKFacts DEF Frames
  <2> HIDE DEF f
  <2> PICK N : /\ Holds(ctx', mark(ctx), ctx.m_mem, ctx.m_lr_stack, N)
               /\ N \in Seq(Nodes(Len(input))) /\ Len(N) = Len(Arena)
               /\ SameNodes(Arena, N, TopNodes)
               /\ Top.node \in 1..Len(N)
               /\ N[Top.node].start_offset = Top.start
               /\ Tidy(Arena, Built(Arena, stack), N[Top.node].children,
                       Top.start, mark(ctx))
               /\ Top.start <= mark(ctx) /\ mark(ctx) \in Nat
    BY <1>5, <2>1
  <2>3. /\ Keeps(Arena, Built(Arena, stack), N, Built(N, stack'))
        /\ FrameTidy(N, Built(N, stack'), ctx.m_lr_stack, f, mark(ctx), FALSE)
             => TreeInv'
    BY <1>1, <2>1, <2>2, Going
  <2>4. Tidy(N, Built(N, stack'), N[Top.node].children, Top.start, mark(ctx))
    BY <2>3, TidyKept
  <2>5. mark(ctx) <= mark(ctx)
    OBVIOUS
  <2>6. FrameTidy(N, Built(N, stack'), ctx.m_lr_stack, f, mark(ctx), FALSE)
    BY <2>1, <2>2, <2>4, <2>5 DEF FrameTidy
  <2> QED
    BY <2>3, <2>6
<1>12. ASSUME NEW c, NEW p, NEW N, Holds(c, p, ctx.m_mem, ctx.m_lr_stack, N),
              N \in Seq(Nodes(Len(input))), Top.node \in 1..Len(N)
       PROVE  \E M : /\ Holds(set_end(c, Top.node), p, ctx.m_mem,
                              ctx.m_lr_stack, M)
                     /\ Len(M) = Len(N)
                     /\ \A j \in 1..Len(N) : j # Top.node => M[j] = N[j]
                     /\ M[Top.node].start_offset = N[Top.node].start_offset
                     /\ M[Top.node].children = N[Top.node].children
                     /\ M[Top.node].end_offset = p
  <2> DEFINE n == Len(input)
             t == Top.node
             m == ctx.m_mem
             l == ctx.m_lr_stack
  <2>1. /\ n \in Nat /\ N \in Seq(Nodes(n)) /\ t \in 1..Len(N)
        /\ Holds(c, p, m, l, N)
    BY <1>12, ArenaTyped
  <2> HIDE DEF n, t, m, l
  <2>2. \E M : /\ Holds(set_end(c, t), p, m, l, M)
               /\ Len(M) = Len(N)
               /\ \A j \in 1..Len(N) : j # t => M[j] = N[j]
               /\ M[t].start_offset = N[t].start_offset
               /\ M[t].children = N[t].children
               /\ M[t].end_offset = p
    BY <2>1, EndStamped
  <2> QED
    BY <2>2 DEF t, m, l
<1>7. CASE RepetitionMatched
  <2> DEFINE c == push_child(ctx, Top.node, ctl.res.tree)
  <2>1. /\ stack # <<>> /\ Top.kind = "Repetition" /\ ctl.mode = "return"
        /\ ctl.res.success /\ Pop
        /\ \/ /\ ctx' = remove_cut(reset(c, Top.start))
              /\ Return(Failed, Top.start)
           \/ /\ ctx' = remove_cut(set_end(c, Top.node))
              /\ Return(Matched(Top.node), Top.start)
    BY <1>7 DEF RepetitionMatched, ReturnedTo, At
  <2> PICK N : /\ Holds(c, mark(ctx), ctx.m_mem, ctx.m_lr_stack, N)
               /\ N \in Seq(Nodes(Len(input))) /\ Len(N) = Len(Arena)
               /\ SameNodes(Arena, N, TopNodes)
               /\ Top.node \in 1..Len(N)
               /\ N[Top.node].start_offset = Top.start
               /\ Tidy(Arena, Built(Arena, stack), N[Top.node].children,
                       Top.start, mark(ctx))
               /\ Top.start <= mark(ctx) /\ mark(ctx) \in Nat
    BY <1>5, <2>1
  <2> HIDE DEF c
  <2>2. CASE ctx' = remove_cut(reset(c, Top.start)) /\ Return(Failed, Top.start)
    <3>1. Holds(reset(c, Top.start), Top.start, ctx.m_mem, ctx.m_lr_stack, N)
      BY HoldsNodes
    <3> PICK w : /\ Evicted(ctx.m_mem, w)
                 /\ Holds(remove_cut(reset(c, Top.start)), Top.start, w,
                          ctx.m_lr_stack, N)
      BY <3>1, HoldsMemo
    <3>2. Answer(N, Built(N, stack'), Failed, Top.start, Top.start) => TreeInv'
      BY <1>1, <2>1, <2>2, Closing
    <3> QED
      BY <3>2, NoTree
  <2>3. CASE /\ ctx' = remove_cut(set_end(c, Top.node))
             /\ Return(Matched(Top.node), Top.start)
    <3> PICK M : /\ Holds(set_end(c, Top.node), mark(ctx), ctx.m_mem,
                          ctx.m_lr_stack, M)
                 /\ Len(M) = Len(N)
                 /\ \A j \in 1..Len(N) : j # Top.node => M[j] = N[j]
                 /\ M[Top.node].start_offset = N[Top.node].start_offset
                 /\ M[Top.node].children = N[Top.node].children
                 /\ M[Top.node].end_offset = mark(ctx)
      BY <1>12
    <3>1. SameNodes(Arena, M, TopNodes) /\ Len(M) \in Nat
      BY <1>1, <2>1 DEF SameNodes, TopNodes, RunsSkipper
    <3> PICK w : /\ Evicted(ctx.m_mem, w)
                 /\ Holds(remove_cut(set_end(c, Top.node)), mark(ctx), w,
                          ctx.m_lr_stack, M)
      BY HoldsMemo
    <3> QED
      BY <1>1, <2>1, <2>3, <3>1, NodeFinished DEF RunsSkipper
  <2> QED
    BY <2>1, <2>2, <2>3
<1>8. CASE RepetitionTooFew
  <2>1. /\ stack # <<>> /\ ctl.mode = "return" /\ Pop
        /\ ctx' = remove_cut(reset(ctx, Top.start)) /\ Return(Failed, Top.start)
    BY <1>8 DEF RepetitionTooFew, ReturnedTo, At
  <2>2. Holds(reset(ctx, Top.start), Top.start, ctx.m_mem, ctx.m_lr_stack, Arena)
    BY <1>2
  <2> PICK w : /\ Evicted(ctx.m_mem, w)
               /\ Holds(remove_cut(reset(ctx, Top.start)), Top.start, w,
                        ctx.m_lr_stack, Arena)
    BY <2>2, HoldsMemo
  <2>3. Answer(Arena, Built(Arena, stack'), Failed, Top.start, Top.start) => TreeInv'
    BY <1>1, <2>1, Closing
  <2> QED
    BY <2>3, NoTree
<1>9. ASSUME stack # <<>>, Top.kind = "Repetition", ctl.mode = "return", NEW c,
             c = PadChildren(reset(ctx, Top.last), Top.node, Top.i)
      PROVE  \E N : /\ Holds(c, Top.last, ctx.m_mem, ctx.m_lr_stack, N)
                    /\ N \in Seq(Nodes(Len(input))) /\ Len(N) = Len(Arena)
                    /\ SameNodes(Arena, N, TopNodes)
                    /\ Top.node \in 1..Len(N)
                    /\ N[Top.node].start_offset = Top.start
                    /\ Tidy(Arena, Built(Arena, stack), N[Top.node].children,
                            Top.start, Top.last)
                    /\ Top.start <= Top.last
  BY <1>9, Padded
<1>10. CASE RepetitionEnds
  <2> DEFINE c == PadChildren(reset(ctx, Top.last), Top.node, Top.i)
  <2>1. /\ stack # <<>> /\ Top.kind = "Repetition" /\ ctl.mode = "return"
        /\ ctx' = remove_cut(set_end(c, Top.node)) /\ Pop
        /\ Return(Matched(Top.node), Top.start)
    BY <1>10 DEF RepetitionEnds, ReturnedTo, At
  <2> PICK N : /\ Holds(c, Top.last, ctx.m_mem, ctx.m_lr_stack, N)
               /\ N \in Seq(Nodes(Len(input))) /\ Len(N) = Len(Arena)
               /\ SameNodes(Arena, N, TopNodes)
               /\ Top.node \in 1..Len(N)
               /\ N[Top.node].start_offset = Top.start
               /\ Tidy(Arena, Built(Arena, stack), N[Top.node].children,
                       Top.start, Top.last)
               /\ Top.start <= Top.last
    BY <1>9, <2>1
  <2> HIDE DEF c
  <2> PICK M : /\ Holds(set_end(c, Top.node), Top.last, ctx.m_mem,
                        ctx.m_lr_stack, M)
               /\ Len(M) = Len(N)
               /\ \A j \in 1..Len(N) : j # Top.node => M[j] = N[j]
               /\ M[Top.node].start_offset = N[Top.node].start_offset
               /\ M[Top.node].children = N[Top.node].children
               /\ M[Top.node].end_offset = Top.last
    BY <1>12
  <2>2. SameNodes(Arena, M, TopNodes) /\ Len(M) \in Nat
    BY <1>1, <2>1 DEF SameNodes, TopNodes, RunsSkipper
  <2> PICK w : /\ Evicted(ctx.m_mem, w)
               /\ Holds(remove_cut(set_end(c, Top.node)), Top.last, w,
                        ctx.m_lr_stack, M)
    BY HoldsMemo
  <2> QED
    BY <1>1, <2>1, <2>2, NodeFinished DEF RunsSkipper
<1>11. CASE RepetitionThrow
  <2>1. /\ stack # <<>> /\ Top.kind = "Repetition" /\ ctl.mode = "return"
        /\ ctx' = PadChildren(reset(ctx, Top.last), Top.node, Top.i)
        /\ stack' = stack /\ ctl'.mode = "throw"
    BY <1>11, Facts DEF RepetitionThrow, ReturnedTo, At, Goto, Control
  <2> PICK N : /\ Holds(ctx', Top.last, ctx.m_mem, ctx.m_lr_stack, N)
               /\ Len(N) = Len(Arena) /\ SameNodes(Arena, N, TopNodes)
    BY <1>9, <2>1
  <2>2. Arena' = N /\ ctx'.m_mem = ctx.m_mem /\ ctx'.m_lr_stack = ctx.m_lr_stack
    BY DEF Holds, Arena
  <2>3. CallsTidy /\ BuildsNoOther
    BY <2>1, BuildsSame DEF TreeInv
  <2>4. Spares(Len(stack) - 1)
    BY <1>1, <2>1, <2>2, <2>3, SparesCallers
  <2>5. MemoStays
    BY <2>2, <2>4, NoneEvicted, MemoEvicted DEF Spares
  <2> QED
    BY <2>1, <2>5, ThrownTidy
<1> QED
  BY <1>3, <1>4, <1>6, <1>7, <1>8, <1>10, <1>11 DEF RepetitionStep

\* The skipper: its caller goes on no earlier than it called.
LEMMA SkipperTree == Inv /\ Inv' /\ TreeInv /\ SkipperStep => TreeInv'
<1> SUFFICES ASSUME Inv, Inv', TreeInv, SkipperStep PROVE TreeInv'
  OBVIOUS
<1>1. /\ Holds(ctx, mark(ctx), ctx.m_mem, ctx.m_lr_stack, Arena)
      /\ Len(Arena) \in Nat /\ SameNodes(Arena, Arena, TopNodes)
  BY ArenaTyped, ContextHolds DEF Arena, mark, SameNodes
<1>2. \A b : Holds(skip_enabled(ctx, b), mark(ctx), ctx.m_mem, ctx.m_lr_stack, Arena)
  BY <1>1, HoldsScopes
<1>3. CASE SkipperEnter
  <2> DEFINE f == NewFrame("Skipper", Ref(ctx.m_skipper))
  <2>1. f.kind \notin RunsSkipper /\ f.kind # "NonTerminal" /\ f.start = mark(ctx)
    BY DEF NewFrame, RunsSkipper
  <2>2. ctl.mode = "skip" /\ ctl'.mode = "call" /\ Push(f)
        /\ ctx' = skip_enabled(ctx, FALSE)
    BY <1>3, Facts DEF SkipperEnter, Call, Control
  <2> HIDE DEF f
  <2>3. Holds(ctx', mark(ctx), ctx.m_mem, ctx.m_lr_stack, Arena)
    BY <1>2, <2>2
  <2> QED
    BY <2>1, <2>2, <2>3, Opening
<1>4. CASE SkipperNone
  <2>1. ctl.mode = "skip" /\ ctl'.mode = "go" /\ ctx' = ctx /\ stack' = stack
    BY <1>4, Facts DEF SkipperNone, Goto, Control
  <2>2. ASSUME NEW k \in 1..Len(stack) PROVE HereOf(k)' = HereOf(k)
    BY <2>1 DEF HereOf, Here
  <2>3. \A k : (k = Len(stack) /\ ctl.mode = "finish") = FALSE
    BY <2>1
  <2>4. \A k : (k = Len(stack) /\ ctl'.mode = "finish") = FALSE
    BY <2>1
  <2>5. CallsTidy
    BY <2>1 DEF TreeInv
  <2>6. ASSUME NEW k \in 1..Len(stack)
        PROVE  FrameTidy(Arena', Built(Arena', stack'), ctx'.m_lr_stack,
                 stack'[k], HereOf(k)', k = Len(stack') /\ ctl'.mode = "finish")
    <3>1. FrameTidy(Arena, Built(Arena, stack), ctx.m_lr_stack, stack[k],
                    HereOf(k), k = Len(stack) /\ ctl.mode = "finish")
      BY <2>5 DEF CallsTidy, Arena
    <3>2. FrameTidy(Arena, Built(Arena, stack), ctx.m_lr_stack, stack[k],
                    HereOf(k), FALSE)
      BY <2>3, <3>1
    <3> QED
      BY <2>1, <2>2, <2>4, <3>2 DEF Arena
  <2>7. CallsTidy'
    BY <2>1, <2>5, <2>6 DEF CallsTidy, Arena
  <2> QED
    BY <2>1, <2>7 DEF TreeInv
<1>5. CASE SkipperReturn
  <2>1. /\ stack # <<>> /\ ctl.mode = "return" /\ Top.kind = "Skipper"
        /\ ctl'.mode = "go" /\ stack' = Front(stack)
        /\ ctx' = skip_enabled(ctx, Top.prev) /\ UNCHANGED setup
    BY <1>5, Facts DEF SkipperReturn, At, Goto, Control, Pop, Front, Inner
  <2>2. /\ mark(ctx') = mark(ctx) /\ Arena' = Arena /\ ctx'.m_mem = ctx.m_mem
        /\ ctx'.m_lr_stack = ctx.m_lr_stack
    BY <2>1 DEF skip_enabled, mark, Arena
  <2>3. CallsTidy /\ BuildsNoOther
    BY <2>1, BuildsPopped DEF TreeInv
  <2>4. Spares(Len(stack) - 1)
    BY <1>1, <2>1, <2>2, <2>3, SparesCallers
  <2>5. MemoStays
    BY <2>2, <2>4, NoneEvicted, MemoEvicted DEF Spares
  <2>6. Top.start <= ctl.at /\ ctl.at <= mark(ctx)
    <3>1. Top.start <= Here /\ Here = ctl.at
      BY <2>1, TopTidy DEF FrameTidy, Here
    <3>2. ctl.res.success => ctl.at <= mark(ctx)
      BY <2>1 DEF TreeInv, Answer
    <3>3. ~ ctl.res.success => mark(ctx) = ctl.at
      BY <2>1, Facts DEF ControlOK
    <3>4. ctl.at \in Nat
      BY Facts
    <3> QED
      BY <3>1, <3>2, <3>3, <3>4
  <2>7. Top.start \in Nat /\ ctl.at \in Nat /\ mark(ctx) \in Nat
    BY <2>1, Facts, TopOKFacts, FrameTypes
  <2>8. Top.start <= mark(ctx')
    BY <2>2, <2>6, <2>7
  <2> QED
    BY <2>1, <2>4, <2>5, <2>8, SkipperGone
<1> QED
  BY <1>3, <1>4, <1>5 DEF SkipperStep

\* A ParseError on its way up evicts entries at most.
LEMMA UnwindTree == Inv /\ TreeInv /\ Unwind => TreeInv'
<1> SUFFICES ASSUME Inv, TreeInv, Unwind PROVE TreeInv'
  OBVIOUS
<1>1. /\ Holds(ctx, mark(ctx), ctx.m_mem, ctx.m_lr_stack, Arena)
      /\ Len(Arena) \in Nat /\ SameNodes(Arena, Arena, {})
  BY ArenaTyped, ContextHolds DEF Arena, mark, SameNodes
<1>2. stack # <<>> /\ stack' = Front(stack) /\ ctl'.mode = "throw"
  BY DEF Unwind, Pop, Front
<1>3. \E w : /\ Evicted(ctx.m_mem, w)
             /\ Holds(ctx', mark(ctx), w, ctx.m_lr_stack, Arena)
  <2>1. CASE Top.kind \in {"Alternation", "Repetition"}
    <3>1. ctx' = remove_cut(ctx)
      BY <2>1 DEF Unwind
    <3> QED
      BY <1>1, <3>1, HoldsMemo
  <2>2. CASE Top.kind = "Lexeme"
    <3>1. ctx' = skip_enabled(ctx, Top.prev)
      BY <2>2 DEF Unwind
    <3>2. \A b : Holds(skip_enabled(ctx, b), mark(ctx), ctx.m_mem,
                       ctx.m_lr_stack, Arena)
      BY <1>1, HoldsScopes
    <3>3. Holds(ctx', mark(ctx), ctx.m_mem, ctx.m_lr_stack, Arena)
      BY <3>1, <3>2
    <3> QED
      BY <3>3, NoneEvicted
  <2>3. CASE Top.kind \notin {"Alternation", "Repetition", "Lexeme"}
    <3>1. ctx' = ctx
      BY <2>3 DEF Unwind
    <3> QED
      BY <1>1, <3>1, NoneEvicted
  <2> QED
    BY <2>1, <2>2, <2>3
<1>4. Evicted(ctx.m_mem, ctx'.m_mem) /\ Arena' = Arena
  BY <1>3 DEF Holds, Arena
<1>5. Keeps(Arena, Built(Arena, stack), Arena', Built(Arena', stack'))
  BY <1>1, <1>2, <1>4, BuildsPopped, NodesKept
<1>6. MemoStays
  BY <1>4, <1>5, MemoEvicted
<1> QED
  BY <1>2, <1>6, ThrownTidy

\* Grammar::parse itself touches neither memo nor arena.
LEMMA GrammarTree == Inv /\ TreeInv /\ GrammarStep => TreeInv'
<1> SUFFICES ASSUME Inv, TreeInv, GrammarStep PROVE TreeInv'
  OBVIOUS
<1>1. stack = <<>> /\ stack' = stack
  <2>1. CASE ctl.mode = "idle"
    <3>1. stack = <<>>
      BY <2>1, TopOKFacts DEF TopOK
    <3> QED
      BY <2>1, <3>1 DEF GrammarStep, StartParse, StartRule, ParseReturns,
         ParseCatches, ParseThrows, TakeError, TakeDiagnostics, Finish
  <2>2. CASE ctl.mode # "idle"
    BY <2>2 DEF GrammarStep, StartParse, StartRule, ParseReturns,
       ParseCatches, ParseThrows, TakeError, TakeDiagnostics, Finish
  <2> QED
    BY <2>1, <2>2
<1>2. ctx'.m_mem = ctx.m_mem /\ Arena' = Arena
  <2>1. /\ \A x : Holds(internal_set_skipper(ctx, x), mark(ctx), ctx.m_mem,
                        ctx.m_lr_stack, Arena)
        /\ Holds(take_error(ctx), mark(ctx), ctx.m_mem, ctx.m_lr_stack, Arena)
        /\ Holds(take_diagnostics(ctx), mark(ctx), ctx.m_mem, ctx.m_lr_stack, Arena)
        /\ Holds(ctx, mark(ctx), ctx.m_mem, ctx.m_lr_stack, Arena)
    <3>1. Holds(ctx, mark(ctx), ctx.m_mem, ctx.m_lr_stack, Arena)
      BY ArenaTyped, ContextHolds DEF Arena, mark
    <3> QED
      BY <3>1, HoldsScopes
  <2>2. Holds(ctx', mark(ctx), ctx.m_mem, ctx.m_lr_stack, Arena)
    BY <2>1 DEF GrammarStep, StartParse, StartRule, ParseReturns,
       ParseCatches, ParseThrows, TakeError, TakeDiagnostics, Finish
  <2> QED
    BY <2>2 DEF Holds, Arena
<1>3. ctl'.mode # "return"
  <2>1. \A m : ctl' = [ctl EXCEPT !.mode = m] => ctl'.mode = m
    BY Facts DEF Control
  <2>2. \A m, e : ctl' = [ctl EXCEPT !.mode = m, !.e = e] => ctl'.mode = m
    BY Facts DEF Control
  <2>3. CASE StartParse
    <3>1. ctl' = [ctl EXCEPT !.mode = "skip", !.e = Ref(gram.start)]
      BY <2>3 DEF StartParse
    <3> QED
      BY <2>2, <3>1
  <2>4. CASE StartRule
    BY <2>2, <2>4 DEF StartRule, Call
  <2>5. CASE ParseReturns \/ ParseCatches \/ ParseThrows
    BY <2>1, <2>5 DEF ParseReturns, ParseCatches, ParseThrows, Finish, Goto
  <2>6. CASE TakeError \/ TakeDiagnostics
    BY <2>6 DEF TakeError, TakeDiagnostics
  <2> QED
    BY <2>3, <2>4, <2>5, <2>6 DEF GrammarStep
<1>4. MemoStays
  BY <1>1, <1>2 DEF MemoStays, TreeInv, Arena, Built, Building
<1> QED
  BY <1>1, <1>3, <1>4, OutsideTidy

-----------------------------------------------------------------------------
(* NonTerminal::parse.                                                     *)

\* update_rule_state leaves every other entry alone.
LEMMA MemoUpdated ==
  ASSUME NEW m, NEW p, NEW r, NEW x, NEW w,
         w = IF m[<<p, r>>] # Absent THEN [m EXCEPT ![<<p, r>>] = x] ELSE m
  PROVE  \A k \in DOMAIN w :
           \/ k \in DOMAIN m /\ w[k] = m[k]
           \/ k = <<p, r>> /\ w[k] = x
<1>1. CASE w = m
  BY <1>1
<1>2. CASE w = [m EXCEPT ![<<p, r>>] = x]
  BY <1>2
<1> QED
  BY <1>1, <1>2

\* lr_pop and clear_growing_head touch neither cursor nor memo nor arena.
LEMMA LeaveHolds ==
  ASSUME Inv
  PROVE  Holds(LeaveRule(ctx), mark(ctx), ctx.m_mem,
               SubSeq(ctx.m_lr_stack, 1, Top.lr - 1), Arena)
<1> DEFINE l == SubSeq(ctx.m_lr_stack, 1, Top.lr - 1)
           c == lr_pop(ctx, Top.lr)
<1>1. Holds(ctx, mark(ctx), ctx.m_mem, ctx.m_lr_stack, Arena)
  BY ArenaTyped, ContextHolds DEF Arena, mark
<1>2. \A i : Holds(lr_pop(ctx, i), mark(ctx), ctx.m_mem,
                   SubSeq(ctx.m_lr_stack, 1, i - 1), Arena)
  BY <1>1, HoldsMemo
<1>3. Holds(c, mark(ctx), ctx.m_mem, l, Arena)
  BY <1>2
<1>4. LeaveRule(ctx) = IF MyLR.is_head THEN clear_growing_head(c, Top.start)
                       ELSE c
  BY DEF LeaveRule
<1> HIDE DEF c, l
<1>5. \A q : Holds(clear_growing_head(c, q), mark(ctx), ctx.m_mem, l, Arena)
  BY <1>3, HoldsScopes
<1>6. Holds(LeaveRule(ctx), mark(ctx), ctx.m_mem, l, Arena)
  BY <1>3, <1>4, <1>5
<1> QED
  BY <1>6 DEF l

\* The innermost call, a rule's, returns r and memoises it with x.
LEMMA RuleClosing ==
  ASSUME Inv, TreeInv, ctl.mode # "throw", stack # <<>>,
         Top.kind = "NonTerminal", Pop,
         NEW r, Return(r, Top.start), NEW q, NEW N, NEW d,
         Holds(d, q, ctx.m_mem, SubSeq(ctx.m_lr_stack, 1, Top.lr - 1), N),
         NEW x, ctx' = update_rule_state(d, ThisRule, Top.start, x),
         Len(N) \in Nat, SameNodes(Arena, N, {}), x.m_cached_result = r
  PROVE  /\ stack' = Front(stack)
         /\ Keeps(Arena, Built(Arena, stack), N, Built(N, stack'))
         /\ /\ Answer(N, Built(N, stack'), r, Top.start, q)
            /\ Answer(N, Built(N, stack'), r, Top.start, x.m_last_pos)
            => TreeInv'
<1> DEFINE w == IF ctx.m_mem[<<Top.start, ThisRule>>] # Absent
                THEN [ctx.m_mem EXCEPT ![<<Top.start, ThisRule>>] = x]
                ELSE ctx.m_mem
           l == SubSeq(ctx.m_lr_stack, 1, Top.lr - 1)
<1>1. Holds(ctx', q, w, l, N)
  <2>1. \A p, s, y : Holds(update_rule_state(d, s, p, y), q,
          IF ctx.m_mem[<<p, s>>] # Absent THEN [ctx.m_mem EXCEPT ![<<p, s>>] = y]
          ELSE ctx.m_mem, l, N)
    BY HoldsMemo
  <2> QED
    BY <2>1
<1>2. \A k \in DOMAIN w :
        \/ k \in DOMAIN ctx.m_mem /\ w[k] = ctx.m_mem[k]
        \/ k = <<Top.start, ThisRule>> /\ w[k] = x
  <2>1. \A m, p, s : \A v :
          v = (IF m[<<p, s>>] # Absent THEN [m EXCEPT ![<<p, s>>] = x] ELSE m) =>
            \A k \in DOMAIN v : \/ k \in DOMAIN m /\ v[k] = m[k]
                                \/ k = <<p, s>> /\ v[k] = x
    BY MemoUpdated
  <2> QED
    BY <2>1
<1>3. \A j \in 1..Len(ctx.m_lr_stack) : j >= Top.lr \/ l[j] = ctx.m_lr_stack[j]
  BY Facts, RuleTop
<1> HIDE DEF w, l
<1>4. /\ mark(ctx') = q /\ Arena' = N /\ ctx'.m_mem = w
      /\ ctx'.m_lr_stack = l /\ stack' = Front(stack)
      /\ ctl'.mode = "return" /\ ctl'.res = r /\ ctl'.at = Top.start
  BY <1>1, Facts DEF Holds, mark, Arena, Pop, Front, Return, Control
<1>5. CallsTidy /\ BuildsNoOther
  BY <1>4, BuildsPopped DEF TreeInv
<1>6. SameNodes(Arena, N, TopNodes)
  BY DEF TopNodes, RunsSkipper
<1>7. Spares(Len(stack) - 1)
  BY <1>3, <1>4, <1>5, <1>6, SparesCallers
<1>8. Keeps(Arena, Built(Arena, stack), N, Built(N, stack'))
  BY <1>4, <1>7 DEF Spares
<1>9. ASSUME Answer(N, Built(N, stack'), r, Top.start, q),
             Answer(N, Built(N, stack'), r, Top.start, x.m_last_pos)
      PROVE  TreeInv'
  <2>1. Answer(Arena', Built(Arena', stack'), x.m_cached_result, Top.start,
               x.m_last_pos)
    BY <1>4, <1>9
  <2>2. Keeps(Arena, Built(Arena, stack), Arena', Built(Arena', stack'))
    BY <1>4, <1>8
  <2>3. ASSUME NEW p, NEW s, p = Top.start, s = ThisRule
        PROVE  MemoStays
    <3>1. \A k \in DOMAIN ctx'.m_mem :
            \/ k \in DOMAIN ctx.m_mem /\ ctx'.m_mem[k] = ctx.m_mem[k]
            \/ ctx'.m_mem[k] = Absent
            \/ k = <<p, s>> /\ ctx'.m_mem[k] = x
      BY <1>2, <1>4, <2>3
    <3>2. Answer(Arena', Built(Arena', stack'), x.m_cached_result, p, x.m_last_pos)
      BY <2>1, <2>3
    <3> QED
      BY ONLY Inv, TreeInv, <2>2, <3>1, <3>2, MemoAnswered
  <2>4. MemoStays
    BY <2>3
  <2> QED
    BY <1>4, <1>7, <1>9, <2>4, ClosesFrame
<1> QED
  BY <1>4, <1>8, <1>9

\* Of a rule whose grow loop has ended: the longest match reaches the cursor.
LEMMA GrownTop ==
  ASSUME Inv, TreeInv, stack # <<>>, Top.kind = "NonTerminal",
         ctl.mode = "finish"
  PROVE  /\ Answer(Arena, Built(Arena, stack), Top.best, Top.start, mark(ctx))
         /\ Top.rs.m_last_pos = mark(ctx)
         /\ Top.start <= mark(ctx)
<1>1. Here = mark(ctx) /\ (ctl.mode = "finish") = TRUE
  BY DEF Here
<1>2. FrameTidy(Arena, Built(Arena, stack), ctx.m_lr_stack, Top, mark(ctx), TRUE)
  BY <1>1, TopTidy
<1> QED
  BY <1>2 DEF FrameTidy

\* Of a rule whose body has returned: it was entered where the rule was.
LEMMA BodyTop ==
  ASSUME Inv, TreeInv, stack # <<>>, Top.kind = "NonTerminal",
         ctl.mode = "return"
  PROVE  /\ Answer(Arena, Built(Arena, stack), Top.best, Top.start, MyLR.last_pos)
         /\ Answer(Arena, Built(Arena, stack), ctl.res, Top.start, mark(ctx))
         /\ Top.rs.m_last_pos = MyLR.last_pos
         /\ Top.start <= MyLR.last_pos
         /\ ctl.at = Top.start
<1>1. Here = ctl.at /\ (ctl.mode = "finish") = FALSE
  BY DEF Here
<1>2. FrameTidy(Arena, Built(Arena, stack), ctx.m_lr_stack, Top, ctl.at, FALSE)
  BY <1>1, TopTidy
<1>3. ctl.at = Top.start
  BY <1>2 DEF FrameTidy
<1>4. Answer(Arena, Built(Arena, stack), ctl.res, Top.start, mark(ctx))
  BY <1>3 DEF TreeInv, Arena
<1> QED
  BY <1>2, <1>3, <1>4 DEF FrameTidy, MyLR

\* (a), (b) and (c): the memo answers.
LEMMA MemoAnswers ==
  ASSUME Inv, TreeInv, Calling("NonTerminal"), stack' = stack,
         HasMemo(ctx, ctl.e.rule, mark(ctx)),
         NEW rs, rs = memo_get(ctx, ctl.e.rule, mark(ctx)),
         Return(rs.m_cached_result, mark(ctx)),
         mark(ctx') = rs.m_last_pos, Arena' = Arena, ctx'.m_mem = ctx.m_mem,
         \A j \in 1..Len(ctx.m_lr_stack) :
           ctx'.m_lr_stack[j].last_pos = ctx.m_lr_stack[j].last_pos
  PROVE  TreeInv'
<1>1. ctl.mode = "call" /\ CallsTidy /\ BuildsNoOther
  BY BuildsSame DEF Calling, TreeInv
<1>2. Len(Arena') \in Nat /\ SameNodes(Arena, Arena', {})
  BY ArenaTyped DEF SameNodes
<1>3. Spares(Len(stack))
  BY <1>1, <1>2, SparesAll
<1>4. MemoStays
  BY <1>3, NoneEvicted, MemoEvicted DEF Spares
<1>5. <<mark(ctx), ctl.e.rule>> \in DOMAIN ctx.m_mem
  <2>1. ctl.e.rule \in Rules /\ mark(ctx) \in 0..Len(input)
    BY Facts DEF Calling, ExprOK
  <2>2. ctx.m_mem \in [(0..Len(input)) \X Rules
                         -> RuleStates(Len(input)) \cup {Absent}]
    BY ArenaTyped, FieldTypes
  <2> QED
    BY <2>1, <2>2
<1>6. Answer(Arena, Built(Arena, stack), rs.m_cached_result, mark(ctx),
             rs.m_last_pos)
  <2>1. \A p, s : <<p, s>>[1] = p
    OBVIOUS
  <2>2. ctx.m_mem[<<mark(ctx), ctl.e.rule>>] # Absent
        /\ rs = ctx.m_mem[<<mark(ctx), ctl.e.rule>>]
    BY DEF HasMemo, memo_get
  <2> QED
    BY <1>5, <2>1, <2>2 DEF TreeInv, MemoTidy, Arena
<1>7. /\ ctl'.mode = "return" /\ ctl'.res = rs.m_cached_result
      /\ ctl'.at = mark(ctx)
  BY Facts DEF Return, Control
<1>8. Answer(Arena', Built(Arena', stack'), ctl'.res, ctl'.at, mark(ctx'))
  BY <1>6, <1>7
<1> QED
  BY <1>1, <1>3, <1>4, <1>7, <1>8, ReturnsNow

\* Marking a cycle's head moves neither cursor nor seeds.
LEMMA HeadMarked ==
  ASSUME Inv, lr_in_progress(ctx, ctl.e.rule, mark(ctx)),
         NEW c, c = mark_head(ctx, ctl.e.rule, mark(ctx))
  PROVE  /\ Holds(c, mark(ctx), ctx.m_mem, c.m_lr_stack, Arena)
         /\ \A j \in 1..Len(ctx.m_lr_stack) :
              c.m_lr_stack[j].last_pos = ctx.m_lr_stack[j].last_pos
<1> DEFINE l == ctx.m_lr_stack
           hits == {k \in 1..Len(l) : l[k].pos = mark(ctx)
                                      /\ l[k].rule = ctl.e.rule}
           top == CHOOSE k \in hits : \A j \in hits : j <= k
           x == [l[top] EXCEPT !.is_head = TRUE]
<1>1. /\ Holds(ctx, mark(ctx), ctx.m_mem, l, Arena)
      /\ l \in Seq(LRFrames(Len(input)))
  BY Facts, ArenaTyped, ContextHolds DEF Arena, mark
<1>2. c = IF l[top].is_head THEN ctx
          ELSE [ctx EXCEPT !.m_lr_stack = [l EXCEPT ![top] = x],
                           !.m_growing_head[mark(ctx)] = ctl.e.rule]
  BY DEF mark_head
<1> HIDE DEF top, hits
<1>3. CASE c = ctx
  BY <1>1, <1>3
<1>4. CASE c = [ctx EXCEPT !.m_lr_stack = [l EXCEPT ![top] = x],
                           !.m_growing_head[mark(ctx)] = ctl.e.rule]
  <2> DEFINE k == [l EXCEPT ![top] = x]
  <2>1. \A j \in 1..Len(l) : k[j].last_pos = l[j].last_pos
    <3>1. top \in 1..Len(l) => x.last_pos = l[top].last_pos
      BY <1>1 DEF LRFrames
    <3> HIDE DEF x
    <3>2. \A j \in 1..Len(l) : k[j] = IF j = top THEN x ELSE l[j]
      BY <1>1
    <3> QED
      BY <3>1, <3>2
  <2> HIDE DEF x
  <2>2. Holds(c, mark(ctx), ctx.m_mem, k, Arena)
    BY <1>1, <1>4 DEF Holds, Members
  <2>3. c.m_lr_stack = k
    BY <2>2 DEF Holds
  <2> QED
    BY <2>1, <2>2, <2>3
<1> QED
  BY <1>2, <1>3, <1>4

\* The memo keeps entries it had and may have x for the innermost call's rule.
RuleMemo(x) ==
  \A k \in DOMAIN ctx'.m_mem :
    \/ k \in DOMAIN ctx.m_mem /\ ctx'.m_mem[k] = ctx.m_mem[k]
    \/ ctx'.m_mem[k] = Absent
    \/ k = <<Top.start, ThisRule>> /\ ctx'.m_mem[k] = x

\* Such a memo holds answers when x is one.
LEMMA RuleAnswered ==
  ASSUME Inv, TreeInv, NEW x, RuleMemo(x),
         Answer(Arena', Built(Arena', stack'), x.m_cached_result, Top.start,
                x.m_last_pos),
         Keeps(Arena, Built(Arena, stack), Arena', Built(Arena', stack'))
  PROVE  MemoStays
<1>1. ASSUME NEW p, NEW s, p = Top.start, s = ThisRule
      PROVE  MemoStays
  <2>1. \A k \in DOMAIN ctx'.m_mem :
          \/ k \in DOMAIN ctx.m_mem /\ ctx'.m_mem[k] = ctx.m_mem[k]
          \/ ctx'.m_mem[k] = Absent
          \/ k = <<p, s>> /\ ctx'.m_mem[k] = x
    BY <1>1 DEF RuleMemo
  <2>2. Answer(Arena', Built(Arena', stack'), x.m_cached_result, p, x.m_last_pos)
    BY <1>1
  <2> QED
    BY <2>1, <2>2, MemoAnswered
<1> QED
  BY <1>1

\* A rule's call goes on as f: its longest match so far, f.best, ends at its
\* marker, and its memo entry may have become the answer x.
LEMMA RuleGoesOn ==
  ASSUME Inv, TreeInv, ctl.mode # "throw", stack # <<>>,
         Top.kind = "NonTerminal", NEW f,
         stack' = [stack EXCEPT ![Len(stack)] = f], f.kind = Top.kind,
         f.start = Top.start, f.node = Top.node, f.lr = Top.lr,
         Arena' = Arena,
         \A j \in 1..Len(ctx.m_lr_stack) :
           \/ j >= Top.lr
           \/ ctx'.m_lr_stack[j].last_pos = ctx.m_lr_stack[j].last_pos,
         NEW x, Answer(Arena, Built(Arena, stack), x.m_cached_result, Top.start,
                       x.m_last_pos),
         RuleMemo(x),
         NEW e, e = ctx'.m_lr_stack[Top.lr].last_pos,
         Top.start <= e, f.rs.m_last_pos = e,
         Answer(Arena, Built(Arena, stack), f.best, Top.start, e),
         \/ ctl'.mode = "call" /\ mark(ctx') = Top.start
         \/ ctl'.mode = "finish" /\ mark(ctx') = e
  PROVE  TreeInv'
<1>2. CallsTidy /\ BuildsNoOther
  BY BuildsEdited DEF TreeInv
<1>3. Len(Arena') \in Nat /\ SameNodes(Arena, Arena', TopNodes)
  BY ArenaTyped DEF SameNodes
<1>4. \A j \in 1..Len(ctx.m_lr_stack) :
        \/ Top.kind = "NonTerminal" /\ j >= Top.lr
        \/ ctx'.m_lr_stack[j].last_pos = ctx.m_lr_stack[j].last_pos
  OBVIOUS
<1>5. Spares(Len(stack) - 1)
  BY <1>2, <1>3, <1>4, SparesCallers
<1>6. Keeps(Arena, Built(Arena, stack), Arena', Built(Arena', stack'))
  BY <1>5 DEF Spares
<1>7. MemoStays
  <2>1. Answer(Arena', Built(Arena', stack'), x.m_cached_result, Top.start,
               x.m_last_pos)
    BY <1>6, AnswerKept
  <2> QED
    BY <1>6, <2>1, RuleAnswered
<1>8. Answer(Arena', Built(Arena', stack'), f.best, Top.start, e)
  BY <1>6, AnswerKept
<1>9. Top.start <= mark(ctx')
  <2>1. Top.start \in Nat
    BY RuleTop, Facts
  <2> QED
    BY <2>1
<1>10. mark(ctx') = IF ctl'.mode = "finish" THEN e ELSE Top.start
  OBVIOUS
<1>11. FrameTidy(Arena', Built(Arena', stack'), ctx'.m_lr_stack, f, mark(ctx'),
                 ctl'.mode = "finish")
  BY <1>8, <1>9, <1>10 DEF FrameTidy, RunsSkipper
<1> QED
  BY <1>5, <1>7, <1>11, GoesOn

\* A rule that is being parsed, or whose answer is known, is not parsed again.
LEMMA RememberedTree ==
  ASSUME Inv, TreeInv, NonTerminalReenter \/ NonTerminalMemoHit
  PROVE  TreeInv'
<1> DEFINE rs == memo_get(ctx, ctl.e.rule, mark(ctx))
           q == rs.m_last_pos
<1>1. /\ Calling("NonTerminal") /\ stack' = stack
      /\ HasMemo(ctx, ctl.e.rule, mark(ctx))
      /\ Return(rs.m_cached_result, mark(ctx))
  BY DEF NonTerminalReenter, NonTerminalMemoHit
<1>2. \E c : /\ ctx' = reset(c, q)
             /\ Holds(c, mark(ctx), ctx.m_mem, c.m_lr_stack, Arena)
             /\ \A j \in 1..Len(ctx.m_lr_stack) :
                  c.m_lr_stack[j].last_pos = ctx.m_lr_stack[j].last_pos
  <2>1. CASE NonTerminalReenter
    <3> DEFINE c == mark_head(ctx, ctl.e.rule, mark(ctx))
    <3>1. ctx' = reset(c, q) /\ lr_in_progress(ctx, ctl.e.rule, mark(ctx))
      BY <2>1 DEF NonTerminalReenter
    <3>2. /\ Holds(c, mark(ctx), ctx.m_mem, c.m_lr_stack, Arena)
          /\ \A j \in 1..Len(ctx.m_lr_stack) :
               c.m_lr_stack[j].last_pos = ctx.m_lr_stack[j].last_pos
      BY <3>1, HeadMarked
    <3> HIDE DEF c, q
    <3> QED
      BY <3>1, <3>2
  <2>2. CASE NonTerminalMemoHit
    <3>1. ctx' = reset(ctx, q)
      BY <2>2 DEF NonTerminalMemoHit
    <3>2. Holds(ctx, mark(ctx), ctx.m_mem, ctx.m_lr_stack, Arena)
      BY ArenaTyped, ContextHolds DEF Arena, mark
    <3> HIDE DEF q
    <3> QED
      BY <3>1, <3>2
  <2> QED
    BY <2>1, <2>2
<1> HIDE DEF rs
<1>3. PICK c : /\ ctx' = reset(c, q)
               /\ Holds(c, mark(ctx), ctx.m_mem, c.m_lr_stack, Arena)
               /\ \A j \in 1..Len(ctx.m_lr_stack) :
                    c.m_lr_stack[j].last_pos = ctx.m_lr_stack[j].last_pos
  BY <1>2
<1> HIDE DEF q
<1>4. Holds(reset(c, q), q, ctx.m_mem, c.m_lr_stack, Arena)
  BY <1>3, HoldsNodes
<1>5. /\ mark(ctx') = q /\ Arena' = Arena /\ ctx'.m_mem = ctx.m_mem
      /\ ctx'.m_lr_stack = c.m_lr_stack
  BY <1>3, <1>4 DEF Holds, mark, Arena
<1>6. \A j \in 1..Len(ctx.m_lr_stack) :
        ctx'.m_lr_stack[j].last_pos = ctx.m_lr_stack[j].last_pos
  BY <1>3, <1>5
<1>7. rs = memo_get(ctx, ctl.e.rule, mark(ctx)) /\ mark(ctx') = rs.m_last_pos
  BY <1>5 DEF rs, q
<1> QED
  BY <1>1, <1>5, <1>6, <1>7, MemoAnswers

\* A rule's first call plants the seed, a failure, and opens a frame.
LEMMA EnterTree ==
  ASSUME Inv, TreeInv, NonTerminalEnter
  PROVE  TreeInv'
<1> DEFINE r == ctl.e.rule
           p == mark(ctx)
           m == ctx.m_mem
           l == ctx.m_lr_stack
           f == [NewFrame("NonTerminal", ctl.e) EXCEPT !.lr = Len(l) + 1]
           x == [rule |-> r, pos |-> p, last_pos |-> p, is_head |-> FALSE]
           v == IF m[<<p, r>>] # Absent THEN m
                ELSE [m EXCEPT ![<<p, r>>] = FreshRuleState]
           w == IF v[<<p, r>>] # Absent THEN [v EXCEPT ![<<p, r>>] = f.rs] ELSE v
<1>1. /\ ctl.mode = "call" /\ stack' = Append(stack, f) /\ ctl'.mode = "call"
      /\ ctx' = update_rule_state(lr_push(rule_state(ctx, r, p), x), r, p, f.rs)
  BY Facts DEF NonTerminalEnter, Calling, Push, Call, Control
<1>2. /\ f.kind = "NonTerminal" /\ f.start = p /\ f.lr = Len(l) + 1
      /\ f.rs.m_last_pos = p /\ f.rs.m_cached_result = Failed /\ f.best = Failed
  BY DEF NewFrame
<1>3. x.last_pos = p
  OBVIOUS
<1>4. FreshRuleState.m_cached_result = Failed
  BY DEF FreshRuleState
<1>5. Holds(ctx, p, m, l, Arena) /\ l \in Seq(LRFrames(Len(input)))
      /\ Len(l) \in Nat /\ p \in Nat /\ CallsTidy
  <2>1. Holds(ctx, p, m, l, Arena)
    BY ArenaTyped, ContextHolds DEF Arena, mark
  <2>2. p \in 0..Len(input) /\ Len(input) \in Nat
    BY Facts
  <2>3. l \in Seq(LRFrames(Len(input))) /\ Len(l) \in Nat /\ CallsTidy
    BY <1>1, Facts DEF TreeInv
  <2> QED
    BY <2>1, <2>2, <2>3
<1>6. \A k \in DOMAIN v : \/ k \in DOMAIN m /\ v[k] = m[k]
                          \/ v[k].m_cached_result = Failed
  <2>1. CASE v = m
    BY <2>1
  <2>2. CASE v = [m EXCEPT ![<<p, r>>] = FreshRuleState]
    BY <1>4, <2>2
  <2> QED
    BY <2>1, <2>2
<1> HIDE DEF f, x, r, p, m, l
<1>7. Holds(rule_state(ctx, r, p), p, v, l, Arena)
  BY <1>5, HoldsMemo
<1> HIDE DEF v
<1>8. Holds(lr_push(rule_state(ctx, r, p), x), p, v, Append(l, x), Arena)
  BY <1>7, HoldsMemo
<1>9. Holds(ctx', p, w, Append(l, x), Arena)
  <2>1. \A c : Holds(c, p, v, Append(l, x), Arena) =>
          Holds(update_rule_state(c, r, p, f.rs), p, w, Append(l, x), Arena)
    BY HoldsMemo
  <2> QED
    BY <1>1, <1>8, <2>1
<1>10. \A k \in DOMAIN w : \/ k \in DOMAIN m /\ w[k] = m[k]
                           \/ w[k].m_cached_result = Failed
  <2>1. CASE w = v
    BY <1>6, <2>1
  <2>2. CASE w = [v EXCEPT ![<<p, r>>] = f.rs]
    BY <1>2, <1>6, <2>2
  <2> QED
    BY <2>1, <2>2
<1> HIDE DEF w
<1>11. /\ mark(ctx') = p /\ Arena' = Arena /\ ctx'.m_mem = w
       /\ ctx'.m_lr_stack = Append(l, x)
  BY <1>9 DEF Holds, mark, Arena
<1>12. BuildsNoOther
  <2>1. f.kind \notin RunsSkipper
    BY <1>2 DEF RunsSkipper
  <2> QED
    BY <1>1, <2>1, BuildsPushed
<1>13. Spares(Len(stack))
  <2>1. Len(Arena') \in Nat /\ SameNodes(Arena, Arena', {})
    BY <1>11, ArenaTyped DEF SameNodes
  <2>2. \A j \in 1..Len(l) : Append(l, x)[j] = l[j]
    BY <1>5
  <2>3. \A j \in 1..Len(ctx.m_lr_stack) :
          ctx'.m_lr_stack[j].last_pos = ctx.m_lr_stack[j].last_pos
    BY <1>11, <2>2 DEF l
  <2> QED
    BY <1>5, <1>12, <2>1, <2>3, SparesAll
<1>14. Keeps(Arena, Built(Arena, stack), Arena', Built(Arena', stack'))
  BY <1>13 DEF Spares
<1>15. MemoStays
  <2>1. MemoTidy(Arena, Built(Arena, stack), m)
    BY DEF TreeInv, Arena, m
  <2>2. \A k \in DOMAIN w :
          \/ k \in DOMAIN m /\ w[k] = m[k]
          \/ w[k] = Absent
          \/ Answer(Arena', Built(Arena', stack'), w[k].m_cached_result, k[1],
                    w[k].m_last_pos)
    BY <1>10, NoTree
  <2>3. MemoTidy(Arena', Built(Arena', stack'), w)
    BY <1>14, <2>1, <2>2, MemoTidyKept
  <2> QED
    BY <1>11, <2>3 DEF MemoStays
<1>16. FrameTidy(Arena', Built(Arena', stack'), ctx'.m_lr_stack, f, p, FALSE)
  <2>1. ctx'.m_lr_stack[f.lr].last_pos = p
    BY <1>2, <1>3, <1>5, <1>11
  <2>2. p <= p
    BY <1>5
  <2> QED
    BY <1>2, <2>1, <2>2, NoTree DEF FrameTidy, RunsSkipper
<1> QED
  <2>1. f.kind \notin RunsSkipper
    BY <1>2 DEF RunsSkipper
  <2>2. f.start = mark(ctx) /\ mark(ctx') = mark(ctx) /\ mark(ctx) = p
    BY <1>2, <1>11 DEF p
  <2>3. FrameTidy(Arena', Built(Arena', stack'), ctx'.m_lr_stack, f, mark(ctx), FALSE)
    BY <1>16, <2>2
  <2> QED
    BY <1>1, <1>13, <1>15, <2>1, <2>2, <2>3, OpensFrame

\* The body failed: the longest match so far, if any, is what remains.
LEMMA BodyFailedTree ==
  ASSUME Inv, TreeInv, NonTerminalBodyFailed
  PROVE  TreeInv'
<1> DEFINE q == MyLR.last_pos
           x == [m_last_pos |-> q, m_cached_result |-> Failed]
<1>1. /\ ctl.mode = "return" /\ stack # <<>> /\ Top.kind = "NonTerminal"
      /\ ctx' = reset(ctx, q) /\ ctl'.mode = "finish" /\ stack' = stack
  BY Facts DEF NonTerminalBodyFailed, ReturnedTo, At, Goto, Control
<1>2. stack' = [stack EXCEPT ![Len(stack)] = Top]
  BY <1>1, SameTop
<1>3. Holds(ctx, mark(ctx), ctx.m_mem, ctx.m_lr_stack, Arena)
  BY ArenaTyped, ContextHolds DEF Arena, mark
<1>4. q = ctx.m_lr_stack[Top.lr].last_pos
  BY DEF MyLR
<1>5. x.m_cached_result = Failed
  OBVIOUS
<1> HIDE DEF q, x
<1>6. Holds(ctx', q, ctx.m_mem, ctx.m_lr_stack, Arena)
  BY <1>1, <1>3, HoldsNodes
<1>7. /\ Answer(Arena, Built(Arena, stack), Top.best, Top.start, q)
      /\ Top.rs.m_last_pos = q /\ Top.start <= q
  BY <1>1, BodyTop DEF q
<1>8. Answer(Arena, Built(Arena, stack), x.m_cached_result, Top.start, x.m_last_pos)
  BY <1>5, NoTree
<1>9. /\ mark(ctx') = q /\ Arena' = Arena /\ ctx'.m_mem = ctx.m_mem
      /\ ctx'.m_lr_stack = ctx.m_lr_stack
  BY <1>6 DEF Holds, mark, Arena
<1>10. RuleMemo(x)
  BY <1>9 DEF RuleMemo
<1>11. q = ctx'.m_lr_stack[Top.lr].last_pos
  BY <1>4, <1>9
<1>12. \A j \in 1..Len(ctx.m_lr_stack) :
         \/ j >= Top.lr
         \/ ctx'.m_lr_stack[j].last_pos = ctx.m_lr_stack[j].last_pos
  BY <1>9
<1> QED
  BY <1>1, <1>2, <1>7, <1>8, <1>9, <1>10, <1>11, <1>12, RuleGoesOn

\* The body got no further: the longest match, or an empty first one, remains.
LEMMA FixedPointTree ==
  ASSUME Inv, TreeInv, NonTerminalFixedPoint
  PROVE  TreeInv'
<1> DEFINE q == MyLR.last_pos
           best == IF Top.best.success THEN Top.best ELSE ctl.res
           x == [m_last_pos |-> q, m_cached_result |-> best]
           f == [Top EXCEPT !.best = best, !.rs = x]
           m == ctx.m_mem
           w == IF m[<<Top.start, ThisRule>>] # Absent
                THEN [m EXCEPT ![<<Top.start, ThisRule>>] = x] ELSE m
<1>1. /\ ctl.mode = "return" /\ stack # <<>> /\ Top.kind = "NonTerminal"
      /\ ctl'.mode = "finish" /\ stack' = [stack EXCEPT ![Len(stack)] = f]
      /\ ctx' = reset(update_rule_state(ctx, ThisRule, Top.start, x), q)
      /\ mark(ctx) <= q /\ ctl.res.success = TRUE
  BY Facts DEF NonTerminalFixedPoint, ReturnedTo, At, Goto, Control, SetTop
<1>2. /\ Top.start \in Nat /\ q \in Nat /\ mark(ctx) \in Nat /\ Top \in Frames
      /\ ~ Top.best.success => q = Top.start
  BY <1>1, RuleTop, Facts
<1>3. /\ f.kind = Top.kind /\ f.start = Top.start /\ f.node = Top.node
      /\ f.lr = Top.lr /\ f.best = best /\ f.rs = x
  BY <1>2 DEF Frames
<1>4. x.m_last_pos = q /\ x.m_cached_result = best
  OBVIOUS
<1>5. /\ Answer(Arena, Built(Arena, stack), Top.best, Top.start, q)
      /\ Answer(Arena, Built(Arena, stack), ctl.res, Top.start, mark(ctx))
      /\ Top.start <= q
  BY <1>1, BodyTop
<1>6. Answer(Arena, Built(Arena, stack), best, Top.start, q)
  <2>1. CASE Top.best.success
    BY <1>5, <2>1
  <2>2. CASE ~ Top.best.success
    <3>1. Top.start <= mark(ctx)
      BY <1>1, <1>5 DEF Answer
    <3>2. mark(ctx) = q
      BY <1>1, <1>2, <2>2, <3>1
    <3> QED
      BY <1>5, <2>2, <3>2
  <2> QED
    BY <2>1, <2>2
<1> HIDE DEF x, f, best
<1>7. Holds(ctx', q, w, ctx.m_lr_stack, Arena)
  <2>1. Holds(ctx, mark(ctx), m, ctx.m_lr_stack, Arena)
    BY ArenaTyped, ContextHolds DEF Arena, mark
  <2>2. \A p, s : Holds(update_rule_state(ctx, s, p, x), mark(ctx),
          IF m[<<p, s>>] # Absent THEN [m EXCEPT ![<<p, s>>] = x] ELSE m,
          ctx.m_lr_stack, Arena)
    BY <2>1, HoldsMemo
  <2>3. Holds(update_rule_state(ctx, ThisRule, Top.start, x), mark(ctx), w,
              ctx.m_lr_stack, Arena)
    BY <2>2
  <2> HIDE DEF w, q
  <2> QED
    BY <1>1, <2>3, HoldsNodes
<1>8. \A k \in DOMAIN w : \/ k \in DOMAIN m /\ w[k] = m[k]
                          \/ w[k] = Absent
                          \/ k = <<Top.start, ThisRule>> /\ w[k] = x
  BY MemoUpdated
<1>9. q = ctx.m_lr_stack[Top.lr].last_pos
  BY DEF MyLR
<1> HIDE DEF q, w
<1>10. /\ mark(ctx') = q /\ Arena' = Arena /\ ctx'.m_mem = w
       /\ ctx'.m_lr_stack = ctx.m_lr_stack
  BY <1>7 DEF Holds, mark, Arena
<1>11. RuleMemo(x)
  BY <1>8, <1>10 DEF RuleMemo
<1>12. /\ Answer(Arena, Built(Arena, stack), x.m_cached_result, Top.start,
                 x.m_last_pos)
       /\ Answer(Arena, Built(Arena, stack), f.best, Top.start, q)
       /\ f.rs.m_last_pos = q
  BY <1>3, <1>4, <1>6
<1>13. q = ctx'.m_lr_stack[Top.lr].last_pos
  BY <1>9, <1>10
<1>14. \A j \in 1..Len(ctx.m_lr_stack) :
         \/ j >= Top.lr
         \/ ctx'.m_lr_stack[j].last_pos = ctx.m_lr_stack[j].last_pos
  BY <1>10
<1> QED
  BY <1>1, <1>3, <1>5, <1>10, <1>11, <1>12, <1>13, <1>14, RuleGoesOn

\* The body got further than the seed: the seed grows.
LEMMA GrowTree ==
  ASSUME Inv, TreeInv, NonTerminalGrow
  PROVE  TreeInv'
<1> DEFINE p == mark(ctx)
           m == ctx.m_mem
           t == Top.lr
           k == <<Top.start, ThisRule>>
           y == [ctx.m_lr_stack[t] EXCEPT !.last_pos = p]
           l == [ctx.m_lr_stack EXCEPT ![t] = y]
           x == [m_last_pos |-> p, m_cached_result |-> ctl.res]
           f == [Top EXCEPT !.best = ctl.res, !.rs = x]
           w == IF m[k] # Absent THEN [m EXCEPT ![k] = x] ELSE m
           b == [ctx EXCEPT !.m_lr_stack[t].last_pos = p]
           c == update_rule_state(b, ThisRule, Top.start, x)
           s == clear_siblings_at(c, Top.start, ThisRule)
<1>1. /\ ctl.mode = "return" /\ stack # <<>> /\ Top.kind = "NonTerminal"
      /\ stack' = [stack EXCEPT ![Len(stack)] = f]
      /\ p > MyLR.last_pos
  BY DEF NonTerminalGrow, ReturnedTo, At, SetTop
<1>2. \/ /\ ctl'.mode = "call"
         /\ ctx' = reset(s, Top.start) \/ ctx' = reset(c, Top.start)
      \/ ctl'.mode = "finish" /\ ctx' = reset(c, p)
  <2>1. \/ /\ Call(gram.body[ThisRule])
           /\ ctx' = reset(IF MyLR.is_head THEN s ELSE c, Top.start)
        \/ Goto("finish") /\ ctx' = reset(c, p)
    BY DEF NonTerminalGrow
  <2>2. Call(gram.body[ThisRule]) => ctl'.mode = "call"
    BY Facts DEF Call, Control
  <2>3. Goto("finish") => ctl'.mode = "finish"
    BY Facts DEF Goto, Control
  <2> HIDE DEF s, c
  <2> QED
    BY <2>1, <2>2, <2>3
<1>3. /\ Top.start \in Nat /\ p \in Nat /\ Top \in Frames /\ MyLR.last_pos \in Nat
      /\ t \in 1..Len(ctx.m_lr_stack)
      /\ ctx.m_lr_stack \in Seq(LRFrames(Len(input)))
      /\ ctx.m_lr_stack[t] \in LRFrames(Len(input))
  BY <1>1, RuleTop, Facts DEF MyLR
<1>4. /\ f.kind = Top.kind /\ f.start = Top.start /\ f.node = Top.node
      /\ f.lr = Top.lr /\ f.best = ctl.res /\ f.rs = x
  BY <1>3 DEF Frames
<1>5. x.m_last_pos = p /\ x.m_cached_result = ctl.res
  OBVIOUS
<1>6. y.last_pos = p
  BY <1>3 DEF LRFrames
<1>7. Holds(b, p, m, l, Arena)
  <2>1. Holds(ctx, p, m, ctx.m_lr_stack, Arena)
    BY ArenaTyped, ContextHolds DEF Arena, mark
  <2>2. b = [ctx EXCEPT !.m_lr_stack = l]
    OBVIOUS
  <2> HIDE DEF b, l
  <2> QED
    BY <2>1, <2>2 DEF Holds, Members
<1>8. /\ Answer(Arena, Built(Arena, stack), ctl.res, Top.start, p)
      /\ Top.start <= MyLR.last_pos
  BY <1>1, BodyTop
<1>9. Top.start <= p
  BY <1>1, <1>3, <1>8
<1> HIDE DEF x, f
<1>10. \A i \in DOMAIN w : \/ i \in DOMAIN m /\ w[i] = m[i]
                           \/ i = k /\ w[i] = x
  BY MemoUpdated
<1>11. \A j \in 1..Len(ctx.m_lr_stack) :
         l[j] = IF j = t THEN y ELSE ctx.m_lr_stack[j]
  BY <1>3
<1> HIDE DEF y, l, b, p
<1>12. Holds(c, p, w, l, Arena)
  <2>1. \A q, r : Holds(update_rule_state(b, r, q, x), p,
          IF m[<<q, r>>] # Absent THEN [m EXCEPT ![<<q, r>>] = x] ELSE m,
          l, Arena)
    BY <1>7, HoldsMemo
  <2> QED
    BY <2>1
<1> HIDE DEF c, w
<1>13. \E v : Evicted(w, v) /\ Holds(s, p, v, l, Arena)
  <2>1. \A q, r : \E v : /\ Evicted(w, v)
                         /\ Holds(clear_siblings_at(c, q, r), p, v, l, Arena)
    BY <1>12, HoldsMemo
  <2> QED
    BY <2>1
<1> HIDE DEF s
<1>14. \E v : \E q :
         /\ Evicted(w, v) /\ Holds(ctx', q, v, l, Arena)
         /\ \/ ctl'.mode = "call" /\ q = Top.start
            \/ ctl'.mode = "finish" /\ q = p
  <2>1. Evicted(w, w) /\ \A q : Holds(reset(c, q), q, w, l, Arena)
    BY <1>12, NoneEvicted, HoldsNodes
  <2>2. PICK v : Evicted(w, v) /\ Holds(s, p, v, l, Arena)
    BY <1>13
  <2>3. \A q : Holds(reset(s, q), q, v, l, Arena)
    BY <2>2, HoldsNodes
  <2>4. CASE ctl'.mode = "call" /\ ctx' = reset(s, Top.start)
    BY <2>2, <2>3, <2>4
  <2>5. CASE ctl'.mode = "call" /\ ctx' = reset(c, Top.start)
    BY <2>1, <2>5
  <2>6. CASE ctl'.mode = "finish" /\ ctx' = reset(c, p)
    BY <2>1, <2>6
  <2> QED
    BY <1>2, <2>4, <2>5, <2>6
<1>15. PICK v : \E q :
         /\ Evicted(w, v) /\ Holds(ctx', q, v, l, Arena)
         /\ \/ ctl'.mode = "call" /\ q = Top.start
            \/ ctl'.mode = "finish" /\ q = p
  BY <1>14
<1>16. /\ Evicted(w, v) /\ Arena' = Arena /\ ctx'.m_mem = v
       /\ ctx'.m_lr_stack = l
       /\ \/ ctl'.mode = "call" /\ mark(ctx') = Top.start
          \/ ctl'.mode = "finish" /\ mark(ctx') = p
  BY <1>15 DEF Holds, mark, Arena
<1>17. RuleMemo(x)
  <2>1. \A i \in DOMAIN v : i \in DOMAIN w /\ v[i] \in {w[i], Absent}
    BY <1>16 DEF Evicted
  <2> QED
    BY <1>10, <1>16, <2>1 DEF RuleMemo, m, k
<1>18. \A j \in 1..Len(ctx.m_lr_stack) :
         \/ j >= Top.lr
         \/ ctx'.m_lr_stack[j].last_pos = ctx.m_lr_stack[j].last_pos
  BY <1>3, <1>11, <1>16
<1>19. p = ctx'.m_lr_stack[Top.lr].last_pos
  BY <1>3, <1>6, <1>11, <1>16
<1>20. /\ Answer(Arena, Built(Arena, stack), x.m_cached_result, Top.start,
                 x.m_last_pos)
       /\ Answer(Arena, Built(Arena, stack), f.best, Top.start, p)
       /\ f.rs.m_last_pos = p
  BY <1>4, <1>5, <1>8
<1> QED
  BY <1>1, <1>4, <1>9, <1>16, <1>17, <1>18, <1>19, <1>20, RuleGoesOn

\* The rule failed.
LEMMA FailedTree ==
  ASSUME Inv, TreeInv, NonTerminalFailed
  PROVE  TreeInv'
<1> DEFINE c == record_failure(LeaveRule(ctx), Top.start, RuleItem(ThisRule))
           l == SubSeq(ctx.m_lr_stack, 1, Top.lr - 1)
           x == [Top.rs EXCEPT !.m_cached_result = Failed]
<1>1. /\ ctl.mode = "finish" /\ stack # <<>> /\ Top.kind = "NonTerminal" /\ Pop
      /\ Return(Failed, Top.start)
      /\ ctx' = update_rule_state(c, ThisRule, Top.start, x)
  BY DEF NonTerminalFailed, Finishing, At
<1>2. Holds(c, mark(ctx), ctx.m_mem, l, Arena)
  <2>1. \A q, i : Holds(record_failure(LeaveRule(ctx), q, i), mark(ctx),
                        ctx.m_mem, l, Arena)
    BY LeaveHolds, HoldsScopes
  <2> QED
    BY <2>1
<1>3. x.m_cached_result = Failed
  <2>1. Top.rs \in RuleStates(Len(input))
    BY <1>1, RuleTop
  <2> QED
    BY <2>1 DEF RuleStates
<1> HIDE DEF c, x
<1>4. Len(Arena) \in Nat /\ SameNodes(Arena, Arena, {})
  BY ArenaTyped DEF SameNodes
<1> QED
  BY <1>1, <1>2, <1>3, <1>4, NoTree, RuleClosing

\* The rule failed and recovers: it matches up to a sync token, without a tree.
LEMMA RecoveredTree ==
  ASSUME Inv, TreeInv, NonTerminalRecovered
  PROVE  TreeInv'
<1>1. /\ ctl.mode = "finish" /\ stack # <<>> /\ Top.kind = "NonTerminal" /\ Pop
      /\ Return(Matched(nullptr), Top.start)
  BY DEF NonTerminalRecovered, Finishing, At
<1> DEFINE c == record_failure(LeaveRule(ctx), Top.start, RuleItem(ThisRule))
           g == [pos |-> Top.start, rule |-> ThisRule]
           l == SubSeq(ctx.m_lr_stack, 1, Top.lr - 1)
<1>2. PICK scan \in Top.start..Len(input) :
        ctx' = update_rule_state(
                 record_diagnostic(reset(c, ResumeAt(scan)), g),
                 ThisRule, Top.start,
                 [m_last_pos |-> ResumeAt(scan),
                  m_cached_result |-> Matched(nullptr)])
  BY DEF NonTerminalRecovered
<1> DEFINE q == ResumeAt(scan)
           x == [m_last_pos |-> q, m_cached_result |-> Matched(nullptr)]
           d == record_diagnostic(reset(c, q), g)
<1>3. Top.start <= q
  <2>1. Top.start \in Nat /\ Len(input) \in Nat
    BY <1>1, RuleTop, Facts
  <2> QED
    BY <2>1 DEF ResumeAt
<1>4. x.m_last_pos = q /\ x.m_cached_result = Matched(nullptr)
      /\ ctx' = update_rule_state(d, ThisRule, Top.start, x)
  BY <1>2
<1>5. Holds(c, mark(ctx), ctx.m_mem, l, Arena)
  <2>1. \A p, i : Holds(record_failure(LeaveRule(ctx), p, i), mark(ctx),
                        ctx.m_mem, l, Arena)
    BY LeaveHolds, HoldsScopes
  <2> QED
    BY <2>1
<1> HIDE DEF c, x, q, g
<1>6. Holds(reset(c, q), q, ctx.m_mem, l, Arena)
  BY <1>5, HoldsNodes
<1>7. Holds(d, q, ctx.m_mem, l, Arena)
  BY <1>6, HoldsScopes
<1> HIDE DEF d
<1>8. Len(Arena) \in Nat /\ SameNodes(Arena, Arena, {})
  BY ArenaTyped DEF SameNodes
<1> QED
  BY <1>1, <1>3, <1>4, <1>7, <1>8, NoTree, RuleClosing

\* The rule matched: its node wraps the longest match, or is that match.
LEMMA MatchedTree ==
  ASSUME Inv, TreeInv, NonTerminalMatched
  PROVE  TreeInv'
<1> DEFINE c == LeaveRule(ctx)
           p == mark(ctx)
           l == SubSeq(ctx.m_lr_stack, 1, Top.lr - 1)
           tree == Top.best.tree
           fresh == ThisRule \in gram.folds \/ tree = nullptr
           node == RuleNode(c, IF fresh THEN EmptyNode(Top.start, mark(c))
                               ELSE NodeAt(c, tree), tree)
           t == IF fresh THEN NextNode(c) ELSE tree
           d == IF fresh THEN make_node(c, node) ELSE edit_node(c, t, node)
           x == [Top.rs EXCEPT !.m_cached_result = Matched(t)]
<1>1. /\ ctl.mode = "finish" /\ stack # <<>> /\ Top.kind = "NonTerminal" /\ Pop
      /\ Return(Matched(t), Top.start)
      /\ ctx' = update_rule_state(d, ThisRule, Top.start, x)
      /\ Top.best.success = TRUE
  BY DEF NonTerminalMatched, Finishing, At
<1>2. Holds(c, p, ctx.m_mem, l, Arena)
  BY LeaveHolds
<1>3. /\ mark(c) = p /\ NextNode(c) = Len(Arena) + 1
      /\ tree \in 1..Len(Arena) => NodeAt(c, tree) = Arena[tree]
  <2>1. c.m_position = p /\ c.m_node_arena = Arena
    BY <1>2 DEF Holds
  <2> QED
    BY <2>1 DEF mark, NextNode, NodeAt
<1>4. x.m_last_pos = p /\ x.m_cached_result = Matched(t)
  <2>1. Top.rs \in RuleStates(Len(input)) /\ Top.rs.m_last_pos = p
    BY <1>1, RuleTop, GrownTop
  <2> QED
    BY <2>1 DEF RuleStates
<1>5. /\ Arena \in Seq(Nodes(Len(input))) /\ Len(Arena) \in Nat
      /\ CallsTidy
  BY <1>1, ArenaTyped DEF TreeInv
<1>6. Answer(Arena, Built(Arena, stack), Top.best, Top.start, p) /\ Top.start <= p
  BY <1>1, GrownTop
<1>7. tree # nullptr =>
        /\ tree \in Built(Arena, stack) /\ tree \in 1..Len(Arena)
        /\ Arena[tree].start_offset = Top.start /\ Arena[tree].end_offset = p
  BY <1>6 DEF Answer, Spans, Built
<1>8. Matched(t).success /\ Matched(t).tree = t
  BY DEF Matched
<1>9. CASE ~ fresh
  <2> DEFINE N == [Arena EXCEPT ![tree] = node]
  <2>1. tree \in 1..Len(Arena) /\ tree \in Built(Arena, stack) /\ t = tree
    BY <1>7, <1>9
  <2>2. node = [Arena[tree] EXCEPT
                  !.name = ThisRule,
                  !.producer = IF @ = NoRule THEN ThisRule ELSE @,
                  !.start_offset = Top.start, !.end_offset = p]
    BY <1>3, <1>9, <2>1 DEF RuleNode
  <2>3. Arena[tree] \in Nodes(Len(input))
    BY <1>5, <2>1
  <2>4. /\ node.start_offset = Top.start /\ node.end_offset = p
        /\ node.children = Arena[tree].children
    BY <2>2, <2>3 DEF Nodes
  <2>5. d = edit_node(c, tree, node)
    BY <1>9, <2>1
  <2> HIDE DEF node, d, c, x, t, tree, fresh
  <2>6. Holds(d, p, ctx.m_mem, l, N)
    BY <1>2, <2>1, <2>5, HoldsNodes
  <2>7. /\ Len(N) = Len(Arena)
        /\ \A i \in 1..Len(Arena) : N[i] = IF i = tree THEN node ELSE Arena[i]
    BY <1>5
  <2> HIDE DEF N
  <2>8. Len(N) \in Nat /\ SameNodes(Arena, N, {})
    <3>1. /\ Arena[tree].start_offset = node.start_offset
          /\ Arena[tree].end_offset = node.end_offset
      BY <1>7, <1>9, <2>1, <2>4 DEF fresh
    <3>2. ASSUME NEW i \in 1..Len(Arena)
          PROVE  /\ N[i].start_offset = Arena[i].start_offset
                 /\ N[i].end_offset = Arena[i].end_offset
                 /\ N[i].children = Arena[i].children
      <4>1. CASE i = tree
        BY <2>4, <2>7, <3>1, <4>1
      <4>2. CASE i # tree
        BY <2>7, <4>2
      <4> QED
        BY <4>1, <4>2
    <3>3. Len(N) \in Nat /\ Len(Arena) <= Len(N)
      BY <1>5, <2>7
    <3> QED
      BY <3>2, <3>3 DEF SameNodes
  <2>9. /\ Keeps(Arena, Built(Arena, stack), N, Built(N, stack'))
        /\ /\ Answer(N, Built(N, stack'), Matched(t), Top.start, p)
           /\ Answer(N, Built(N, stack'), Matched(t), Top.start, x.m_last_pos)
           => TreeInv'
    BY <1>1, <1>4, <2>6, <2>8, RuleClosing
  <2>10. Answer(N, Built(N, stack'), Top.best, Top.start, p)
    BY <1>6, <2>9, AnswerKept
  <2>11. Answer(N, Built(N, stack'), Matched(t), Top.start, p)
    BY <1>6, <1>8, <2>1, <2>10 DEF Answer, tree
  <2> QED
    BY <1>4, <2>9, <2>11
<1>10. CASE fresh
  <2> DEFINE N == Append(Arena, node)
             kids == IF ThisRule \in gram.folds /\ tree # nullptr THEN <<tree>>
                     ELSE <<>>
  <2>1. t = Len(Arena) + 1 /\ d = make_node(c, node)
    BY <1>3, <1>10
  <2>2. /\ node.start_offset = Top.start /\ node.end_offset = p
        /\ node.children = kids
    <3>1. CASE ThisRule \in gram.folds
      <4>1. node = [EmptyNode(Top.start, p) EXCEPT
                      !.name = ThisRule, !.producer = ThisRule,
                      !.children = IF tree = nullptr THEN <<>> ELSE <<tree>>]
        BY <1>3, <3>1 DEF RuleNode
      <4> HIDE DEF node
      <4> QED
        BY <3>1, <4>1 DEF EmptyNode
    <3>2. CASE ThisRule \notin gram.folds
      <4>1. node = [EmptyNode(Top.start, p) EXCEPT
                      !.name = ThisRule,
                      !.producer = IF @ = NoRule THEN ThisRule ELSE @,
                      !.start_offset = Top.start, !.end_offset = p]
        BY <1>3, <1>10, <3>2 DEF RuleNode
      <4> HIDE DEF node
      <4> QED
        BY <3>2, <4>1 DEF EmptyNode
    <3> QED
      BY <3>1, <3>2
  <2> HIDE DEF node, d, c, x, t, fresh
  <2>3. Holds(d, p, ctx.m_mem, l, N)
    BY <1>2, <2>1, HoldsNodes
  <2>4. /\ Len(N) = Len(Arena) + 1 /\ N[Len(Arena) + 1] = node
        /\ \A i \in 1..Len(Arena) : N[i] = Arena[i]
    BY <1>5
  <2> HIDE DEF N
  <2>5. Len(N) \in Nat /\ SameNodes(Arena, N, {})
    BY <1>5, <2>4 DEF SameNodes
  <2>6. /\ Keeps(Arena, Built(Arena, stack), N, Built(N, stack'))
        /\ stack' = Front(stack)
        /\ /\ Answer(N, Built(N, stack'), Matched(t), Top.start, p)
           /\ Answer(N, Built(N, stack'), Matched(t), Top.start, x.m_last_pos)
           => TreeInv'
    BY <1>1, <1>4, <2>3, <2>5, RuleClosing
  <2>7. t \in Built(N, stack')
    <3>1. \A k \in 1..Len(stack) : stack[k].kind \in RunsSkipper =>
            stack[k].node \in 1..Len(Arena)
      BY <1>5 DEF CallsTidy, FrameTidy, Arena
    <3>2. /\ Len(stack') = Len(stack) - 1 /\ Len(stack) \in Nat
          /\ \A k \in 1..(Len(stack) - 1) : stack'[k] = stack[k]
      BY <1>1, <2>6, Facts, FrontFacts, Innermost
    <3>3. \A k \in 1..Len(stack') : stack'[k].kind \in RunsSkipper =>
            stack'[k].node \in 1..Len(Arena)
      BY <3>1, <3>2
    <3>4. t \notin Building(stack')
      BY <1>5, <2>1, <3>3 DEF Building
    <3> QED
      BY <1>5, <2>1, <2>4, <3>4 DEF Built
  <2>8. tree # nullptr =>
          /\ tree \in Built(N, stack')
          /\ N[tree].start_offset = Top.start /\ N[tree].end_offset = p
    BY <1>7, <2>6 DEF Keeps
  <2>9. \/ Len(kids) = 0
        \/ Len(kids) = 1 /\ kids[1] = tree /\ tree # nullptr
    OBVIOUS
  <2>10. Top.start \in Nat /\ p \in Nat
    BY <1>1, RuleTop, Facts
  <2> HIDE DEF kids, tree
  <2>11. Tidy(N, Built(N, stack'), kids, Top.start, p)
    <3> SUFFICES ASSUME NEW k \in 1..Len(kids)
                 PROVE  /\ kids[k] \in Built(N, stack')
                        /\ Top.start <= N[kids[k]].start_offset
                        /\ N[kids[k]].end_offset <= p
                        /\ \A j \in 1..(k - 1) : kids[j] # nullptr =>
                             N[kids[j]].end_offset <= N[kids[k]].start_offset
      BY DEF Tidy
    <3>1. k = 1 /\ Len(kids) = 1
      <4>1. Len(kids) = 0 => 1..Len(kids) = {}
        OBVIOUS
      <4>2. Len(kids) = 1 => 1..Len(kids) = {1}
        OBVIOUS
      <4> QED
        BY <2>9, <4>1, <4>2
    <3> QED
      BY <2>8, <2>9, <2>10, <3>1
  <2>12. Spans(N, Built(N, stack'), t, Top.start, p)
    BY <2>1, <2>2, <2>4, <2>7, <2>11 DEF Spans
  <2>13. Answer(N, Built(N, stack'), Matched(t), Top.start, p)
    BY <1>6, <1>8, <2>12 DEF Answer
  <2> QED
    BY <1>4, <2>6, <2>13
<1> QED
  BY <1>9, <1>10

\* NonTerminal::parse keeps memo, answers and active calls tidy.
LEMMA NonTerminalTree == Inv /\ TreeInv /\ NonTerminalStep => TreeInv'
BY RememberedTree, EnterTree, GrowTree, FixedPointTree, BodyFailedTree,
   FailedTree, RecoveredTree, MatchedTree DEF NonTerminalStep

-----------------------------------------------------------------------------
(* Every step.                                                             *)

\* The memo of a new Context is empty, and nothing has been called.
LEMMA TreeInit == Init => TreeInv
<1> SUFFICES ASSUME Init PROVE TreeInv
  OBVIOUS
<1>1. /\ ctx = NewContext(Len(input)) /\ stack = <<>>
      /\ ctl.mode = "idle"
  BY DEF Init
<1>2. \A k \in DOMAIN ctx.m_mem : ctx.m_mem[k] = Absent
  BY <1>1 DEF NewContext
<1>3. CallsTidy
  BY <1>1 DEF CallsTidy
<1> QED
  BY <1>1, <1>2, <1>3 DEF TreeInv, MemoTidy

LEMMA TreeNext == Inv /\ TreeInv /\ [Next]_vars => TreeInv'
<1> SUFFICES ASSUME Inv, TreeInv, [Next]_vars PROVE TreeInv'
  OBVIOUS
<1>1. Inv'
  BY NextInv
<1>2. CASE Step
  BY <1>1, <1>2, LeafTree, SequenceTree, AlternationTree, RepetitionTree,
     WrapperTree, SkipperTree, NonTerminalTree, UnwindTree, GrammarTree DEF Step
<1>3. CASE UNCHANGED vars
  <2>1. ctx' = ctx /\ ctl' = ctl /\ stack' = stack
    BY <1>3 DEF vars, driver
  <2>2. CallsTidy => CallsTidy'
    BY <2>1 DEF CallsTidy, HereOf, Here
  <2> QED
    BY <2>1, <2>2 DEF TreeInv
<1> QED
  BY <1>2, <1>3, CodeStep

\* A tree that spans its match covers it.
LEMMA SpansCovers ==
  ASSUME NEW D, D \subseteq 1..Len(ctx.m_node_arena), NEW t, NEW from \in Nat,
         NEW to \in Nat, NEW n \in Nat, ctx.m_node_arena \in Seq(Nodes(n)),
         Spans(ctx.m_node_arena, D, t, from, to)
  PROVE  Covers(t, from, to)
<1> DEFINE N == ctx.m_node_arena
           c == N[t].children
<1>1. /\ t \in 1..Len(N) /\ N[t].start_offset = from /\ N[t].end_offset = to
      /\ Tidy(N, D, c, from, to)
  BY DEF Spans
<1>2. \A i \in 1..Len(N) : N[i] \in Nodes(n) /\ N[i].start_offset \in Nat
                           /\ N[i].children \in Seq(Nat)
  <2> SUFFICES ASSUME NEW i \in 1..Len(N)
               PROVE  N[i] \in Nodes(n) /\ N[i].start_offset \in Nat
                      /\ N[i].children \in Seq(Nat)
    OBVIOUS
  <2>1. N[i] \in Nodes(n)
    OBVIOUS
  <2>2. \A x \in Nodes(n) : x.start_offset \in Nat /\ x.children \in Seq(Nat)
    BY ONLY n \in Nat DEF Nodes
  <2> QED
    BY <2>1, <2>2
<1>3. \A i \in D : i \in 1..Len(N)
  OBVIOUS
<1> HIDE DEF N
<1>4. ASSUME NEW k \in 1..Len(c), c[k] # nullptr
      PROVE  /\ c[k] \in 1..Len(N)
             /\ N[c[k]].start_offset >= from /\ N[c[k]].end_offset <= to
             /\ \A j \in 1..Len(c) : c[j] # nullptr /\ j < k =>
                  N[c[j]].end_offset <= N[c[k]].start_offset
  <2>1. /\ c[k] \in D /\ from <= N[c[k]].start_offset
        /\ N[c[k]].end_offset <= to
        /\ \A j \in 1..(k - 1) : c[j] # nullptr =>
             N[c[j]].end_offset <= N[c[k]].start_offset
    BY <1>1, <1>4 DEF Tidy
  <2>2. c[k] \in 1..Len(N)
    BY <1>3, <2>1
  <2>3. N[c[k]].start_offset \in Nat
    BY <1>2, <2>2
  <2>4. Len(c) \in Nat
    BY <1>1, <1>2
  <2>5. \A j \in 1..Len(c) : j < k => j \in 1..(k - 1)
    BY <2>4
  <2> QED
    BY <2>1, <2>2, <2>3, <2>5
<1> QED
  BY <1>1, <1>4 DEF Covers, N

\* The invariant implies the property.
LEMMA TreesImply == Inv /\ TreeInv => TreesCoverTheirMatch
<1> SUFFICES ASSUME Inv, TreeInv PROVE TreesCoverTheirMatch
  OBVIOUS
<1> DEFINE N == ctx.m_node_arena
           D == Built(N, stack)
           n == Len(input)
<1>1. /\ N \in Seq(Nodes(n)) /\ n \in Nat /\ D \subseteq 1..Len(N)
  BY ArenaTyped DEF Arena, Built
<1>2. ASSUME NEW r, NEW from \in Nat, NEW to \in Nat, r.tree # nullptr,
             Answer(N, D, r, from, to)
      PROVE  Covers(r.tree, from, to)
  BY <1>1, <1>2, SpansCovers DEF Answer
<1>3. ASSUME ctl.mode = "return", ctl.res.tree # nullptr
      PROVE  Covers(ctl.res.tree, ctl.at, mark(ctx))
  <2>1. Answer(N, D, ctl.res, ctl.at, mark(ctx))
    BY <1>3 DEF TreeInv
  <2>2. ctl.at \in Nat /\ mark(ctx) \in Nat
    <3>1. /\ ctl.at \in 0..Len(input) /\ mark(ctx) \in 0..Len(input)
          /\ Len(input) \in Nat
      BY Facts
    <3> QED
      BY <3>1
  <2> QED
    BY <1>2, <1>3, <2>1, <2>2 DEF mark
<1>4. ASSUME NEW k \in DOMAIN ctx.m_mem, HasMemo(ctx, k[2], k[1]),
             ctx.m_mem[k].m_cached_result.tree # nullptr
      PROVE  Covers(ctx.m_mem[k].m_cached_result.tree, k[1],
                    ctx.m_mem[k].m_last_pos)
  <2>1. ctx.m_mem \in [(0..n) \X Rules -> RuleStates(n) \cup {Absent}]
    BY <1>1, ArenaTyped, FieldTypes
  <2>2. k \in (0..n) \X Rules
    BY <2>1
  <2>3. k = <<k[1], k[2]>> /\ k[1] \in 0..n
    BY <2>2
  <2>4. ctx.m_mem[k] # Absent
    BY <1>4, <2>3 DEF HasMemo
  <2>5. ctx.m_mem[k] \in RuleStates(n)
    BY <2>1, <2>2, <2>4
  <2>6. k[1] \in Nat /\ ctx.m_mem[k].m_last_pos \in Nat
    BY <1>1, <2>3, <2>5 DEF RuleStates
  <2>7. Answer(N, D, ctx.m_mem[k].m_cached_result, k[1], ctx.m_mem[k].m_last_pos)
    BY <2>4 DEF TreeInv, MemoTidy
  <2> QED
    BY <1>2, <1>4, <2>6, <2>7
<1> QED
  BY <1>3, <1>4 DEF TreesCoverTheirMatch

\* A tree that parse() returns, or that the memo keeps, spans exactly what was
\* consumed for it, with its children inside and in order: for every grammar
\* and input, although rules and alternations stamp nodes they share.
THEOREM TreesCover == Spec => []TreesCoverTheirMatch
BY InitInv, NextInv, TreeInit, TreeNext, TreesImply, PTL DEF Spec
=============================================================================
