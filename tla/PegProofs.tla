------------------------------ MODULE PegProofs ------------------------------
(***************************************************************************)
(* Proofs about PegContext and PegMachine, for every grammar, input and    *)
(* number of parses: what each method of Context preserves, then the       *)
(* inductive invariant of the parse.                                       *)
(***************************************************************************)
EXTENDS PegMachine, TLAPS

-----------------------------------------------------------------------------
(* The methods of Context, for every set of rules and input size n.        *)

\* A memoised failure ends where it began: replaying it moves no cursor.
MemoOK(c) ==
  \A k \in DOMAIN c.m_mem :
    c.m_mem[k] # Absent /\ ~ c.m_mem[k].m_cached_result.success =>
      c.m_mem[k].m_last_pos = k[1]

ContextOK(c, n) == c \in Contexts(n) /\ MemoOK(c)

\* d differs from c in neither the left-recursion stack nor the skip flag.
SameScopes(c, d) ==
  /\ d.m_lr_stack = c.m_lr_stack
  /\ d.m_skip_enabled = c.m_skip_enabled

\* d is a well-formed Context that also keeps the cursor of c.
Kept(c, d, n) ==
  ContextOK(d, n) /\ SameScopes(c, d) /\ mark(d) = mark(c)

-----------------------------------------------------------------------------
(* The record: its fields' types, and assigning one field.                 *)

\* The types of the members of a Context.
LEMMA FieldTypes ==
  ASSUME NEW n \in Nat, NEW c \in Contexts(n)
  PROVE  /\ c.m_position \in 0..n /\ c.m_input_size = n
         /\ c.m_mem \in [(0..n) \X Rules -> RuleStates(n) \cup {Absent}]
         /\ c.m_cut \in Seq(CutRecords(n))
         /\ c.m_lr_stack \in Seq(LRFrames(n))
         /\ c.m_growing_head \in [0..n -> Rules \cup {NoRule}]
         /\ c.m_furthest_failure_pos \in 0..n
         /\ c.m_expected \in SUBSET ExpectedItems
         /\ c.m_has_error \in BOOLEAN
         /\ c.m_diagnostics \in Seq(Diagnostics(n))
         /\ c.m_skipper \in Rules \cup {NoRule}
         /\ c.m_skip_enabled \in BOOLEAN
         /\ c.m_node_arena \in Seq(Nodes(n))
BY DEF Contexts

\* Assigning m_node_arena.
LEMMA SetArena ==
  ASSUME NEW n \in Nat, NEW c, ContextOK(c, n), NEW a \in Seq(Nodes(n))
  PROVE  Kept(c, [c EXCEPT !.m_node_arena = a], n)
BY DEF Contexts, ContextOK, MemoOK, Kept, SameScopes, mark

\* Assigning m_diagnostics.
LEMMA SetDiagnostics ==
  ASSUME NEW n \in Nat, NEW c, ContextOK(c, n), NEW a \in Seq(Diagnostics(n))
  PROVE  Kept(c, [c EXCEPT !.m_diagnostics = a], n)
BY DEF Contexts, ContextOK, MemoOK, Kept, SameScopes, mark

\* Assigning m_cut.
LEMMA SetCut ==
  ASSUME NEW n \in Nat, NEW c, ContextOK(c, n), NEW a \in Seq(CutRecords(n))
  PROVE  Kept(c, [c EXCEPT !.m_cut = a], n)
BY DEF Contexts, ContextOK, MemoOK, Kept, SameScopes, mark

\* Assigning the error tracker.
LEMMA SetError ==
  ASSUME NEW n \in Nat, NEW c, ContextOK(c, n), NEW p \in 0..n,
         NEW x \in SUBSET ExpectedItems, NEW b \in BOOLEAN
  PROVE  Kept(c, [c EXCEPT !.m_furthest_failure_pos = p,
                           !.m_expected = x, !.m_has_error = b], n)
BY DEF Contexts, ContextOK, MemoOK, Kept, SameScopes, mark

\* Assigning m_skipper.
LEMMA SetSkipper ==
  ASSUME NEW n \in Nat, NEW c, ContextOK(c, n), NEW s \in Rules \cup {NoRule}
  PROVE  Kept(c, [c EXCEPT !.m_skipper = s], n)
BY DEF Contexts, ContextOK, MemoOK, Kept, SameScopes, mark

\* Assigning m_growing_head.
LEMMA SetGrowing ==
  ASSUME NEW n \in Nat, NEW c, ContextOK(c, n),
         NEW g \in [0..n -> Rules \cup {NoRule}]
  PROVE  Kept(c, [c EXCEPT !.m_growing_head = g], n)
BY DEF Contexts, ContextOK, MemoOK, Kept, SameScopes, mark

\* Assigning m_mem a memo whose failures end where they began.
LEMMA SetMem ==
  ASSUME NEW n \in Nat, NEW c \in Contexts(n),
         NEW m \in [(0..n) \X Rules -> RuleStates(n) \cup {Absent}]
  PROVE  LET d == [c EXCEPT !.m_mem = m]
         IN  /\ d \in Contexts(n) /\ SameScopes(c, d)
             /\ mark(d) = mark(c) /\ d.m_mem = m
BY DEF Contexts, SameScopes, mark

\* Assigning m_lr_stack.
LEMMA SetLR ==
  ASSUME NEW n \in Nat, NEW c, ContextOK(c, n), NEW l \in Seq(LRFrames(n))
  PROVE  LET d == [c EXCEPT !.m_lr_stack = l]
         IN  /\ ContextOK(d, n) /\ mark(d) = mark(c) /\ d.m_lr_stack = l
             /\ d.m_skip_enabled = c.m_skip_enabled
             /\ d.m_mem = c.m_mem
BY DEF Contexts, ContextOK, MemoOK, mark

\* Assigning m_skip_enabled.
LEMMA SkipEnabledOK ==
  ASSUME NEW n \in Nat, NEW c, ContextOK(c, n), NEW b \in BOOLEAN
  PROVE  LET d == skip_enabled(c, b)
         IN  /\ ContextOK(d, n) /\ mark(d) = mark(c) /\ d.m_skip_enabled = b
             /\ d.m_lr_stack = c.m_lr_stack
BY DEF Contexts, ContextOK, MemoOK, mark, skip_enabled

-----------------------------------------------------------------------------
(* Cursor.                                                                 *)

\* Context::reset within the input.
LEMMA ResetOK ==
  ASSUME NEW n \in Nat, NEW c, ContextOK(c, n), NEW p \in 0..n
  PROVE  /\ ContextOK(reset(c, p), n) /\ SameScopes(c, reset(c, p))
         /\ mark(reset(c, p)) = p
BY DEF ContextOK, MemoOK, SameScopes, Contexts, reset, mark

\* Context::next never leaves the input.
LEMMA NextOK ==
  ASSUME NEW n \in Nat, NEW c, ContextOK(c, n)
  PROVE  ContextOK(next(c), n) /\ SameScopes(c, next(c))
<1>1. c.m_position \in 0..n /\ c.m_input_size = n
  BY FieldTypes DEF ContextOK
<1>2. CASE ended(c)
  BY <1>2 DEF next, SameScopes
<1>3. CASE ~ ended(c)
  <2>1. c.m_position + 1 \in 0..n
    BY <1>1, <1>3 DEF ended
  <2>2. next(c) = reset(c, c.m_position + 1)
    BY <1>3 DEF next, reset
  <2> QED
    BY <2>1, <2>2, ResetOK
<1> QED
  BY <1>2, <1>3

-----------------------------------------------------------------------------
(* Node arena.                                                             *)

\* make_node.
LEMMA MakeNodeOK ==
  ASSUME NEW n \in Nat, NEW c, ContextOK(c, n), NEW node \in Nodes(n)
  PROVE  Kept(c, make_node(c, node), n)
<1> DEFINE a == Append(c.m_node_arena, node)
<1>1. c.m_node_arena \in Seq(Nodes(n))
  BY FieldTypes DEF ContextOK
<1>2. a \in Seq(Nodes(n))
  BY <1>1
<1>3. make_node(c, node) = [c EXCEPT !.m_node_arena = a]
  BY DEF make_node
<1> QED
  BY <1>2, <1>3, SetArena

\* A node is well-formed wherever it is read.
LEMMA NodeAtOK ==
  ASSUME NEW n \in Nat, NEW c, ContextOK(c, n), NEW t
  PROVE  NodeAt(c, t) \in Nodes(n)
<1>1. c.m_node_arena \in Seq(Nodes(n)) /\ c.m_position \in 0..n
  BY FieldTypes DEF ContextOK
<1>2. EmptyNode(mark(c), mark(c)) \in Nodes(n)
  BY <1>1 DEF EmptyNode, Nodes, mark
<1> QED
  BY <1>1, <1>2 DEF NodeAt

\* Editing a node in place.
LEMMA EditNodeOK ==
  ASSUME NEW n \in Nat, NEW c, ContextOK(c, n), NEW t, NEW node \in Nodes(n)
  PROVE  Kept(c, edit_node(c, t, node), n)
<1>1. CASE t \in 1..Len(c.m_node_arena)
  <2> DEFINE a == [c.m_node_arena EXCEPT ![t] = node]
  <2>1. c.m_node_arena \in Seq(Nodes(n))
    BY FieldTypes DEF ContextOK
  <2>2. a \in Seq(Nodes(n))
    BY <2>1, <1>1
  <2>3. edit_node(c, t, node) = [c EXCEPT !.m_node_arena = a]
    BY <1>1 DEF edit_node
  <2> QED
    BY SMTT(60), <2>2, <2>3, SetArena
<1>2. CASE t \notin 1..Len(c.m_node_arena)
  BY <1>2 DEF edit_node, Kept, SameScopes
<1> QED
  BY <1>1, <1>2

\* children.push_back.
LEMMA PushChildOK ==
  ASSUME NEW n \in Nat, NEW c, ContextOK(c, n), NEW t, NEW tree \in Nat
  PROVE  Kept(c, push_child(c, t, tree), n)
<1> DEFINE x == NodeAt(c, t)
<1>1. x \in Nodes(n)
  BY NodeAtOK
<1> HIDE DEF x
<1>2. x.children \in Seq(Nat)
  BY <1>1 DEF Nodes
<1>3. Append(x.children, tree) \in Seq(Nat)
  BY <1>2
<1>4. [x EXCEPT !.children = Append(@, tree)] \in Nodes(n)
  BY <1>1, <1>3 DEF Nodes
<1>5. CASE tree = nullptr
  BY <1>5 DEF push_child, Kept, SameScopes
<1>6. CASE tree # nullptr
  BY <1>4, <1>6, EditNodeOK DEF push_child, x
<1> QED
  BY <1>5, <1>6

\* node->end_offset = mark().
LEMMA SetEndOK ==
  ASSUME NEW n \in Nat, NEW c, ContextOK(c, n), NEW t
  PROVE  Kept(c, set_end(c, t), n)
<1> DEFINE x == NodeAt(c, t)
<1>1. x \in Nodes(n)
  BY NodeAtOK
<1>2. mark(c) \in 0..n
  BY FieldTypes DEF ContextOK, mark
<1> HIDE DEF x
<1>3. [x EXCEPT !.end_offset = mark(c)] \in Nodes(n)
  BY <1>1, <1>2 DEF Nodes
<1> QED
  BY <1>3, EditNodeOK DEF set_end, x

-----------------------------------------------------------------------------
(* Packrat memo.                                                           *)

\* One entry of the memo is assigned, all the others being sound.
LEMMA AssignMemo ==
  ASSUME NEW n \in Nat, NEW c \in Contexts(n), NEW r \in Rules,
         NEW p \in 0..n, NEW rs \in RuleStates(n),
         \A k \in DOMAIN c.m_mem : k # <<p, r>> =>
           (c.m_mem[k] # Absent /\ ~ c.m_mem[k].m_cached_result.success =>
              c.m_mem[k].m_last_pos = k[1]),
         rs.m_cached_result.success \/ rs.m_last_pos = p
  PROVE  Kept(c, [c EXCEPT !.m_mem[<<p, r>>] = rs], n)
<1> DEFINE m == [c.m_mem EXCEPT ![<<p, r>>] = rs]
           d == [c EXCEPT !.m_mem = m]
<1>1. c.m_mem \in [(0..n) \X Rules -> RuleStates(n) \cup {Absent}]
  BY FieldTypes
<1>2. <<p, r>> \in (0..n) \X Rules /\ <<p, r>>[1] = p
  OBVIOUS
<1>3. m \in [(0..n) \X Rules -> RuleStates(n) \cup {Absent}]
  BY <1>1, <1>2
<1>4. \A k \in DOMAIN m : m[k] = IF k = <<p, r>> THEN rs ELSE c.m_mem[k]
  BY <1>1
<1>5. DOMAIN m = DOMAIN c.m_mem
  BY <1>1
<1> HIDE DEF m
<1>6. d \in Contexts(n) /\ SameScopes(c, d) /\ mark(d) = mark(c) /\ d.m_mem = m
  BY ZenonT(60), <1>3, SetMem
<1>7. MemoOK(d)
  BY <1>2, <1>4, <1>5, <1>6 DEF MemoOK
<1> QED
  BY <1>6, <1>7 DEF Kept, ContextOK, m

\* update_rule_state.
LEMMA UpdateOK ==
  ASSUME NEW n \in Nat, NEW c, ContextOK(c, n), NEW r \in Rules,
         NEW p \in 0..n, NEW rs \in RuleStates(n),
         rs.m_cached_result.success \/ rs.m_last_pos = p
  PROVE  Kept(c, update_rule_state(c, r, p, rs), n)
<1>1. CASE HasMemo(c, r, p)
  BY <1>1, AssignMemo DEF update_rule_state, ContextOK, MemoOK
<1>2. CASE ~ HasMemo(c, r, p)
  BY <1>2 DEF update_rule_state, Kept, SameScopes
<1> QED
  BY <1>1, <1>2

\* rule_state's fresh entry, over which parseImpl plants its failure seed.
LEMMA SeedOK ==
  ASSUME NEW n \in Nat, NEW c, ContextOK(c, n), NEW r \in Rules,
         NEW p \in 0..n, NEW f \in LRFrames(n), NEW rs \in RuleStates(n),
         rs.m_last_pos = p, Absent \notin RuleStates(n)
  PROVE  LET d == update_rule_state(lr_push(rule_state(c, r, p), f), r, p, rs)
         IN  /\ ContextOK(d, n) /\ mark(d) = mark(c)
             /\ d.m_lr_stack = Append(c.m_lr_stack, f)
             /\ d.m_skip_enabled = c.m_skip_enabled
<1> DEFINE m == IF HasMemo(c, r, p) THEN c.m_mem
                ELSE [c.m_mem EXCEPT ![<<p, r>>] = FreshRuleState]
           e == [c EXCEPT !.m_mem = m]
           l == Append(c.m_lr_stack, f)
           h == [e EXCEPT !.m_lr_stack = l]
<1>1. /\ c.m_mem \in [(0..n) \X Rules -> RuleStates(n) \cup {Absent}]
      /\ c.m_lr_stack \in Seq(LRFrames(n)) /\ c \in Contexts(n)
  BY FieldTypes DEF ContextOK
<1>2. l \in Seq(LRFrames(n))
  BY <1>1
<1>3. <<p, r>> \in (0..n) \X Rules
  OBVIOUS
<1>4. FreshRuleState \in RuleStates(n)
  BY DEF FreshRuleState, RuleStates, Results, Failed, nullptr
<1>5. m \in [(0..n) \X Rules -> RuleStates(n) \cup {Absent}]
  BY <1>1, <1>3, <1>4
<1>6. \A k \in DOMAIN m : k # <<p, r>> => m[k] = c.m_mem[k]
  BY <1>1
<1>7. DOMAIN m = DOMAIN c.m_mem
  BY <1>1
<1>8. m[<<p, r>>] # Absent
  BY <1>1, <1>3, <1>4 DEF HasMemo
<1>9. rule_state(c, r, p) = e
  <2>1. CASE HasMemo(c, r, p)
    BY <2>1, <1>1 DEF rule_state, Contexts
  <2>2. CASE ~ HasMemo(c, r, p)
    BY <2>2, <1>1 DEF rule_state, Contexts
  <2> QED
    BY <2>1, <2>2
<1> HIDE DEF m, l
<1>10. e \in Contexts(n) /\ SameScopes(c, e) /\ mark(e) = mark(c) /\ e.m_mem = m
  BY ZenonT(60), <1>1, <1>5, SetMem
<1> HIDE DEF e
<1>11. /\ h \in Contexts(n) /\ h.m_mem = m /\ h.m_lr_stack = l
       /\ mark(h) = mark(c) /\ h.m_skip_enabled = c.m_skip_enabled
  BY <1>2, <1>10 DEF Contexts, SameScopes, mark
<1>12. lr_push(rule_state(c, r, p), f) = h
  BY <1>9, <1>10 DEF lr_push, SameScopes, l
<1> HIDE DEF h
<1>13. update_rule_state(h, r, p, rs) = [h EXCEPT !.m_mem[<<p, r>>] = rs]
  BY <1>8, <1>11 DEF update_rule_state, HasMemo
<1>14. \A k \in DOMAIN h.m_mem : k # <<p, r>> =>
         (h.m_mem[k] # Absent /\ ~ h.m_mem[k].m_cached_result.success =>
            h.m_mem[k].m_last_pos = k[1])
  BY <1>6, <1>7, <1>11 DEF ContextOK, MemoOK
<1>15. Kept(h, [h EXCEPT !.m_mem[<<p, r>>] = rs], n)
  BY <1>11, <1>14, AssignMemo
<1> QED
  BY <1>11, <1>12, <1>13, <1>15 DEF Kept, SameScopes, l

\* A memo entry that is there has a RuleState.
LEMMA MemoGetOK ==
  ASSUME NEW n \in Nat, NEW c, ContextOK(c, n), NEW r \in Rules,
         NEW p \in 0..n, HasMemo(c, r, p)
  PROVE  /\ memo_get(c, r, p) \in RuleStates(n)
         /\ memo_get(c, r, p).m_cached_result.success
              \/ memo_get(c, r, p).m_last_pos = p
<1>1. c.m_mem \in [(0..n) \X Rules -> RuleStates(n) \cup {Absent}]
  BY FieldTypes DEF ContextOK
<1>2. <<p, r>> \in DOMAIN c.m_mem /\ <<p, r>>[1] = p
  BY <1>1
<1> QED
  BY <1>1, <1>2 DEF memo_get, HasMemo, ContextOK, MemoOK

\* Forgetting entries keeps the rest sound.
LEMMA ForgetOK ==
  ASSUME NEW n \in Nat, NEW c, ContextOK(c, n), NEW K
  PROVE  Kept(c, [c EXCEPT !.m_mem =
                    [k \in DOMAIN @ |-> IF k \in K THEN Absent ELSE @[k]]], n)
<1> DEFINE m == [k \in DOMAIN c.m_mem |-> IF k \in K THEN Absent ELSE c.m_mem[k]]
           d == [c EXCEPT !.m_mem = m]
<1>1. c.m_mem \in [(0..n) \X Rules -> RuleStates(n) \cup {Absent}]
  BY FieldTypes DEF ContextOK
<1>2. m \in [(0..n) \X Rules -> RuleStates(n) \cup {Absent}]
  BY <1>1
<1>3. \A k \in DOMAIN m : k \in DOMAIN c.m_mem /\ (m[k] # Absent => m[k] = c.m_mem[k])
  BY <1>1
<1> HIDE DEF m
<1>4. d \in Contexts(n) /\ SameScopes(c, d) /\ mark(d) = mark(c) /\ d.m_mem = m
  BY ZenonT(60), <1>2, SetMem DEF ContextOK
<1>5. MemoOK(d)
  BY <1>3, <1>4 DEF MemoOK, ContextOK
<1> QED
  BY <1>4, <1>5 DEF Kept, ContextOK, m

\* clear_siblings_at.
LEMMA ClearSiblingsOK ==
  ASSUME NEW n \in Nat, NEW c, ContextOK(c, n), NEW p, NEW keep
  PROVE  Kept(c, clear_siblings_at(c, p, keep), n)
<1> DEFINE K == {k \in DOMAIN c.m_mem : k[1] = p /\ k[2] # keep
                                          /\ ~ lr_in_progress(c, k[2], p)}
<1>1. clear_siblings_at(c, p, keep)
        = [c EXCEPT !.m_mem =
             [k \in DOMAIN @ |-> IF k \in K THEN Absent ELSE @[k]]]
  BY DEF clear_siblings_at
<1> HIDE DEF K
<1> QED
  BY <1>1, ForgetOK

-----------------------------------------------------------------------------
(* Left-recursion stack.                                                   *)

\* lr_pop.
LEMMA LrPopOK ==
  ASSUME NEW n \in Nat, NEW c, ContextOK(c, n),
         NEW i \in 1..Len(c.m_lr_stack)
  PROVE  LET d == lr_pop(c, i)
         IN  /\ ContextOK(d, n) /\ mark(d) = mark(c)
             /\ d.m_skip_enabled = c.m_skip_enabled
             /\ d.m_lr_stack \in Seq(LRFrames(n))
             /\ Len(d.m_lr_stack) = i - 1
             /\ \A j \in 1..(i - 1) : d.m_lr_stack[j] = c.m_lr_stack[j]
<1> DEFINE l == SubSeq(c.m_lr_stack, 1, i - 1)
<1>1. c.m_lr_stack \in Seq(LRFrames(n))
  BY FieldTypes DEF ContextOK
<1>2. /\ l \in Seq(LRFrames(n)) /\ Len(l) = i - 1
      /\ \A j \in 1..(i - 1) : l[j] = c.m_lr_stack[j]
  BY <1>1
<1> HIDE DEF l
<1> DEFINE d == [c EXCEPT !.m_lr_stack = l]
<1>3. lr_pop(c, i) = d
  BY DEF lr_pop, l
<1>4. /\ ContextOK(d, n) /\ mark(d) = mark(c) /\ d.m_lr_stack = l
      /\ d.m_skip_enabled = c.m_skip_enabled
  BY <1>2, SetLR
<1> HIDE DEF d
<1> QED
  BY <1>2, <1>3, <1>4

\* clear_growing_head.
LEMMA ClearGrowingOK ==
  ASSUME NEW n \in Nat, NEW c, ContextOK(c, n), NEW p
  PROVE  Kept(c, clear_growing_head(c, p), n)
<1> DEFINE g == [c.m_growing_head EXCEPT ![p] = NoRule]
<1>1. c.m_growing_head \in [0..n -> Rules \cup {NoRule}]
  BY FieldTypes DEF ContextOK
<1>2. g \in [0..n -> Rules \cup {NoRule}]
  BY <1>1
<1> QED
  BY <1>2, SetGrowing DEF clear_growing_head

\* Marking a head changes no frame's rule, position or last_pos.
LEMMA MarkHeadOK ==
  ASSUME NEW n \in Nat, NEW c, ContextOK(c, n), NEW r \in Rules, NEW p
  PROVE  LET d == mark_head(c, r, p)
         IN  /\ ContextOK(d, n) /\ mark(d) = mark(c)
             /\ d.m_skip_enabled = c.m_skip_enabled
             /\ Len(d.m_lr_stack) = Len(c.m_lr_stack)
             /\ \A j \in 1..Len(c.m_lr_stack) :
                  /\ d.m_lr_stack[j].last_pos = c.m_lr_stack[j].last_pos
                  /\ d.m_lr_stack[j].rule = c.m_lr_stack[j].rule
                  /\ d.m_lr_stack[j].pos = c.m_lr_stack[j].pos
<1> DEFINE hits == {k \in 1..Len(c.m_lr_stack) :
                      c.m_lr_stack[k].pos = p /\ c.m_lr_stack[k].rule = r}
           top  == CHOOSE k \in hits : \A j \in hits : j <= k
           l    == [c.m_lr_stack EXCEPT ![top].is_head = TRUE]
           g    == [c.m_growing_head EXCEPT ![p] = r]
           d    == [[c EXCEPT !.m_lr_stack = l] EXCEPT !.m_growing_head = g]
<1> HIDE DEF hits, top
<1>1. /\ c.m_lr_stack \in Seq(LRFrames(n))
      /\ c.m_growing_head \in [0..n -> Rules \cup {NoRule}]
  BY FieldTypes DEF ContextOK
<1>2. g \in [0..n -> Rules \cup {NoRule}]
  BY <1>1
<1>3. /\ l \in Seq(LRFrames(n)) /\ Len(l) = Len(c.m_lr_stack)
      /\ \A j \in 1..Len(c.m_lr_stack) :
           /\ l[j].last_pos = c.m_lr_stack[j].last_pos
           /\ l[j].rule = c.m_lr_stack[j].rule
           /\ l[j].pos = c.m_lr_stack[j].pos
  <2>1. \A j \in 1..Len(c.m_lr_stack) : c.m_lr_stack[j] \in LRFrames(n)
    BY <1>1
  <2>2. \A j \in 1..Len(c.m_lr_stack) :
          /\ [c.m_lr_stack[j] EXCEPT !.is_head = TRUE] \in LRFrames(n)
          /\ [c.m_lr_stack[j] EXCEPT !.is_head = TRUE].last_pos
               = c.m_lr_stack[j].last_pos
          /\ [c.m_lr_stack[j] EXCEPT !.is_head = TRUE].rule
               = c.m_lr_stack[j].rule
          /\ [c.m_lr_stack[j] EXCEPT !.is_head = TRUE].pos
               = c.m_lr_stack[j].pos
    BY <2>1 DEF LRFrames
  <2>3. CASE top \in 1..Len(c.m_lr_stack)
    <3> DEFINE f == [c.m_lr_stack[top] EXCEPT !.is_head = TRUE]
    <3>1. /\ f \in LRFrames(n) /\ f.last_pos = c.m_lr_stack[top].last_pos
          /\ f.rule = c.m_lr_stack[top].rule /\ f.pos = c.m_lr_stack[top].pos
      BY <2>2, <2>3
    <3>2. l = [c.m_lr_stack EXCEPT ![top] = f]
      OBVIOUS
    <3> HIDE DEF f, l
    <3>3. /\ l \in Seq(LRFrames(n)) /\ Len(l) = Len(c.m_lr_stack)
          /\ \A j \in 1..Len(c.m_lr_stack) :
               l[j] = IF j = top THEN f ELSE c.m_lr_stack[j]
      BY <1>1, <2>3, <3>1, <3>2
    <3> QED
      BY <3>1, <3>3
  <2>4. CASE top \notin 1..Len(c.m_lr_stack)
    <3>1. l = c.m_lr_stack
      BY <1>1, <2>4
    <3> QED
      BY <1>1, <3>1
  <2> QED
    BY <2>3, <2>4
<1> HIDE DEF l, g
<1>4. /\ ContextOK(d, n) /\ mark(d) = mark(c)
      /\ d.m_skip_enabled = c.m_skip_enabled /\ d.m_lr_stack = l
  <2> DEFINE e == [c EXCEPT !.m_lr_stack = l]
  <2>1. /\ ContextOK(e, n) /\ mark(e) = mark(c) /\ e.m_lr_stack = l
        /\ e.m_skip_enabled = c.m_skip_enabled
    BY <1>3, SetLR
  <2> HIDE DEF e
  <2>2. Kept(e, [e EXCEPT !.m_growing_head = g], n)
    BY <1>2, <2>1, SetGrowing
  <2> QED
    BY <2>1, <2>2 DEF Kept, SameScopes, e
<1>5. mark_head(c, r, p) = IF c.m_lr_stack[top].is_head THEN c
                           ELSE [c EXCEPT !.m_lr_stack = l, !.m_growing_head = g]
  BY DEF mark_head, hits, top, l, g
<1>6. [c EXCEPT !.m_lr_stack = l, !.m_growing_head = g] = d
  OBVIOUS
<1> HIDE DEF d
<1>7. CASE c.m_lr_stack[top].is_head
  BY <1>5, <1>7 DEF ContextOK
<1>8. CASE ~ c.m_lr_stack[top].is_head
  BY <1>3, <1>4, <1>5, <1>6, <1>8
<1> QED
  BY <1>7, <1>8

-----------------------------------------------------------------------------
(* Cut scopes.                                                             *)

\* init_cut.
LEMMA InitCutOK ==
  ASSUME NEW n \in Nat, NEW c, ContextOK(c, n)
  PROVE  Kept(c, init_cut(c), n)
<1> DEFINE s == Append(c.m_cut, [pos |-> mark(c), cut |-> FALSE])
<1>1. c.m_cut \in Seq(CutRecords(n)) /\ mark(c) \in 0..n
  BY FieldTypes DEF ContextOK, mark
<1>2. [pos |-> mark(c), cut |-> FALSE] \in CutRecords(n)
  BY <1>1 DEF CutRecords
<1>3. s \in Seq(CutRecords(n))
  BY <1>1, <1>2
<1> QED
  BY <1>3, SetCut DEF init_cut

\* cut(bool).
LEMMA CutOK ==
  ASSUME NEW n \in Nat, NEW c, ContextOK(c, n), NEW b \in BOOLEAN
  PROVE  Kept(c, cut(c, b), n)
<1> DEFINE s == [c.m_cut EXCEPT ![Len(c.m_cut)] = [pos |-> mark(c), cut |-> b]]
<1>1. c.m_cut \in Seq(CutRecords(n)) /\ mark(c) \in 0..n
  BY FieldTypes DEF ContextOK, mark
<1>2. [pos |-> mark(c), cut |-> b] \in CutRecords(n)
  BY <1>1 DEF CutRecords
<1>3. CASE c.m_cut = <<>>
  BY <1>3 DEF cut, Kept, SameScopes
<1>4. CASE c.m_cut # <<>>
  <2>1. Len(c.m_cut) \in 1..Len(c.m_cut)
    BY <1>1, <1>4
  <2>2. s \in Seq(CutRecords(n))
    BY <1>1, <1>2, <2>1
  <2> QED
    BY <1>4, <2>2, SetCut DEF cut
<1> QED
  BY <1>3, <1>4

\* remove_cut, with its eviction.
LEMMA RemoveCutOK ==
  ASSUME NEW n \in Nat, NEW c, ContextOK(c, n)
  PROVE  Kept(c, remove_cut(c), n)
<1> DEFINE top == c.m_cut[Len(c.m_cut)]
           s   == SubSeq(c.m_cut, 1, Len(c.m_cut) - 1)
           K   == {k \in DOMAIN c.m_mem : k[1] < top.pos}
           e   == [c EXCEPT !.m_cut = s]
           h   == [e EXCEPT !.m_mem =
                     [k \in DOMAIN @ |-> IF k \in K THEN Absent ELSE @[k]]]
<1>1. c.m_cut \in Seq(CutRecords(n)) /\ c \in Contexts(n)
  BY FieldTypes DEF ContextOK
<1>2. s \in Seq(CutRecords(n))
  BY <1>1
<1>3. Kept(c, e, n)
  BY <1>2, SetCut
<1>4. CASE ~ IsCut(c)
  BY <1>3, <1>4 DEF remove_cut
<1>5. CASE IsCut(c)
  <2>1. top.pos \in 0..n
    <3>1. Len(c.m_cut) \in 1..Len(c.m_cut)
      BY <1>1, <1>5 DEF IsCut
    <3>2. top \in CutRecords(n)
      BY <1>1, <3>1
    <3> QED
      BY <3>2 DEF CutRecords
  <2> HIDE DEF e, K
  <2>2. Kept(e, h, n)
    BY <1>3, ForgetOK DEF Kept
  <2>3. remove_cut(c) = [h EXCEPT !.m_last_cut = top.pos]
    BY <1>1, <1>5 DEF remove_cut, Contexts, e, K
  <2> HIDE DEF h, top
  <2>4. Kept(h, [h EXCEPT !.m_last_cut = top.pos], n)
    BY <2>1, <2>2 DEF Kept, ContextOK, MemoOK, SameScopes, mark, Contexts
  <2> QED
    BY <1>3, <2>2, <2>3, <2>4 DEF Kept, SameScopes
<1> QED
  BY <1>4, <1>5

-----------------------------------------------------------------------------
(* Error tracker and diagnostics.                                          *)

\* record_failure.
LEMMA RecordFailureOK ==
  ASSUME NEW n \in Nat, NEW c, ContextOK(c, n), NEW p \in 0..n,
         NEW item \in ExpectedItems
  PROVE  Kept(c, record_failure(c, p, item), n)
<1>1. /\ c.m_expected \in SUBSET ExpectedItems /\ c \in Contexts(n)
      /\ c.m_furthest_failure_pos \in 0..n /\ c.m_has_error \in BOOLEAN
  BY FieldTypes DEF ContextOK
<1>2. CASE ~ c.m_has_error \/ p > c.m_furthest_failure_pos
  <2>1. {item} \in SUBSET ExpectedItems
    OBVIOUS
  <2> QED
    BY <1>2, <2>1, SetError DEF record_failure
<1>3. CASE /\ ~ (~ c.m_has_error \/ p > c.m_furthest_failure_pos)
           /\ p = c.m_furthest_failure_pos
  <2> DEFINE x == c.m_expected \cup {item}
  <2>1. x \in SUBSET ExpectedItems
    BY <1>1
  <2>2. record_failure(c, p, item) = [c EXCEPT !.m_expected = x]
    BY <1>3 DEF record_failure
  <2> HIDE DEF x
  <2> QED
    BY <1>1, <2>1, <2>2 DEF Contexts, ContextOK, MemoOK, Kept, SameScopes, mark
<1>4. CASE /\ ~ (~ c.m_has_error \/ p > c.m_furthest_failure_pos)
           /\ p # c.m_furthest_failure_pos
  BY <1>4 DEF record_failure, Kept, SameScopes
<1> QED
  BY <1>2, <1>3, <1>4

\* take_error.
LEMMA TakeErrorOK ==
  ASSUME NEW n \in Nat, NEW c, ContextOK(c, n)
  PROVE  Kept(c, take_error(c), n)
<1>1. CASE c.m_has_error
  <2> DEFINE b == FALSE
             x == {}
             p == 0
             d == [c EXCEPT !.m_furthest_failure_pos = p,
                            !.m_expected = x, !.m_has_error = b]
  <2>1. take_error(c) = d
    BY <1>1 DEF take_error, ContextOK, Contexts
  <2>2. p \in 0..n /\ x \in SUBSET ExpectedItems /\ b \in BOOLEAN
    OBVIOUS
  <2> HIDE DEF b, x, p
  <2>3. Kept(c, d, n)
    BY <2>2, SetError
  <2> QED
    BY <2>1, <2>3
<1>2. CASE ~ c.m_has_error
  BY <1>2 DEF take_error, Kept, SameScopes
<1> QED
  BY <1>1, <1>2

\* record_diagnostic.
LEMMA RecordDiagnosticOK ==
  ASSUME NEW n \in Nat, NEW c, ContextOK(c, n), NEW d \in Diagnostics(n)
  PROVE  Kept(c, record_diagnostic(c, d), n)
<1> DEFINE s == Append(c.m_diagnostics, d)
<1>1. c.m_diagnostics \in Seq(Diagnostics(n))
  BY FieldTypes DEF ContextOK
<1>2. s \in Seq(Diagnostics(n))
  BY <1>1
<1> QED
  BY <1>2, SetDiagnostics DEF record_diagnostic

\* take_diagnostics.
LEMMA TakeDiagnosticsOK ==
  ASSUME NEW n \in Nat, NEW c, ContextOK(c, n)
  PROVE  Kept(c, take_diagnostics(c), n)
<1>1. <<>> \in Seq(Diagnostics(n))
  OBVIOUS
<1> QED
  BY <1>1, SetDiagnostics DEF take_diagnostics

-----------------------------------------------------------------------------
(* What each method writes: a method leaves every other member as it was.  *)

\* d differs from c in the members F at most.
Writes(c, d, F) ==
  DOMAIN d = DOMAIN c /\ \A f \in DOMAIN c \ F : d[f] = c[f]

ErrorFields == {"m_furthest_failure_pos", "m_expected", "m_has_error"}

\* Two calls one after the other write what either writes.
LEMMA WritesTrans ==
  ASSUME NEW c, NEW d, NEW e, NEW F, Writes(c, d, F), Writes(d, e, F)
  PROVE  Writes(c, e, F)
BY DEF Writes

\* A call that writes F writes no more than a larger set.
LEMMA WritesMore ==
  ASSUME NEW c, NEW d, NEW F, NEW G, F \subseteq G, Writes(c, d, F)
  PROVE  Writes(c, d, G)
BY DEF Writes

\* The members each method writes.
LEMMA Footprints ==
  ASSUME NEW c, NEW F
  PROVE
    /\ Writes(c, c, F)
    /\ "m_position" \in F =>
         Writes(c, next(c), F) /\ \A x : Writes(c, reset(c, x), F)
    /\ "m_node_arena" \in F =>
         /\ \A x : Writes(c, make_node(c, x), F) /\ Writes(c, set_end(c, x), F)
         /\ \A x, y : /\ Writes(c, edit_node(c, x, y), F)
                      /\ Writes(c, push_child(c, x, y), F)
    /\ "m_mem" \in F =>
         /\ \A x, y : /\ Writes(c, rule_state(c, x, y), F)
                      /\ Writes(c, clear_siblings_at(c, x, y), F)
         /\ \A x, y, z : Writes(c, update_rule_state(c, x, y, z), F)
    /\ "m_lr_stack" \in F =>
         \A x : Writes(c, lr_push(c, x), F) /\ Writes(c, lr_pop(c, x), F)
    /\ "m_growing_head" \in F => \A x : Writes(c, clear_growing_head(c, x), F)
    /\ "m_lr_stack" \in F /\ "m_growing_head" \in F =>
         \A x, y : Writes(c, mark_head(c, x, y), F)
    /\ "m_cut" \in F =>
         /\ Writes(c, init_cut(c), F)
         /\ Writes(c, cut(c, TRUE), F) /\ Writes(c, cut(c, FALSE), F)
         /\ ~ IsCut(c) => Writes(c, remove_cut(c), F)
    /\ "m_cut" \in F /\ "m_mem" \in F /\ "m_last_cut" \in F =>
         Writes(c, remove_cut(c), F)
    /\ ErrorFields \subseteq F =>
         Writes(c, take_error(c), F) /\ \A x, y : Writes(c, record_failure(c, x, y), F)
    /\ "m_diagnostics" \in F =>
         /\ Writes(c, take_diagnostics(c), F)
         /\ \A x : Writes(c, record_diagnostic(c, x), F)
    /\ "m_skip_enabled" \in F => \A x : Writes(c, skip_enabled(c, x), F)
    /\ "m_skipper" \in F => \A x : Writes(c, internal_set_skipper(c, x), F)
<1>1. Writes(c, c, F)
  BY DEF Writes
<1>2. ASSUME "m_position" \in F
      PROVE  Writes(c, next(c), F) /\ \A x : Writes(c, reset(c, x), F)
  BY <1>2 DEF Writes, next, reset
<1>3. ASSUME "m_node_arena" \in F
      PROVE  /\ \A x : Writes(c, make_node(c, x), F) /\ Writes(c, set_end(c, x), F)
             /\ \A x, y : /\ Writes(c, edit_node(c, x, y), F)
                          /\ Writes(c, push_child(c, x, y), F)
  <2>1. \A x : Writes(c, make_node(c, x), F)
    BY <1>3 DEF Writes, make_node
  <2>2. \A x, y : Writes(c, edit_node(c, x, y), F)
    BY <1>3 DEF Writes, edit_node
  <2>3. \A x, y : Writes(c, push_child(c, x, y), F)
    BY <1>1, <2>2 DEF push_child
  <2>4. \A x : Writes(c, set_end(c, x), F)
    BY <2>2 DEF set_end
  <2> QED
    BY <2>1, <2>2, <2>3, <2>4
<1>4. ASSUME "m_mem" \in F
      PROVE  /\ \A x, y : /\ Writes(c, rule_state(c, x, y), F)
                          /\ Writes(c, clear_siblings_at(c, x, y), F)
             /\ \A x, y, z : Writes(c, update_rule_state(c, x, y, z), F)
  <2>1. \A x, y : Writes(c, rule_state(c, x, y), F)
    BY <1>4 DEF Writes, rule_state
  <2>2. \A x, y : Writes(c, clear_siblings_at(c, x, y), F)
    BY <1>4 DEF Writes, clear_siblings_at
  <2>3. \A x, y, z : Writes(c, update_rule_state(c, x, y, z), F)
    BY <1>4 DEF Writes, update_rule_state
  <2> QED
    BY <2>1, <2>2, <2>3
<1>5. ASSUME "m_lr_stack" \in F
      PROVE  \A x : Writes(c, lr_push(c, x), F) /\ Writes(c, lr_pop(c, x), F)
  BY <1>5 DEF Writes, lr_push, lr_pop
<1>6. ASSUME "m_growing_head" \in F
      PROVE  \A x : Writes(c, clear_growing_head(c, x), F)
  BY <1>6 DEF Writes, clear_growing_head
<1>7. ASSUME "m_lr_stack" \in F, "m_growing_head" \in F, NEW x, NEW y
      PROVE  Writes(c, mark_head(c, x, y), F)
  <2>1. \E k : \/ mark_head(c, x, y) = c
               \/ mark_head(c, x, y) = [c EXCEPT !.m_lr_stack[k].is_head = TRUE,
                                                 !.m_growing_head[y] = x]
    BY DEF mark_head
  <2> QED
    BY <1>7, <2>1 DEF Writes
<1>8. ASSUME "m_cut" \in F
      PROVE  /\ Writes(c, init_cut(c), F)
             /\ Writes(c, cut(c, TRUE), F) /\ Writes(c, cut(c, FALSE), F)
             /\ ~ IsCut(c) => Writes(c, remove_cut(c), F)
  <2>1. Writes(c, init_cut(c), F)
    BY <1>8 DEF Writes, init_cut
  <2>2. Writes(c, cut(c, TRUE), F) /\ Writes(c, cut(c, FALSE), F)
    BY <1>8 DEF Writes, cut
  <2>3. ~ IsCut(c) => Writes(c, remove_cut(c), F)
    BY <1>8 DEF Writes, remove_cut
  <2> QED
    BY <2>1, <2>2, <2>3
<1>9. ASSUME "m_cut" \in F, "m_mem" \in F, "m_last_cut" \in F
      PROVE  Writes(c, remove_cut(c), F)
  BY <1>9 DEF Writes, remove_cut
<1>10. ASSUME ErrorFields \subseteq F
       PROVE  /\ Writes(c, take_error(c), F)
              /\ \A x, y : Writes(c, record_failure(c, x, y), F)
  <2>1. /\ "m_furthest_failure_pos" \in F /\ "m_expected" \in F
        /\ "m_has_error" \in F
    BY <1>10 DEF ErrorFields
  <2>2. Writes(c, take_error(c), F)
    BY <2>1 DEF Writes, take_error
  <2>3. ASSUME NEW x, NEW y PROVE Writes(c, record_failure(c, x, y), F)
    <3>1. CASE ~ c.m_has_error \/ x > c.m_furthest_failure_pos
      BY <2>1, <3>1 DEF Writes, record_failure
    <3>2. CASE ~ (~ c.m_has_error \/ x > c.m_furthest_failure_pos)
      BY <2>1, <3>2 DEF Writes, record_failure
    <3> QED
      BY <3>1, <3>2
  <2> QED
    BY <2>2, <2>3
<1>11. ASSUME "m_diagnostics" \in F
       PROVE  /\ Writes(c, take_diagnostics(c), F)
              /\ \A x : Writes(c, record_diagnostic(c, x), F)
  BY <1>11 DEF Writes, take_diagnostics, record_diagnostic
<1>12. ASSUME "m_skip_enabled" \in F PROVE \A x : Writes(c, skip_enabled(c, x), F)
  BY <1>12 DEF Writes, skip_enabled
<1>13. ASSUME "m_skipper" \in F
       PROVE  \A x : Writes(c, internal_set_skipper(c, x), F)
  BY <1>13 DEF Writes, internal_set_skipper
<1> QED
  BY <1>1, <1>2, <1>3, <1>4, <1>5, <1>6, <1>7, <1>8, <1>9, <1>10, <1>11,
     <1>12, <1>13

\* One more method after calls that write F: the cursor and the nodes.
LEMMA MoveThen ==
  ASSUME NEW c, NEW F, "m_position" \in F, "m_node_arena" \in F
  PROVE  /\ \A d, x : Writes(c, d, F) => /\ Writes(c, reset(d, x), F)
                                        /\ Writes(c, make_node(d, x), F)
                                        /\ Writes(c, set_end(d, x), F)
         /\ \A d, x, y : Writes(c, d, F) => /\ Writes(c, edit_node(d, x, y), F)
                                           /\ Writes(c, push_child(d, x, y), F)
<1> SUFFICES ASSUME NEW d, Writes(c, d, F)
             PROVE  /\ \A x : /\ Writes(c, reset(d, x), F)
                              /\ Writes(c, make_node(d, x), F)
                              /\ Writes(c, set_end(d, x), F)
                    /\ \A x, y : /\ Writes(c, edit_node(d, x, y), F)
                                 /\ Writes(c, push_child(d, x, y), F)
  OBVIOUS
<1>1. \A e : Writes(d, e, F) => Writes(c, e, F)
  BY WritesTrans
<1> QED
  BY <1>1, Footprints

\* One more method after calls that write F: the memo and the LR stack.
LEMMA MemoThen ==
  ASSUME NEW c, NEW F, "m_mem" \in F, "m_lr_stack" \in F, "m_growing_head" \in F
  PROVE  /\ \A d, x : Writes(c, d, F) => /\ Writes(c, lr_push(d, x), F)
                                        /\ Writes(c, clear_growing_head(d, x), F)
         /\ \A d, x, y : Writes(c, d, F) => Writes(c, clear_siblings_at(d, x, y), F)
         /\ \A d, x, y, z :
              Writes(c, d, F) => Writes(c, update_rule_state(d, x, y, z), F)
<1> SUFFICES ASSUME NEW d, Writes(c, d, F)
             PROVE  /\ \A x : /\ Writes(c, lr_push(d, x), F)
                              /\ Writes(c, clear_growing_head(d, x), F)
                    /\ \A x, y : Writes(c, clear_siblings_at(d, x, y), F)
                    /\ \A x, y, z : Writes(c, update_rule_state(d, x, y, z), F)
  OBVIOUS
<1>1. \A e : Writes(d, e, F) => Writes(c, e, F)
  BY WritesTrans
<1> QED
  BY <1>1, Footprints

\* d differs from c neither in the cut scopes, nor in the left-recursion
\* stack, nor in the error tracker.
PlainFields ==
  {"m_position", "m_mem", "m_node_arena", "m_growing_head", "m_diagnostics",
   "m_skip_enabled", "m_skipper"}
Plain(c, d) == Writes(c, d, PlainFields)

\* The methods that leave scopes and errors alone.
LEMMA PlainMethods ==
  ASSUME NEW c
  PROVE  /\ Plain(c, c) /\ Plain(c, next(c)) /\ Plain(c, take_diagnostics(c))
         /\ \A x : /\ Plain(c, reset(c, x)) /\ Plain(c, make_node(c, x))
                   /\ Plain(c, set_end(c, x)) /\ Plain(c, skip_enabled(c, x))
                   /\ Plain(c, internal_set_skipper(c, x))
                   /\ Plain(c, clear_growing_head(c, x))
                   /\ Plain(c, record_diagnostic(c, x))
         /\ \A x, y : /\ Plain(c, edit_node(c, x, y))
                      /\ Plain(c, push_child(c, x, y))
                      /\ Plain(c, rule_state(c, x, y))
                      /\ Plain(c, clear_siblings_at(c, x, y))
         /\ \A x, y, z : Plain(c, update_rule_state(c, x, y, z))
BY Footprints DEF Plain, PlainFields

\* Plain methods one after the other.
LEMMA PlainTrans ==
  ASSUME NEW c, NEW d, NEW e, Plain(c, d), Plain(d, e)
  PROVE  Plain(c, e)
BY WritesTrans DEF Plain

\* The methods that write cut scopes, the left-recursion stack or errors.
LEMMA ScopeMethods ==
  ASSUME NEW c
  PROVE  /\ Writes(c, init_cut(c), {"m_cut"})
         /\ Writes(c, cut(c, TRUE), {"m_cut"})
         /\ Writes(c, cut(c, FALSE), {"m_cut"})
         /\ Writes(c, remove_cut(c), {"m_cut", "m_mem", "m_last_cut"})
         /\ \A x : /\ Writes(c, lr_push(c, x), {"m_lr_stack"})
                   /\ Writes(c, lr_pop(c, x), {"m_lr_stack"})
         /\ \A x, y : /\ Writes(c, mark_head(c, x, y),
                                {"m_lr_stack", "m_growing_head"})
                      /\ Writes(c, record_failure(c, x, y), ErrorFields)
         /\ Writes(c, take_error(c), ErrorFields)
<1>1. \A F : /\ "m_cut" \in F => /\ Writes(c, init_cut(c), F)
                                  /\ Writes(c, cut(c, TRUE), F)
                                  /\ Writes(c, cut(c, FALSE), F)
             /\ "m_cut" \in F /\ "m_mem" \in F /\ "m_last_cut" \in F =>
                  Writes(c, remove_cut(c), F)
  BY Footprints
<1>2. /\ Writes(c, init_cut(c), {"m_cut"}) /\ Writes(c, cut(c, TRUE), {"m_cut"})
      /\ Writes(c, cut(c, FALSE), {"m_cut"})
      /\ Writes(c, remove_cut(c), {"m_cut", "m_mem", "m_last_cut"})
  BY <1>1
<1>3. \A F : /\ "m_lr_stack" \in F =>
                  \A x : /\ Writes(c, lr_push(c, x), F)
                        /\ Writes(c, lr_pop(c, x), F)
             /\ "m_lr_stack" \in F /\ "m_growing_head" \in F =>
                  \A x, y : Writes(c, mark_head(c, x, y), F)
             /\ ErrorFields \subseteq F =>
                  /\ Writes(c, take_error(c), F)
                  /\ \A x, y : Writes(c, record_failure(c, x, y), F)
  BY Footprints
<1>4. /\ \A x : /\ Writes(c, lr_push(c, x), {"m_lr_stack"})
                /\ Writes(c, lr_pop(c, x), {"m_lr_stack"})
      /\ \A x, y : Writes(c, mark_head(c, x, y), {"m_lr_stack", "m_growing_head"})
  BY <1>3
<1>5. /\ Writes(c, take_error(c), ErrorFields)
      /\ \A x, y : Writes(c, record_failure(c, x, y), ErrorFields)
  BY <1>3
<1> QED
  BY <1>2, <1>4, <1>5

\* What a method did not write is what it was.
LEMMA Unwritten ==
  ASSUME NEW n \in Nat, NEW c \in Contexts(n), NEW d, NEW F, Writes(c, d, F)
  PROVE  /\ "m_cut" \notin F => d.m_cut = c.m_cut
         /\ "m_lr_stack" \notin F => d.m_lr_stack = c.m_lr_stack
         /\ "m_mem" \notin F => d.m_mem = c.m_mem
         /\ "m_skipper" \notin F => d.m_skipper = c.m_skipper
         /\ "m_skip_enabled" \notin F => d.m_skip_enabled = c.m_skip_enabled
         /\ ErrorFields \cap F = {} =>
              /\ d.m_has_error = c.m_has_error /\ d.m_expected = c.m_expected
              /\ d.m_furthest_failure_pos = c.m_furthest_failure_pos
BY DEF Writes, Contexts, ErrorFields

\* A plain method leaves scopes and errors alone.
LEMMA PlainKeeps ==
  ASSUME NEW n \in Nat, NEW c \in Contexts(n), NEW d, Plain(c, d)
  PROVE  /\ d.m_cut = c.m_cut /\ d.m_lr_stack = c.m_lr_stack
         /\ d.m_has_error = c.m_has_error /\ d.m_expected = c.m_expected
         /\ d.m_furthest_failure_pos = c.m_furthest_failure_pos
BY Unwritten DEF Plain, PlainFields, ErrorFields

\* d differs from c in anything but the error tracker.
QuietFields == PlainFields \cup {"m_cut", "m_last_cut", "m_lr_stack"}
Quiet(c, d) == Writes(c, d, QuietFields)

\* A quiet method leaves the error tracker alone, in any record that has one.
LEMMA QuietKeeps ==
  ASSUME NEW n \in Nat, NEW b \in Contexts(n), NEW c, NEW d,
         DOMAIN c = DOMAIN b, Quiet(c, d)
  PROVE  /\ DOMAIN d = DOMAIN b
         /\ d.m_has_error = c.m_has_error /\ d.m_expected = c.m_expected
         /\ d.m_furthest_failure_pos = c.m_furthest_failure_pos
BY DEF Quiet, Writes, QuietFields, PlainFields, Contexts

\* What the tracker holds after a record_failure: an item it held before, for
\* the same position, or the new item for its own.
LEMMA RecordedItems ==
  ASSUME NEW n \in Nat, NEW b \in Contexts(n), NEW c, DOMAIN c = DOMAIN b,
         NEW pos, NEW item,
         NEW i \in record_failure(c, pos, item).m_expected
  PROVE  LET d == record_failure(c, pos, item)
         IN  \/ i = item /\ d.m_furthest_failure_pos = pos
             \/ /\ c.m_has_error /\ i \in c.m_expected
                /\ d.m_furthest_failure_pos = c.m_furthest_failure_pos
<1>1. /\ "m_has_error" \in DOMAIN c /\ "m_expected" \in DOMAIN c
      /\ "m_furthest_failure_pos" \in DOMAIN c
  BY DEF Contexts
<1>2. CASE ~ c.m_has_error \/ pos > c.m_furthest_failure_pos
  BY <1>1, <1>2 DEF record_failure
<1>3. CASE /\ ~ (~ c.m_has_error \/ pos > c.m_furthest_failure_pos)
           /\ pos = c.m_furthest_failure_pos
  BY <1>1, <1>3 DEF record_failure
<1>4. CASE /\ ~ (~ c.m_has_error \/ pos > c.m_furthest_failure_pos)
           /\ pos # c.m_furthest_failure_pos
  BY <1>1, <1>4 DEF record_failure
<1> QED
  BY <1>2, <1>3, <1>4

\* What each method that writes the memo makes of it.
LEMMA MemoMethods ==
  ASSUME NEW n \in Nat, NEW b \in Contexts(n), NEW c, DOMAIN c = DOMAIN b
  PROVE  /\ \A r, p, x : update_rule_state(c, r, p, x).m_mem =
              IF HasMemo(c, r, p) THEN [c.m_mem EXCEPT ![<<p, r>>] = x]
              ELSE c.m_mem
         /\ \A r, p : rule_state(c, r, p).m_mem =
              IF HasMemo(c, r, p) THEN c.m_mem
              ELSE [c.m_mem EXCEPT ![<<p, r>>] = FreshRuleState]
         /\ \A p, keep : clear_siblings_at(c, p, keep).m_mem =
              [k \in DOMAIN c.m_mem |->
                 IF k[1] = p /\ k[2] # keep /\ ~ lr_in_progress(c, k[2], p)
                 THEN Absent ELSE c.m_mem[k]]
<1>1. "m_mem" \in DOMAIN c
  BY DEF Contexts
<1>2. \A r, p, x : update_rule_state(c, r, p, x).m_mem =
        IF HasMemo(c, r, p) THEN [c.m_mem EXCEPT ![<<p, r>>] = x]
        ELSE c.m_mem
  BY <1>1 DEF update_rule_state
<1>3. \A r, p : rule_state(c, r, p).m_mem =
        IF HasMemo(c, r, p) THEN c.m_mem
        ELSE [c.m_mem EXCEPT ![<<p, r>>] = FreshRuleState]
  BY <1>1 DEF rule_state
<1>4. \A p, keep : clear_siblings_at(c, p, keep).m_mem =
        [k \in DOMAIN c.m_mem |->
           IF k[1] = p /\ k[2] # keep /\ ~ lr_in_progress(c, k[2], p)
           THEN Absent ELSE c.m_mem[k]]
  BY <1>1 DEF clear_siblings_at
<1> QED
  BY <1>2, <1>3, <1>4

\* A method that does not write the memo keeps it.
LEMMA MemoKept ==
  ASSUME NEW n \in Nat, NEW b \in Contexts(n), NEW c, DOMAIN c = DOMAIN b,
         NEW d, NEW F, Writes(c, d, F)
  PROVE  /\ DOMAIN d = DOMAIN b
         /\ "m_mem" \notin F => d.m_mem = c.m_mem
         /\ "m_lr_stack" \notin F => d.m_lr_stack = c.m_lr_stack
         /\ "m_diagnostics" \notin F => d.m_diagnostics = c.m_diagnostics
         /\ "m_has_error" \notin F => d.m_has_error = c.m_has_error
BY DEF Writes, Contexts

-----------------------------------------------------------------------------
(* The inductive invariant.                                                *)

\* Calls that pass their child's failure on without resetting the cursor.
Transparent == {"Alternation", "Lexeme"}
\* Calls that run the skipper.
RunsSkipper == {"Sequence", "Repetition"}

\* A frame is one of the expression it runs, with a child still to run.
FrameOK(f) ==
  /\ f.kind # "Skipper" => f.e.op = f.kind
  /\ f.kind \in ListOps => f.i < Len(f.e.kids)

\* NonTerminal calls point at entries of the left-recursion stack l in the
\* order of the calls, and one that has not matched has not moved.
RuleFrameOK(s, l, k) ==
  s[k].kind = "NonTerminal" =>
    /\ s[k].lr \in 1..Len(l)
    /\ \A j \in 1..(k - 1) : s[j].kind = "NonTerminal" => s[j].lr < s[k].lr
    /\ ~ s[k].best.success =>
         s[k].rs.m_last_pos = s[k].start /\ l[s[k].lr].last_pos = s[k].start

\* A transparent call's child was entered where the call was.
EntryOK(s, k) ==
  k > 1 =>
    /\ s[k - 1].kind \in Transparent => s[k].start = s[k - 1].start
    /\ s[k].kind = "Skipper" => s[k - 1].kind \in RunsSkipper

\* A call that saved the flag as on is inside no lexeme or skipper.
SavedFlagOK(s, k) ==
  InnerSkipScope(s[k]) /\ s[k].prev =>
    \A j \in 1..(k - 1) : ~ InnerSkipScope(s[j])

CallOK(s, l, k) ==
  FrameOK(s[k]) /\ RuleFrameOK(s, l, k) /\ EntryOK(s, k) /\ SavedFlagOK(s, k)

StackOK(s, l) == s \in Seq(Frames) /\ \A k \in 1..Len(s) : CallOK(s, l, k)

FlagOK(s, b) == b => \A k \in 1..Len(s) : ~ InnerSkipScope(s[k])

\* What the control point c, the cursor p and the innermost call f agree on.
TopOK(c, p, f) ==
  /\ c.mode = "call" /\ f.kind \in Transparent => p = f.start
  /\ c.mode = "return" /\ f.kind \in Transparent => c.at = f.start
  /\ c.mode \in {"skip", "go"} => f.kind \in RunsSkipper
  /\ c.mode = "finish" /\ f.kind = "NonTerminal" /\ ~ f.best.success =>
       p = f.start
  /\ c.mode # "idle"

ControlOK(c, p, s) ==
  /\ c.mode = "return" /\ ~ c.res.success => p = c.at
  /\ s # <<>> => TopOK(c, p, s[Len(s)])

Inv ==
  /\ TypeOK
  /\ MemoOK(ctx)
  /\ StackOK(stack, ctx.m_lr_stack)
  /\ ControlOK(ctl, mark(ctx), stack)
  /\ FlagOK(stack, ctx.m_skip_enabled)

-----------------------------------------------------------------------------
(* Stack shapes: changing m_lr_stack, pushing, popping, editing the top.   *)

Front(s) == SubSeq(s, 1, Len(s) - 1)

\* l2 agrees with l on how far the entries of l got.
SameEnds(l, l2) ==
  Len(l) <= Len(l2) /\ \A j \in 1..Len(l) : l2[j].last_pos = l[j].last_pos

\* Entries added on top of the left-recursion stack, or a head marked there,
\* concern no active call.
LEMMA LrChange ==
  ASSUME NEW s, NEW l, NEW l2, StackOK(s, l), SameEnds(l, l2),
         Len(l) \in Nat, Len(l2) \in Nat
  PROVE  StackOK(s, l2)
<1> SUFFICES ASSUME NEW k \in 1..Len(s) PROVE RuleFrameOK(s, l2, k)
  BY DEF StackOK, CallOK
<1>1. RuleFrameOK(s, l, k)
  BY DEF StackOK, CallOK
<1> QED
  BY <1>1 DEF RuleFrameOK, SameEnds

\* The innermost call of a non-empty stack.
LEMMA TopFacts ==
  ASSUME NEW s, NEW l, StackOK(s, l), s # <<>>
  PROVE  /\ Len(s) \in Nat /\ Len(s) \in 1..Len(s)
         /\ s[Len(s)] \in Frames /\ CallOK(s, l, Len(s))
<1>1. s \in Seq(Frames)
  BY DEF StackOK
<1>2. Len(s) \in Nat /\ Len(s) \in 1..Len(s)
  BY <1>1
<1> QED
  BY <1>1, <1>2 DEF StackOK

\* The shape of a stack without its innermost call.
LEMMA FrontFacts ==
  ASSUME NEW s, NEW l, StackOK(s, l), s # <<>>
  PROVE  /\ Front(s) \in Seq(Frames) /\ Len(Front(s)) = Len(s) - 1
         /\ \A k \in 1..(Len(s) - 1) : Front(s)[k] = s[k]
<1>1. s \in Seq(Frames) /\ Len(s) \in Nat /\ Len(s) >= 1
  BY TopFacts DEF StackOK
<1> DEFINE m == Len(s) - 1
           t == SubSeq(s, 1, m)
<1>2. m \in Nat /\ m <= Len(s)
  BY <1>1
<1> HIDE DEF m
<1>3. t \in Seq(Frames) /\ Len(t) = m /\ \A k \in 1..m : t[k] = s[k]
  BY <1>1, <1>2
<1> QED
  BY <1>3 DEF Front, m

\* Popping the innermost call; a NonTerminal call drops its own entry of the
\* left-recursion stack and everything above it.
LEMMA PopOK ==
  ASSUME NEW s, NEW l, StackOK(s, l), s # <<>>, NEW l2,
         Len(l) \in Nat, Len(l2) \in Nat,
         \/ SameEnds(l, l2)
         \/ /\ s[Len(s)].kind = "NonTerminal"
            /\ Len(l2) = s[Len(s)].lr - 1
            /\ \A j \in 1..Len(l2) : l2[j].last_pos = l[j].last_pos
  PROVE  StackOK(Front(s), l2)
<1>1. /\ Front(s) \in Seq(Frames) /\ Len(Front(s)) = Len(s) - 1
      /\ \A k \in 1..(Len(s) - 1) : Front(s)[k] = s[k]
  BY FrontFacts
<1>2. /\ Len(s) \in Nat /\ Len(s) >= 1 /\ CallOK(s, l, Len(s))
      /\ \A k \in 1..Len(s) : s[k] \in Frames
  BY TopFacts DEF StackOK
<1> SUFFICES ASSUME NEW k \in 1..(Len(s) - 1) PROVE CallOK(Front(s), l2, k)
  BY <1>1 DEF StackOK
<1>3. CallOK(s, l, k) /\ k \in 1..Len(s)
  BY <1>2 DEF StackOK
<1>4. Front(s)[k] = s[k] /\ \A j \in 1..(k - 1) : Front(s)[j] = s[j]
  BY <1>1, <1>2
<1>5. FrameOK(Front(s)[k])
  BY <1>3, <1>4 DEF CallOK
<1>6. RuleFrameOK(Front(s), l2, k)
  <2>1. RuleFrameOK(s, l, k) /\ RuleFrameOK(s, l, Len(s))
    BY <1>2, <1>3 DEF CallOK
  <2>2. s[k].lr \in Nat /\ s[Len(s)].lr \in Nat
    BY SMTT(60), <1>2, <1>3 DEF Frames
  <2>3. CASE SameEnds(l, l2)
    BY <1>4, <2>1, <2>2, <2>3 DEF RuleFrameOK, SameEnds
  <2>4. CASE /\ s[Len(s)].kind = "NonTerminal"
             /\ Len(l2) = s[Len(s)].lr - 1
             /\ \A j \in 1..Len(l2) : l2[j].last_pos = l[j].last_pos
    <3>1. s[k].kind = "NonTerminal" => s[k].lr \in 1..Len(l2)
      BY <1>2, <2>1, <2>2, <2>4 DEF RuleFrameOK
    <3> QED
      BY <1>4, <2>1, <2>2, <2>4, <3>1 DEF RuleFrameOK
  <2> QED
    BY <2>3, <2>4
<1>7. EntryOK(Front(s), k)
  BY <1>1, <1>2, <1>3, <1>4 DEF CallOK, EntryOK
<1>8. SavedFlagOK(Front(s), k)
  BY <1>3, <1>4 DEF CallOK, SavedFlagOK
<1> QED
  BY <1>5, <1>6, <1>7, <1>8 DEF CallOK

\* Which call is innermost after a pop.
LEMMA PopTop ==
  ASSUME NEW s, NEW l, StackOK(s, l), s # <<>>, Front(s) # <<>>
  PROVE  LET f == s[Len(s)]
             g == Front(s)[Len(Front(s))]
         IN  /\ g.kind \in Transparent => g.start = f.start
             /\ f.kind = "Skipper" => g.kind \in RunsSkipper
<1>1. /\ Front(s) \in Seq(Frames) /\ Len(Front(s)) = Len(s) - 1
      /\ \A k \in 1..(Len(s) - 1) : Front(s)[k] = s[k]
  BY FrontFacts
<1>2. Len(s) \in Nat /\ CallOK(s, l, Len(s))
  BY TopFacts
<1>3. Len(s) > 1 /\ Front(s)[Len(Front(s))] = s[Len(s) - 1]
  BY <1>1, <1>2
<1> QED
  BY <1>2, <1>3 DEF CallOK, EntryOK

\* Pushing a call.
LEMMA PushOK ==
  ASSUME NEW s, NEW l, StackOK(s, l), NEW f \in Frames, FrameOK(f),
         f.kind = "NonTerminal" =>
           /\ f.lr \in 1..Len(l)
           /\ \A j \in 1..Len(s) : s[j].kind = "NonTerminal" => s[j].lr < f.lr
           /\ f.rs.m_last_pos = f.start /\ l[f.lr].last_pos = f.start,
         s # <<>> =>
           /\ s[Len(s)].kind \in Transparent => f.start = s[Len(s)].start
           /\ f.kind = "Skipper" => s[Len(s)].kind \in RunsSkipper,
         FlagOK(s, f.prev)
  PROVE  StackOK(Append(s, f), l)
<1> DEFINE t == Append(s, f)
<1>1. s \in Seq(Frames)
  BY DEF StackOK
<1>2. /\ t \in Seq(Frames) /\ Len(t) = Len(s) + 1 /\ Len(s) \in Nat
      /\ \A k \in 1..Len(s) : t[k] = s[k]
      /\ t[Len(t)] = f
  BY <1>1
<1> HIDE DEF t
<1> SUFFICES ASSUME NEW k \in 1..Len(t) PROVE CallOK(t, l, k)
  BY <1>2 DEF StackOK, t
<1>3. CASE k \in 1..Len(s)
  <2>1. CallOK(s, l, k)
    BY <1>3 DEF StackOK
  <2>2. t[k] = s[k] /\ \A j \in 1..k : t[j] = s[j]
    BY <1>2, <1>3
  <2>3. FrameOK(t[k])
    BY <2>1, <2>2 DEF CallOK
  <2>4. RuleFrameOK(t, l, k)
    BY <1>3, <2>1, <2>2 DEF CallOK, RuleFrameOK
  <2>5. EntryOK(t, k)
    BY <1>3, <2>1, <2>2 DEF CallOK, EntryOK
  <2>6. SavedFlagOK(t, k)
    BY <1>3, <2>1, <2>2 DEF CallOK, SavedFlagOK
  <2> QED
    BY <2>3, <2>4, <2>5, <2>6 DEF CallOK
<1>4. CASE k = Len(s) + 1
  <2>1. t[k] = f /\ \A j \in 1..(k - 1) : t[j] = s[j]
    BY <1>2, <1>4
  <2>2. RuleFrameOK(t, l, k)
    BY <1>2, <1>4, <2>1 DEF RuleFrameOK
  <2>3. EntryOK(t, k)
    <3>1. k > 1 => s # <<>> /\ t[k - 1] = s[Len(s)]
      BY <1>1, <1>2, <1>4, <2>1
    <3> QED
      BY <2>1, <3>1 DEF EntryOK
  <2>4. SavedFlagOK(t, k)
    BY <1>2, <1>4, <2>1 DEF SavedFlagOK, FlagOK
  <2> QED
    BY <2>1, <2>2, <2>3, <2>4 DEF CallOK
<1> QED
  BY <1>2, <1>3, <1>4

\* Editing the locals of the innermost call.
LEMMA SetTopOK ==
  ASSUME NEW s, NEW l, StackOK(s, l), s # <<>>, NEW f \in Frames, NEW l2,
         f.kind = s[Len(s)].kind, f.e = s[Len(s)].e,
         f.start = s[Len(s)].start, f.prev = s[Len(s)].prev,
         f.lr = s[Len(s)].lr,
         f.kind \in ListOps => f.i < Len(f.e.kids),
         Len(l) \in Nat, Len(l2) = Len(l),
         \A j \in 1..Len(l) : \/ f.kind = "NonTerminal" /\ j = f.lr
                              \/ l2[j].last_pos = l[j].last_pos,
         f.kind = "NonTerminal" /\ ~ f.best.success =>
           f.rs.m_last_pos = f.start /\ l2[f.lr].last_pos = f.start
  PROVE  StackOK([s EXCEPT ![Len(s)] = f], l2)
<1> DEFINE t == [s EXCEPT ![Len(s)] = f]
           n == Len(s)
<1>1. s \in Seq(Frames) /\ n \in Nat /\ n >= 1 /\ n \in 1..n /\ CallOK(s, l, n)
  BY TopFacts DEF StackOK
<1>2. /\ t \in Seq(Frames) /\ Len(t) = n /\ t[n] = f
      /\ \A k \in 1..(n - 1) : t[k] = s[k]
  BY <1>1
<1> HIDE DEF t, n
<1> SUFFICES ASSUME NEW k \in 1..n PROVE CallOK(t, l2, k)
  BY <1>2 DEF StackOK, t, n
<1>3. \A j \in 1..n : /\ t[j].kind = s[j].kind /\ t[j].e = s[j].e
                      /\ t[j].start = s[j].start /\ t[j].prev = s[j].prev
                      /\ t[j].lr = s[j].lr
  BY <1>1, <1>2 DEF n
<1>4. CallOK(s, l, k)
  BY DEF StackOK, n
<1>5. FrameOK(t[k])
  BY <1>1, <1>2, <1>3, <1>4 DEF CallOK, FrameOK
<1>6. EntryOK(t, k)
  BY <1>1, <1>3, <1>4 DEF CallOK, EntryOK
<1>7. SavedFlagOK(t, k)
  BY <1>1, <1>3, <1>4 DEF CallOK, SavedFlagOK, InnerSkipScope
<1>8. RuleFrameOK(t, l2, k)
  <2>1. CASE k = n
    BY SMTT(60), <1>1, <1>2, <1>3, <2>1 DEF CallOK, RuleFrameOK
  <2>2. CASE k # n
    <3>1. RuleFrameOK(s, l, k) /\ RuleFrameOK(s, l, n) /\ t[k] = s[k]
      BY <1>1, <1>2, <1>4, <2>2 DEF CallOK
    <3>2. f.kind = "NonTerminal" /\ s[k].kind = "NonTerminal" => s[k].lr # f.lr
      <4>1. s[k] \in Frames
        BY <1>1 DEF n
      <4>2. s[k].lr \in Nat /\ f.lr \in Nat
        BY <4>1 DEF Frames
      <4> QED
        BY <1>1, <2>2, <3>1, <4>2 DEF RuleFrameOK, n
    <3> QED
      BY SMTT(60), <1>1, <1>3, <2>2, <3>1, <3>2 DEF RuleFrameOK
  <2> QED
    BY <2>1, <2>2
<1> QED
  BY <1>5, <1>6, <1>7, <1>8 DEF CallOK

-----------------------------------------------------------------------------
(* What a state that satisfies Inv, and a step from it, look like.         *)

\* What Inv says of the values a step reads.
LEMMA Facts ==
  ASSUME Inv
  PROVE  /\ Len(input) \in Nat /\ input \in Seq(Chars)
         /\ Absent \notin RuleStates(Len(input))
         /\ ContextOK(ctx, Len(input)) /\ mark(ctx) \in 0..Len(input)
         /\ ctx.m_skip_enabled \in BOOLEAN
         /\ ctx.m_lr_stack \in Seq(LRFrames(Len(input)))
         /\ Len(ctx.m_lr_stack) \in Nat
         /\ ctl \in Control /\ ctl.mode \in Modes /\ ctl.res \in Results
         /\ ctl.e \in Exprs /\ ExprOK(ctl.e) /\ ctl.at \in 0..Len(input)
         /\ GrammarOK(gram) /\ gram \in Grammars
         /\ StackOK(stack, ctx.m_lr_stack)
         /\ ControlOK(ctl, mark(ctx), stack)
         /\ FlagOK(stack, ctx.m_skip_enabled)
<1>1. /\ input \in Seq(Chars) /\ Absent \notin RuleStates(Len(input))
      /\ GrammarOK(gram) /\ gram \in Grammars
  BY MachineAssumption DEF Inv, TypeOK
<1>2. Len(input) \in Nat
  BY <1>1
<1>3. ContextOK(ctx, Len(input)) /\ ctx \in Contexts(Len(input))
  BY DEF Inv, TypeOK, ContextOK
<1>4. /\ mark(ctx) \in 0..Len(input) /\ ctx.m_skip_enabled \in BOOLEAN
      /\ ctx.m_lr_stack \in Seq(LRFrames(Len(input)))
  BY <1>2, <1>3, FieldTypes DEF mark
<1>5. Len(ctx.m_lr_stack) \in Nat
  BY <1>4
<1>6. /\ ctl \in Control /\ ctl.mode \in Modes /\ ctl.res \in Results
      /\ ctl.e \in Exprs /\ ctl.at \in 0..Len(input)
  BY DEF Inv, TypeOK, Control
<1>7. ExprOK(ctl.e)
  BY <1>6, MachineAssumption
<1> QED
  BY <1>1, <1>2, <1>3, <1>4, <1>5, <1>6, <1>7 DEF Inv

\* The parts of Inv, over the unchanged input, make Inv.
LEMMA Conclude ==
  ASSUME Inv, UNCHANGED setup, UNCHANGED driver,
         ContextOK(ctx', Len(input)), ctl' \in Control,
         StackOK(stack', ctx'.m_lr_stack),
         ControlOK(ctl', mark(ctx'), stack'),
         FlagOK(stack', ctx'.m_skip_enabled)
  PROVE  Inv'
<1>1. input' = input /\ gram' = gram
  BY DEF setup
<1>2. Control' = Control /\ Frames' = Frames
  BY <1>1 DEF Control, Frames
<1>3. stack' \in Seq(Frames)
  BY DEF StackOK
<1>4. TypeOK'
  BY <1>1, <1>2, <1>3 DEF Inv, TypeOK, ContextOK, driver
<1>5. MemoOK(ctx)' /\ ControlOK(ctl, mark(ctx), stack)'
      /\ FlagOK(stack, ctx.m_skip_enabled)'
  BY DEF ContextOK, MemoOK, ControlOK, TopOK, FlagOK, mark, InnerSkipScope
<1>6. StackOK(stack, ctx.m_lr_stack)'
  BY <1>2 DEF StackOK, CallOK, FrameOK, RuleFrameOK, EntryOK, SavedFlagOK,
              InnerSkipScope
<1> QED
  BY <1>4, <1>5, <1>6 DEF Inv

\* The control point after a return is well typed.
LEMMA Returns ==
  ASSUME Inv, NEW r \in Results, NEW p \in 0..Len(input), Return(r, p)
  PROVE  /\ ctl' \in Control
         /\ ctl'.mode = "return" /\ ctl'.res = r /\ ctl'.at = p
BY DEF Inv, TypeOK, Control, Return, Modes

\* The control point after a call is well typed.
LEMMA Calls ==
  ASSUME Inv, NEW e \in Exprs, Call(e)
  PROVE  ctl' \in Control /\ ctl'.mode = "call" /\ ctl'.e = e
BY DEF Inv, TypeOK, Control, Call, Modes

\* The control point after a jump inside the same call is well typed.
LEMMA Goes ==
  ASSUME Inv, NEW m \in Modes, Goto(m)
  PROVE  ctl' \in Control /\ ctl'.mode = m /\ ctl'.e = ctl.e
BY DEF Inv, TypeOK, Control, Goto

\* The fields of a frame have their types.
LEMMA FrameTypes ==
  ASSUME NEW f \in Frames
  PROVE  /\ f.kind \in FrameKinds /\ f.e \in Exprs /\ ExprOK(f.e)
         /\ f.start \in 0..Len(input)
         /\ f.i \in Nat /\ f.node \in Nat /\ f.last \in 0..Len(input)
         /\ f.iter \in 0..Len(input) /\ f.prev \in BOOLEAN
         /\ f.best \in Results /\ f.rs \in RuleStates(Len(input))
         /\ f.lr \in Nat
BY MachineAssumption DEF Frames

\* A fresh frame.
LEMMA NewFrameOK ==
  ASSUME Inv, NEW kind \in FrameKinds, NEW e \in Exprs
  PROVE  LET f == NewFrame(kind, e)
         IN  /\ f \in Frames /\ f.kind = kind /\ f.e = e
             /\ f.start = mark(ctx) /\ f.prev = ctx.m_skip_enabled
             /\ f.i = 0 /\ f.rs.m_last_pos = mark(ctx) /\ ~ f.best.success
<1>1. mark(ctx) \in 0..Len(input) /\ ctx.m_skip_enabled \in BOOLEAN
  BY Facts
<1> QED
  BY <1>1 DEF NewFrame, Frames, Failed, Results, RuleStates, nullptr

\* The innermost call.
LEMMA TopOKFacts ==
  ASSUME Inv, stack # <<>>
  PROVE  /\ Top \in Frames /\ Len(stack) \in Nat
         /\ CallOK(stack, ctx.m_lr_stack, Len(stack)) /\ FrameOK(Top)
         /\ TopOK(ctl, mark(ctx), Top)
BY Facts, TopFacts DEF Top, CallOK, ControlOK

-----------------------------------------------------------------------------
(* The shapes of a step.                                                   *)

\* A call that returns without having opened a frame.
LEMMA ReturnAtOnce ==
  ASSUME Inv, ctl.mode = "call", NEW r \in Results, Return(r, mark(ctx)),
         UNCHANGED <<setup, driver, stack>>,
         ContextOK(ctx', Len(input)),
         ctx'.m_skip_enabled = ctx.m_skip_enabled,
         SameEnds(ctx.m_lr_stack, ctx'.m_lr_stack),
         Len(ctx'.m_lr_stack) \in Nat,
         r.success \/ mark(ctx') = mark(ctx)
  PROVE  Inv'
<1>1. /\ StackOK(stack, ctx.m_lr_stack) /\ Len(ctx.m_lr_stack) \in Nat
      /\ ControlOK(ctl, mark(ctx), stack) /\ FlagOK(stack, ctx.m_skip_enabled)
      /\ mark(ctx) \in 0..Len(input)
  BY Facts
<1>2. /\ ctl' \in Control
      /\ ctl'.mode = "return" /\ ctl'.res = r /\ ctl'.at = mark(ctx)
  BY <1>1, Returns
<1>3. StackOK(stack', ctx'.m_lr_stack)
  BY <1>1, LrChange
<1>4. ControlOK(ctl', mark(ctx'), stack')
  BY <1>1, <1>2 DEF ControlOK, TopOK
<1>5. FlagOK(stack', ctx'.m_skip_enabled)
  BY <1>1
<1> QED
  BY <1>2, <1>3, <1>4, <1>5, Conclude DEF setup, driver

\* A call that opens a frame, for any expression but a NonTerminal.
LEMMA OpenFrame ==
  ASSUME Inv, ctl.mode = "call", NEW f \in Frames, FrameOK(f), Push(f), Inner,
         f.kind \notin {"NonTerminal", "Skipper"}, f.start = mark(ctx),
         f.prev = ctx.m_skip_enabled,
         ContextOK(ctx', Len(input)), mark(ctx') = mark(ctx),
         ctx'.m_lr_stack = ctx.m_lr_stack,
         ctx'.m_skip_enabled => ctx.m_skip_enabled /\ ~ InnerSkipScope(f),
         ctl' \in Control,
         \/ ctl'.mode = "call"
         \/ ctl'.mode = "go" /\ f.kind \in RunsSkipper
  PROVE  Inv'
<1>1. /\ StackOK(stack, ctx.m_lr_stack) /\ stack \in Seq(Frames)
      /\ ControlOK(ctl, mark(ctx), stack) /\ FlagOK(stack, ctx.m_skip_enabled)
  BY Facts DEF StackOK
<1>2. /\ stack' \in Seq(Frames) /\ Len(stack') = Len(stack) + 1
      /\ Len(stack) \in Nat
      /\ \A k \in 1..Len(stack) : stack'[k] = stack[k]
      /\ stack'[Len(stack')] = f
  BY <1>1 DEF Push
<1>3. StackOK(stack', ctx'.m_lr_stack)
  BY <1>1, PushOK DEF Push, ControlOK, TopOK
<1>4. ControlOK(ctl', mark(ctx'), stack')
  BY <1>2 DEF ControlOK, TopOK
<1>5. FlagOK(stack', ctx'.m_skip_enabled)
  BY <1>1, <1>2 DEF FlagOK
<1> QED
  BY <1>3, <1>4, <1>5, Conclude DEF Inner, setup, driver

\* The innermost call returns.
LEMMA CloseFrame ==
  ASSUME Inv, stack # <<>>, NEW r \in Results, Return(r, Top.start), Pop, Inner,
         ContextOK(ctx', Len(input)),
         r.success \/ mark(ctx') = Top.start,
         Len(ctx'.m_lr_stack) \in Nat,
         \/ SameEnds(ctx.m_lr_stack, ctx'.m_lr_stack)
         \/ /\ Top.kind = "NonTerminal"
            /\ Len(ctx'.m_lr_stack) = Top.lr - 1
            /\ \A j \in 1..Len(ctx'.m_lr_stack) :
                 ctx'.m_lr_stack[j].last_pos = ctx.m_lr_stack[j].last_pos,
         ctx'.m_skip_enabled =>
           \/ ctx.m_skip_enabled
           \/ InnerSkipScope(Top) /\ Top.prev
  PROVE  Inv'
<1>1. /\ StackOK(stack, ctx.m_lr_stack) /\ Len(ctx.m_lr_stack) \in Nat
      /\ FlagOK(stack, ctx.m_skip_enabled)
  BY Facts
<1>2. Top.start \in 0..Len(input)
  BY TopOKFacts, FrameTypes
<1>3. /\ ctl' \in Control
      /\ ctl'.mode = "return" /\ ctl'.res = r /\ ctl'.at = Top.start
  BY <1>2, Returns
<1>4. stack' = Front(stack)
  BY DEF Pop, Front
<1>5. StackOK(stack', ctx'.m_lr_stack)
  BY <1>1, <1>4, PopOK DEF Top
<1>6. ControlOK(ctl', mark(ctx'), stack')
  BY <1>1, <1>3, <1>4, PopTop DEF ControlOK, TopOK, Top
<1>7. FlagOK(stack', ctx'.m_skip_enabled)
  <2>1. /\ Len(Front(stack)) = Len(stack) - 1 /\ Len(stack) \in Nat
        /\ \A k \in 1..(Len(stack) - 1) : Front(stack)[k] = stack[k]
    BY <1>1, FrontFacts, TopFacts
  <2>2. SavedFlagOK(stack, Len(stack))
    BY <1>1, TopFacts DEF CallOK
  <2> QED
    BY <1>1, <1>4, <2>1, <2>2 DEF FlagOK, SavedFlagOK, Top
<1> QED
  BY <1>3, <1>5, <1>6, <1>7, Conclude DEF Inner, setup, driver

\* The innermost call goes on with edited locals.
LEMMA KeepFrame ==
  ASSUME Inv, stack # <<>>, NEW f \in Frames, SetTop(f), Inner,
         f.kind = Top.kind, f.e = Top.e, f.start = Top.start,
         f.prev = Top.prev, f.lr = Top.lr,
         f.kind \in ListOps => f.i < Len(f.e.kids),
         ContextOK(ctx', Len(input)),
         ctx'.m_skip_enabled = ctx.m_skip_enabled,
         Len(ctx'.m_lr_stack) = Len(ctx.m_lr_stack),
         \A j \in 1..Len(ctx.m_lr_stack) :
           \/ f.kind = "NonTerminal" /\ j = f.lr
           \/ ctx'.m_lr_stack[j].last_pos = ctx.m_lr_stack[j].last_pos,
         f.kind = "NonTerminal" /\ ~ f.best.success =>
           /\ f.rs.m_last_pos = f.start
           /\ ctx'.m_lr_stack[f.lr].last_pos = f.start,
         ctl' \in Control, ctl'.mode # "return", TopOK(ctl', mark(ctx'), f)
  PROVE  Inv'
<1>1. /\ StackOK(stack, ctx.m_lr_stack) /\ Len(ctx.m_lr_stack) \in Nat
      /\ stack \in Seq(Frames) /\ FlagOK(stack, ctx.m_skip_enabled)
  BY Facts DEF StackOK
<1>2. Len(stack) \in Nat /\ Len(stack) \in 1..Len(stack)
  BY <1>1, TopFacts
<1>3. /\ Len(stack') = Len(stack) /\ stack'[Len(stack)] = f
      /\ \A k \in 1..(Len(stack) - 1) : stack'[k] = stack[k]
  BY <1>1, <1>2 DEF SetTop
<1>4. StackOK(stack', ctx'.m_lr_stack)
  BY <1>1, SetTopOK DEF SetTop, Top
<1>5. ControlOK(ctl', mark(ctx'), stack')
  BY <1>3 DEF ControlOK
<1>6. FlagOK(stack', ctx'.m_skip_enabled)
  BY <1>1, <1>2, <1>3 DEF FlagOK, InnerSkipScope, Top
<1> QED
  BY <1>4, <1>5, <1>6, Conclude DEF Inner, setup, driver

\* The stack stays as it is and the innermost call goes on.
LEMMA SameFrame ==
  ASSUME Inv, UNCHANGED stack, Inner,
         ContextOK(ctx', Len(input)), SameScopes(ctx, ctx'),
         ctl' \in Control, ctl'.mode # "return",
         stack # <<>> => TopOK(ctl', mark(ctx'), Top)
  PROVE  Inv'
<1>1. /\ StackOK(stack, ctx.m_lr_stack) /\ FlagOK(stack, ctx.m_skip_enabled)
  BY Facts
<1>2. /\ StackOK(stack', ctx'.m_lr_stack) /\ FlagOK(stack', ctx'.m_skip_enabled)
  BY <1>1 DEF SameScopes
<1>3. ControlOK(ctl', mark(ctx'), stack')
  BY DEF ControlOK, Top
<1> QED
  BY <1>2, <1>3, Conclude DEF Inner, setup, driver

-----------------------------------------------------------------------------
(* Leaf expressions.                                                       *)

\* An LR stack has the same ends as itself.
LEMMA SameEndsRefl ==
  ASSUME Inv, SameScopes(ctx, ctx')
  PROVE  /\ SameEnds(ctx.m_lr_stack, ctx'.m_lr_stack)
         /\ Len(ctx'.m_lr_stack) \in Nat
BY Facts DEF SameEnds, SameScopes

\* Failed and Matched are results.
LEMMA ResultTypes ==
  /\ Failed \in Results /\ ~ Failed.success
  /\ \A t \in Nat : Matched(t) \in Results /\ Matched(t).success
  /\ Matched(nullptr) \in Results /\ Matched(nullptr).success
BY DEF Failed, Matched, Results, nullptr

\* make_node allocates a node index.
LEMMA NextNodeNat ==
  ASSUME NEW n \in Nat, NEW c, ContextOK(c, n)
  PROVE  NextNode(c) \in Nat /\ NextNode(c) # nullptr
<1>1. c.m_node_arena \in Seq(Nodes(n))
  BY FieldTypes DEF ContextOK
<1>2. Len(c.m_node_arena) \in Nat
  BY <1>1
<1> QED
  BY <1>2 DEF NextNode, nullptr

\* A fresh node between two positions is a node.
LEMMA EmptyNodeOK ==
  ASSUME NEW n \in Nat, NEW p \in 0..n, NEW q \in 0..n
  PROVE  EmptyNode(p, q) \in Nodes(n)
BY DEF EmptyNode, Nodes

\* Terminals, tokens, matchers, empty() and cut() preserve Inv.
LEMMA LeafInv == Inv /\ LeafStep => Inv'
<1> SUFFICES ASSUME Inv, LeafStep PROVE Inv'
  OBVIOUS
<1> DEFINE n == Len(input)
<1>0. /\ n \in Nat /\ ContextOK(ctx, n) /\ mark(ctx) \in 0..n
      /\ ExprOK(ctl.e) /\ ctl.e \in Exprs
  BY Facts
<1>1. ASSUME NEW r \in Results, ctl.mode = "call", Return(r, mark(ctx)), Leaf,
             ContextOK(ctx', n), SameScopes(ctx, ctx'),
             r.success \/ mark(ctx') = mark(ctx)
      PROVE  Inv'
  BY <1>1, SameEndsRefl, ReturnAtOnce DEF Leaf, SameScopes
<1>2. ASSUME ctl.mode = "call", Return(Failed, mark(ctx)), Leaf,
             ctx' = ctx \/ record_expected(ctl.e)
      PROVE  Inv'
  <2>1. LiteralItem(ctl.e) \in ExpectedItems
    BY <1>0 DEF LiteralItem, ExpectedItems, ExprOK
  <2>2. Kept(ctx, ctx', n)
    BY <1>0, <1>2, <2>1, RecordFailureOK DEF record_expected, Kept, SameScopes
  <2> QED
    BY <1>1, <1>2, <2>2, ResultTypes DEF Kept
<1>3. CASE TerminalMatch
  BY <1>0, <1>1, <1>3, NextOK, ResultTypes DEF TerminalMatch, Calling
<1>4. CASE TokenMatch
  <2>1. ~ ended(ctx) /\ ctl.mode = "call"
    BY <1>4 DEF TokenMatch, ElementHere, Calling
  <2>2. mark(ctx) + 1 \in 0..n
    <3>1. ctx.m_position \in 0..n /\ ctx.m_input_size = n
      BY <1>0, FieldTypes DEF ContextOK
    <3> QED
      BY <1>0, <2>1, <3>1 DEF ended, mark
  <2>3. EmptyNode(mark(ctx), mark(ctx) + 1) \in Nodes(n)
    BY <1>0, <2>2, EmptyNodeOK
  <2>4. ContextOK(next(ctx), n) /\ SameScopes(ctx, next(ctx))
    BY <1>0, NextOK
  <2>5. ContextOK(ctx', n) /\ SameScopes(ctx, ctx')
    BY <1>0, <1>4, <2>3, <2>4, MakeNodeOK DEF TokenMatch, Kept, SameScopes
  <2> QED
    BY <1>0, <1>1, <1>4, <2>1, <2>5, ResultTypes, NextNodeNat DEF TokenMatch
<1>5. CASE SingleFail
  BY <1>2, <1>5 DEF SingleFail
<1>6. ASSUME LiteralHere(ctl.e.sym)
      PROVE  mark(ctx) + Len(ctl.e.sym) \in 0..n
  <2>1. Len(ctl.e.sym) \in Nat
    BY <1>0 DEF ExprOK
  <2> QED
    BY <1>0, <1>6, <2>1 DEF LiteralHere
<1>7. CASE TerminalSeqMatch
  BY <1>0, <1>1, <1>6, <1>7, ResetOK, ResultTypes DEF TerminalSeqMatch, Calling
<1>8. CASE TerminalSeqFail
  BY <1>2, <1>8 DEF TerminalSeqFail, Calling
<1>9. CASE MatcherMatch
  <2> DEFINE end == mark(ctx) + Len(ctl.e.sym)
  <2>1. end \in 0..n
    BY <1>6, <1>9 DEF MatcherMatch
  <2>2. ctx' = make_node(reset(ctx, end), EmptyNode(mark(ctx), end))
    BY <1>9 DEF MatcherMatch
  <2> HIDE DEF end
  <2>3. EmptyNode(mark(ctx), end) \in Nodes(n)
    BY <1>0, <2>1, EmptyNodeOK
  <2>4. ContextOK(reset(ctx, end), n) /\ SameScopes(ctx, reset(ctx, end))
    BY <1>0, <2>1, ResetOK
  <2>5. ContextOK(ctx', n) /\ SameScopes(ctx, ctx')
    BY <1>0, <2>2, <2>3, <2>4, MakeNodeOK DEF Kept, SameScopes
  <2> QED
    BY <1>0, <1>1, <1>9, <2>5, ResultTypes, NextNodeNat
    DEF MatcherMatch, Calling
<1>10. CASE MatcherFail
  BY <1>2, <1>10 DEF MatcherFail, Calling
<1>11. CASE Empty
  BY <1>0, <1>1, <1>11, ResultTypes DEF Empty, Calling, SameScopes
<1>12. CASE Cut
  BY <1>0, <1>1, <1>12, CutOK, ResultTypes DEF Cut, Calling, Kept
<1> QED
  BY <1>3, <1>4, <1>5, <1>7, <1>8, <1>9, <1>10, <1>11, <1>12 DEF LeafStep

-----------------------------------------------------------------------------
(* Sequences and alternations.                                             *)

\* SequenceExpr::parse preserves Inv.
LEMMA SequenceInv == Inv /\ SequenceStep => Inv'
<1> SUFFICES ASSUME Inv, SequenceStep PROVE Inv'
  OBVIOUS
<1> DEFINE n == Len(input)
<1>0. /\ n \in Nat /\ ContextOK(ctx, n) /\ mark(ctx) \in 0..n
      /\ ExprOK(ctl.e) /\ ctl.e \in Exprs /\ ctl.res \in Results
  BY Facts
<1>1. ASSUME stack # <<>>, Top.kind = "Sequence"
      PROVE  /\ Top \in Frames /\ Top.e.kids \in Seq(Exprs)
             /\ Top.i \in Nat /\ Top.i < Len(Top.e.kids) /\ Top.node \in Nat
             /\ Top.start \in 0..n /\ Len(Top.e.kids) \in Nat
             /\ Kept(ctx, push_child(ctx, Top.node, ctl.res.tree), n)
  <2>1. Top \in Frames /\ FrameOK(Top)
    BY <1>1, TopOKFacts
  <2>2. /\ Top.e.kids \in Seq(Exprs) /\ Top.i \in Nat /\ Top.node \in Nat
        /\ Top.start \in 0..n
    BY <2>1, FrameTypes DEF ExprOK
  <2>3. ctl.res.tree \in Nat
    BY <1>0 DEF Results
  <2>4. Len(Top.e.kids) \in Nat
    BY <2>2
  <2> QED
    BY <1>0, <1>1, <2>1, <2>2, <2>3, <2>4, PushChildOK DEF FrameOK, ListOps
<1>2. CASE SequenceEnter
  <2> DEFINE f == [NewFrame("Sequence", ctl.e) EXCEPT !.node = NextNode(ctx)]
  <2>1. ctl.mode = "call" /\ ctl.e.op = "Sequence" /\ Push(f) /\ Goto("go")
        /\ Inner /\ ctx' = make_node(ctx, EmptyNode(mark(ctx), 0))
    BY <1>2 DEF SequenceEnter, Calling
  <2>2. /\ NewFrame("Sequence", ctl.e) \in Frames
        /\ NewFrame("Sequence", ctl.e).kind = "Sequence"
        /\ NewFrame("Sequence", ctl.e).e = ctl.e
        /\ NewFrame("Sequence", ctl.e).start = mark(ctx)
        /\ NewFrame("Sequence", ctl.e).prev = ctx.m_skip_enabled
        /\ NewFrame("Sequence", ctl.e).i = 0
    BY ZenonT(60), <1>0, NewFrameOK DEF FrameKinds, ListOps
  <2>3. NextNode(ctx) \in Nat
    BY <1>0, NextNodeNat
  <2>4. /\ f \in Frames /\ f.kind = "Sequence" /\ f.e = ctl.e /\ f.i = 0
        /\ f.start = mark(ctx) /\ f.prev = ctx.m_skip_enabled
    BY <2>2, <2>3 DEF Frames
  <2> HIDE DEF f
  <2>5. FrameOK(f)
    BY <1>0, <2>1, <2>4 DEF FrameOK, ExprOK, ListOps
  <2>6. Kept(ctx, ctx', n)
    BY <1>0, <2>1, MakeNodeOK, EmptyNodeOK
  <2>7. ctl' \in Control /\ ctl'.mode = "go"
    BY <2>1, Goes DEF Modes
  <2> QED
    BY <2>1, <2>4, <2>5, <2>6, <2>7, OpenFrame
    DEF Kept, SameScopes, RunsSkipper, InnerSkipScope
<1>3. CASE SequenceChild
  <2>1. stack # <<>> /\ Top.kind = "Sequence"
    BY <1>3 DEF SequenceChild, At
  <2>2. Top.e.kids[Top.i + 1] \in Exprs
    BY <1>1, <2>1
  <2>3. ctl' \in Control /\ ctl'.mode = "call"
    BY <1>3, <2>2, Calls DEF SequenceChild
  <2> QED
    BY <1>0, <1>3, <2>1, <2>3, SameFrame
    DEF SequenceChild, SameScopes, TopOK, Transparent
<1>4. CASE SequenceChildMatched
  <2> DEFINE f == [Top EXCEPT !.i = @ + 1]
  <2>1. /\ stack # <<>> /\ Top.kind = "Sequence"
        /\ Top.i + 1 < Len(Top.e.kids)
        /\ ctx' = push_child(ctx, Top.node, ctl.res.tree) /\ SetTop(f)
        /\ Goto("skip") /\ Inner
    BY <1>4 DEF SequenceChildMatched, ReturnedTo, At
  <2>2. /\ f \in Frames /\ f.kind = Top.kind /\ f.e = Top.e /\ f.lr = Top.lr
        /\ f.start = Top.start /\ f.prev = Top.prev /\ f.i = Top.i + 1
    BY <1>1, <2>1 DEF Frames
  <2> HIDE DEF f
  <2>3. Kept(ctx, ctx', n)
    BY <1>1, <2>1
  <2>4. ctl' \in Control /\ ctl'.mode = "skip"
    BY <2>1, Goes DEF Modes
  <2> QED
    BY <2>1, <2>2, <2>3, <2>4, KeepFrame
    DEF Kept, SameScopes, TopOK, RunsSkipper
<1>5. CASE SequenceMatched
  <2> DEFINE c == push_child(ctx, Top.node, ctl.res.tree)
  <2>1. /\ stack # <<>> /\ Top.kind = "Sequence" /\ ctx' = set_end(c, Top.node)
        /\ Return(Matched(Top.node), Top.start) /\ Pop /\ Inner
    BY <1>5 DEF SequenceMatched, ReturnedTo, At
  <2>2. Kept(ctx, c, n)
    BY <1>1, <2>1
  <2> HIDE DEF c
  <2>3. Kept(c, ctx', n)
    BY <1>0, <2>1, <2>2, SetEndOK DEF Kept
  <2>4. SameScopes(ctx, ctx') /\ ContextOK(ctx', n)
    BY <2>2, <2>3 DEF Kept, SameScopes
  <2>5. Matched(Top.node) \in Results /\ Matched(Top.node).success
    BY <1>1, <2>1, ResultTypes
  <2> QED
    BY <2>1, <2>4, <2>5, SameEndsRefl, CloseFrame DEF SameScopes
<1>6. CASE SequenceFailed
  <2>1. /\ stack # <<>> /\ Top.kind = "Sequence" /\ ctx' = reset(ctx, Top.start)
        /\ Return(Failed, Top.start) /\ Pop /\ Inner
    BY <1>6 DEF SequenceFailed, ReturnedTo, At
  <2>2. /\ SameScopes(ctx, ctx') /\ ContextOK(ctx', n) /\ mark(ctx') = Top.start
    BY <1>0, <1>1, <2>1, ResetOK
  <2> QED
    BY <2>1, <2>2, SameEndsRefl, CloseFrame, ResultTypes DEF SameScopes
<1> QED
  BY <1>2, <1>3, <1>4, <1>5, <1>6 DEF SequenceStep

\* The stamp of an alternation's winner.
LEMMA StampOK ==
  ASSUME NEW n \in Nat, NEW c, ContextOK(c, n), NEW t, NEW i \in Nat
  PROVE  Kept(c, stamp_winner(c, t, i), n)
<1> DEFINE x == NodeAt(c, t)
<1>1. x \in Nodes(n)
  BY NodeAtOK
<1> HIDE DEF x
<1>2. [x EXCEPT !.alt_winner = i] \in Nodes(n)
  BY SMTT(60), <1>1 DEF Nodes
<1>3. CASE t = nullptr
  BY <1>3 DEF stamp_winner, Kept, SameScopes
<1>4. CASE t # nullptr
  BY <1>2, <1>4, EditNodeOK DEF stamp_winner, x
<1> QED
  BY <1>3, <1>4

\* AlternationExpr::parse preserves Inv.
LEMMA AlternationInv == Inv /\ AlternationStep => Inv'
<1> SUFFICES ASSUME Inv, AlternationStep PROVE Inv'
  OBVIOUS
<1> DEFINE n == Len(input)
<1>0. /\ n \in Nat /\ ContextOK(ctx, n) /\ mark(ctx) \in 0..n
      /\ ExprOK(ctl.e) /\ ctl.e \in Exprs /\ ctl.res \in Results
      /\ ControlOK(ctl, mark(ctx), stack)
  BY Facts
<1>1. ASSUME stack # <<>>, Top.kind = "Alternation", ctl.mode = "return"
      PROVE  /\ Top \in Frames /\ Top.e.kids \in Seq(Exprs)
             /\ Top.i \in Nat /\ Top.i < Len(Top.e.kids)
             /\ Top.start \in 0..n /\ Len(Top.e.kids) \in Nat
             /\ ctl.at = Top.start
             /\ ~ ctl.res.success => mark(ctx) = Top.start
  <2>1. Top \in Frames /\ FrameOK(Top) /\ TopOK(ctl, mark(ctx), Top)
    BY <1>1, TopOKFacts
  <2>2. Top.e.kids \in Seq(Exprs) /\ Top.i \in Nat /\ Top.start \in 0..n
    BY <2>1, FrameTypes DEF ExprOK
  <2>3. Len(Top.e.kids) \in Nat
    BY <2>2
  <2> QED
    BY <1>0, <1>1, <2>1, <2>2, <2>3
    DEF FrameOK, ListOps, TopOK, Transparent, ControlOK
<1>2. CASE AlternationEnter
  <2> DEFINE f == NewFrame("Alternation", ctl.e)
  <2>1. /\ ctl.mode = "call" /\ ctl.e.op = "Alternation" /\ Push(f)
        /\ ctx' = init_cut(ctx) /\ Call(ctl.e.kids[1]) /\ Inner
    BY <1>2 DEF AlternationEnter, Calling
  <2>2. /\ f \in Frames /\ f.kind = "Alternation" /\ f.e = ctl.e /\ f.i = 0
        /\ f.start = mark(ctx) /\ f.prev = ctx.m_skip_enabled
    BY ZenonT(60), <1>0, NewFrameOK DEF FrameKinds, ListOps
  <2> HIDE DEF f
  <2>3. /\ ctl.e.kids \in Seq(Exprs) /\ Len(ctl.e.kids) >= 1
    BY <1>0, <2>1 DEF ExprOK, ListOps
  <2>4. ctl.e.kids[1] \in Exprs /\ Len(ctl.e.kids) \in Nat
    BY <2>3
  <2>5. ctl' \in Control /\ ctl'.mode = "call"
    BY <2>1, <2>4, Calls
  <2>6. FrameOK(f)
    BY <2>1, <2>2, <2>3, <2>4 DEF FrameOK
  <2>7. Kept(ctx, ctx', n)
    BY <1>0, <2>1, InitCutOK
  <2> QED
    BY <2>1, <2>2, <2>5, <2>6, <2>7, OpenFrame
    DEF Kept, SameScopes, InnerSkipScope
<1>3. CASE AlternationMatched
  <2> DEFINE c == stamp_winner(ctx, ctl.res.tree, Top.i)
  <2>1. /\ stack # <<>> /\ Top.kind = "Alternation" /\ ctl.mode = "return"
        /\ ctl.res.success /\ ctx' = remove_cut(c)
        /\ Return(ctl.res, Top.start) /\ Pop /\ Inner
    BY <1>0, <1>3 DEF AlternationMatched, ReturnedTo, At, Results
  <2>2. Kept(ctx, c, n)
    BY <1>0, <1>1, <2>1, StampOK
  <2> HIDE DEF c
  <2>3. Kept(c, ctx', n)
    BY <1>0, <2>1, <2>2, RemoveCutOK DEF Kept
  <2>4. SameScopes(ctx, ctx') /\ ContextOK(ctx', n)
    BY <2>2, <2>3 DEF Kept, SameScopes
  <2> QED
    BY <1>0, <2>1, <2>4, SameEndsRefl, CloseFrame DEF SameScopes
<1>4. CASE AlternationNext
  <2> DEFINE f == [Top EXCEPT !.i = @ + 1]
  <2>1. /\ stack # <<>> /\ Top.kind = "Alternation" /\ ctl.mode = "return"
        /\ ~ ctl.res.success /\ Top.i + 1 < Len(Top.e.kids)
        /\ SetTop(f) /\ Call(Top.e.kids[Top.i + 2]) /\ ctx' = ctx /\ Inner
    BY <1>4 DEF AlternationNext, ReturnedTo, At
  <2>2. /\ f \in Frames /\ f.kind = Top.kind /\ f.e = Top.e /\ f.lr = Top.lr
        /\ f.start = Top.start /\ f.prev = Top.prev /\ f.i = Top.i + 1
    BY SMTT(60), <1>1, <2>1 DEF Frames
  <2> HIDE DEF f
  <2>3. Top.e.kids[Top.i + 2] \in Exprs
    BY <1>1, <2>1
  <2>4. ctl' \in Control /\ ctl'.mode = "call"
    BY <2>1, <2>3, Calls
  <2> QED
    BY <1>0, <1>1, <2>1, <2>2, <2>4, KeepFrame DEF TopOK
<1>5. CASE AlternationExhausted
  <2>1. /\ stack # <<>> /\ Top.kind = "Alternation" /\ ctl.mode = "return"
        /\ ~ ctl.res.success /\ ctx' = remove_cut(ctx)
        /\ Return(Failed, Top.start) /\ Pop /\ Inner
    BY <1>5 DEF AlternationExhausted, ReturnedTo, At
  <2>2. Kept(ctx, ctx', n)
    BY <1>0, <2>1, RemoveCutOK
  <2>3. mark(ctx') = Top.start
    BY <1>1, <2>1, <2>2 DEF Kept
  <2> QED
    BY <2>1, <2>2, <2>3, SameEndsRefl, CloseFrame, ResultTypes
    DEF Kept, SameScopes
<1>6. CASE AlternationThrow
  <2>1. ctl' \in Control /\ ctl'.mode = "throw"
    BY <1>6, Goes DEF AlternationThrow, Modes
  <2> QED
    BY <1>0, <1>6, <2>1, SameFrame DEF AlternationThrow, SameScopes, TopOK
<1> QED
  BY <1>2, <1>3, <1>4, <1>5, <1>6 DEF AlternationStep

-----------------------------------------------------------------------------
(* Repetitions.                                                            *)

\* children.resize.
LEMMA PadOK ==
  ASSUME NEW n \in Nat, NEW c, ContextOK(c, n), NEW t, NEW i \in Nat
  PROVE  Kept(c, PadChildren(c, t, i), n)
<1> DEFINE x == NodeAt(c, t)
           s == [k \in 1..i |-> IF k <= Len(x.children) THEN x.children[k]
                                ELSE nullptr]
<1>1. x \in Nodes(n)
  BY NodeAtOK
<1> HIDE DEF x
<1>2. x.children \in Seq(Nat)
  BY <1>1 DEF Nodes
<1>3. \A k \in 1..i : s[k] \in Nat
  BY <1>2 DEF nullptr
<1>4. s \in Seq(Nat)
  BY <1>3
<1> HIDE DEF s
<1>5. [x EXCEPT !.children = s] \in Nodes(n)
  BY <1>1, <1>4 DEF Nodes
<1>6. PadChildren(c, t, i) = edit_node(c, t, [x EXCEPT !.children = s])
  BY DEF PadChildren, x, s
<1> QED
  BY <1>5, <1>6, EditNodeOK

\* repeat_parse_impl preserves Inv.
LEMMA RepetitionInv == Inv /\ RepetitionStep => Inv'
<1> SUFFICES ASSUME Inv, RepetitionStep PROVE Inv'
  OBVIOUS
<1> DEFINE n == Len(input)
<1>0. /\ n \in Nat /\ ContextOK(ctx, n) /\ mark(ctx) \in 0..n
      /\ ExprOK(ctl.e) /\ ctl.e \in Exprs /\ ctl.res \in Results
  BY Facts
<1>1. ASSUME stack # <<>>, Top.kind = "Repetition"
      PROVE  /\ Top \in Frames /\ Top.e.kids[1] \in Exprs
             /\ Top.i \in Nat /\ Top.node \in Nat
             /\ Top.start \in 0..n /\ Top.last \in 0..n
             /\ Kept(ctx, push_child(ctx, Top.node, ctl.res.tree), n)
             /\ Top.kind \notin ListOps /\ Top.kind # "NonTerminal"
  <2>1. Top \in Frames /\ FrameOK(Top)
    BY <1>1, TopOKFacts
  <2>2. /\ Top.e.kids \in Seq(Exprs) /\ Top.i \in Nat /\ Top.node \in Nat
        /\ Top.start \in 0..n /\ Top.last \in 0..n /\ ExprOK(Top.e)
    BY <2>1, FrameTypes DEF ExprOK
  <2>3. ctl.res.tree \in Nat
    BY <1>0 DEF Results
  <2>4. Len(Top.e.kids) = 1
    BY <1>1, <2>1, <2>2 DEF FrameOK, ExprOK, UnaryOps
  <2> QED
    BY <1>0, <1>1, <2>1, <2>2, <2>3, <2>4, PushChildOK DEF ListOps
<1>2. CASE RepetitionEnter
  <2> DEFINE g == NewFrame("Repetition", ctl.e)
             f == [g EXCEPT !.node = NextNode(ctx)]
             c == init_cut(ctx)
  <2>1. /\ ctl.mode = "call" /\ ctl.e.op = "Repetition" /\ Push(f) /\ Goto("go")
        /\ Inner /\ ctx' = make_node(c, EmptyNode(mark(ctx), 0))
    BY <1>2 DEF RepetitionEnter, Calling
  <2>2. /\ g \in Frames /\ g.kind = "Repetition" /\ g.e = ctl.e
        /\ g.start = mark(ctx) /\ g.prev = ctx.m_skip_enabled
    BY <1>0, NewFrameOK DEF FrameKinds, UnaryOps
  <2>3. NextNode(ctx) \in Nat
    BY <1>0, NextNodeNat
  <2>4. /\ f \in Frames /\ f.kind = "Repetition" /\ f.e = ctl.e
        /\ f.start = mark(ctx) /\ f.prev = ctx.m_skip_enabled
    BY <2>2, <2>3 DEF Frames
  <2> HIDE DEF f, c
  <2>5. FrameOK(f)
    BY <2>1, <2>4 DEF FrameOK, ListOps
  <2>6. Kept(ctx, c, n)
    BY <1>0, InitCutOK DEF c
  <2>7. Kept(c, ctx', n)
    BY <1>0, <2>1, <2>6, MakeNodeOK, EmptyNodeOK DEF Kept
  <2>8. ctl' \in Control /\ ctl'.mode = "go"
    BY <2>1, Goes DEF Modes
  <2> QED
    BY <2>1, <2>4, <2>5, <2>6, <2>7, <2>8, OpenFrame
    DEF Kept, SameScopes, RunsSkipper, InnerSkipScope
<1>3. CASE RepetitionChild
  <2> DEFINE f == [Top EXCEPT !.iter = mark(ctx)]
  <2>1. /\ stack # <<>> /\ Top.kind = "Repetition" /\ SetTop(f)
        /\ ctx' = cut(ctx, FALSE) /\ Call(Top.e.kids[1]) /\ Inner
    BY <1>3 DEF RepetitionChild, At
  <2>2. /\ f \in Frames /\ f.kind = Top.kind /\ f.e = Top.e /\ f.lr = Top.lr
        /\ f.start = Top.start /\ f.prev = Top.prev
    BY <1>0, <1>1, <2>1 DEF Frames
  <2> HIDE DEF f
  <2>3. Kept(ctx, ctx', n)
    BY <1>0, <2>1, CutOK
  <2>4. ctl' \in Control /\ ctl'.mode = "call"
    BY <1>1, <2>1, Calls
  <2> QED
    BY <1>1, <2>1, <2>2, <2>3, <2>4, KeepFrame
    DEF Kept, SameScopes, TopOK, Transparent
<1>4. CASE RepetitionChildMatched
  <2> DEFINE f == [Top EXCEPT !.i = @ + 1, !.last = mark(ctx)]
  <2>1. /\ stack # <<>> /\ Top.kind = "Repetition" /\ SetTop(f)
        /\ ctx' = push_child(ctx, Top.node, ctl.res.tree)
        /\ Goto("skip") /\ Inner
    BY <1>4 DEF RepetitionChildMatched, ReturnedTo, At
  <2>2. /\ f \in Frames /\ f.kind = Top.kind /\ f.e = Top.e /\ f.lr = Top.lr
        /\ f.start = Top.start /\ f.prev = Top.prev
    <3>1. Top \in Frames /\ Top.i + 1 \in Nat
      BY <1>1, <2>1
    <3> QED
      BY <1>0, <3>1 DEF Frames
  <2> HIDE DEF f
  <2>3. Kept(ctx, ctx', n)
    BY <1>1, <2>1
  <2>4. ctl' \in Control /\ ctl'.mode = "skip"
    BY <2>1, Goes DEF Modes
  <2> QED
    BY <1>1, <2>1, <2>2, <2>3, <2>4, KeepFrame
    DEF Kept, SameScopes, TopOK, RunsSkipper
<1>5. ASSUME stack # <<>>, Top.kind = "Repetition", NEW c, Kept(ctx, c, n),
             ctx' = remove_cut(reset(c, Top.start)),
             Return(Failed, Top.start), Pop, Inner
      PROVE  Inv'
  <2>1. /\ ContextOK(reset(c, Top.start), n) /\ SameScopes(c, reset(c, Top.start))
        /\ mark(reset(c, Top.start)) = Top.start
    BY <1>0, <1>1, <1>5, ResetOK DEF Kept
  <2>2. Kept(reset(c, Top.start), ctx', n)
    BY <1>0, <1>5, <2>1, RemoveCutOK
  <2>3. SameScopes(ctx, ctx') /\ ContextOK(ctx', n) /\ mark(ctx') = Top.start
    BY <1>5, <2>1, <2>2 DEF Kept, SameScopes
  <2> QED
    BY <1>5, <2>3, SameEndsRefl, CloseFrame, ResultTypes DEF SameScopes
<1>6. ASSUME stack # <<>>, Top.kind = "Repetition", NEW c, ContextOK(c, n),
             SameScopes(ctx, c), ctx' = remove_cut(set_end(c, Top.node)),
             Return(Matched(Top.node), Top.start), Pop, Inner
      PROVE  Inv'
  <2>1. Kept(c, set_end(c, Top.node), n)
    BY <1>0, <1>6, SetEndOK
  <2>2. Kept(set_end(c, Top.node), ctx', n)
    BY <1>0, <1>6, <2>1, RemoveCutOK DEF Kept
  <2>3. SameScopes(ctx, ctx') /\ ContextOK(ctx', n)
    BY <1>6, <2>1, <2>2 DEF Kept, SameScopes
  <2>4. Matched(Top.node) \in Results /\ Matched(Top.node).success
    BY <1>1, <1>6, ResultTypes
  <2> QED
    BY <1>6, <2>3, <2>4, SameEndsRefl, CloseFrame DEF SameScopes
<1>7. CASE RepetitionMatched
  <2> DEFINE c == push_child(ctx, Top.node, ctl.res.tree)
  <2>1. /\ stack # <<>> /\ Top.kind = "Repetition" /\ Pop /\ Inner
        /\ IF Top.i + 1 < Top.e.min_rep
           THEN /\ ctx' = remove_cut(reset(c, Top.start))
                /\ Return(Failed, Top.start)
           ELSE /\ ctx' = remove_cut(set_end(c, Top.node))
                /\ Return(Matched(Top.node), Top.start)
    BY <1>7 DEF RepetitionMatched, ReturnedTo, At
  <2>2. Kept(ctx, c, n)
    BY <1>1, <2>1
  <2> HIDE DEF c
  <2>3. CASE Top.i + 1 < Top.e.min_rep
    BY <1>5, <2>1, <2>2, <2>3
  <2>4. CASE ~ (Top.i + 1 < Top.e.min_rep)
    BY <1>6, <2>1, <2>2, <2>4 DEF Kept
  <2> QED
    BY <2>3, <2>4
<1>8. CASE RepetitionTooFew
  <2>1. Kept(ctx, ctx, n)
    BY <1>0 DEF Kept, SameScopes
  <2> QED
    BY <1>5, <1>8, <2>1 DEF RepetitionTooFew, ReturnedTo, At
<1>9. ASSUME stack # <<>>, Top.kind = "Repetition"
      PROVE  LET c == PadChildren(reset(ctx, Top.last), Top.node, Top.i)
             IN  ContextOK(c, n) /\ SameScopes(ctx, c)
  <2>1. /\ ContextOK(reset(ctx, Top.last), n)
        /\ SameScopes(ctx, reset(ctx, Top.last))
    BY <1>0, <1>1, <1>9, ResetOK
  <2>2. Top.i \in Nat
    BY <1>1, <1>9
  <2> QED
    BY <1>0, <2>1, <2>2, PadOK DEF Kept, SameScopes
<1>10. CASE RepetitionEnds
  <2>1. stack # <<>> /\ Top.kind = "Repetition"
    BY <1>10 DEF RepetitionEnds, ReturnedTo, At
  <2> QED
    BY <1>6, <1>9, <1>10, <2>1 DEF RepetitionEnds
<1>11. CASE RepetitionThrow
  <2>1. stack # <<>> /\ Top.kind = "Repetition"
    BY <1>11 DEF RepetitionThrow, ReturnedTo, At
  <2>2. ctl' \in Control /\ ctl'.mode = "throw"
    BY <1>11, Goes DEF RepetitionThrow, Modes
  <2> QED
    BY <1>9, <1>11, <2>1, <2>2, SameFrame DEF RepetitionThrow, TopOK
<1> QED
  BY <1>2, <1>3, <1>4, <1>7, <1>8, <1>10, <1>11 DEF RepetitionStep

-----------------------------------------------------------------------------
(* Predicates, lexemes and the skipper.                                    *)

\* Predicates and LexemeExpr preserve Inv.
LEMMA WrapperInv == Inv /\ WrapperStep => Inv'
<1> SUFFICES ASSUME Inv, WrapperStep PROVE Inv'
  OBVIOUS
<1> DEFINE n == Len(input)
<1>0. /\ n \in Nat /\ ContextOK(ctx, n) /\ mark(ctx) \in 0..n
      /\ ExprOK(ctl.e) /\ ctl.e \in Exprs /\ ctl.res \in Results
      /\ ControlOK(ctl, mark(ctx), stack)
  BY Facts
<1>1. ASSUME NEW op \in {"Not", "And", "Lexeme"}, ctl.e.op = op,
             Push(NewFrame(op, ctl.e)), Call(ctl.e.kids[1]), Inner,
             ctl.mode = "call", ContextOK(ctx', n), mark(ctx') = mark(ctx),
             ctx'.m_lr_stack = ctx.m_lr_stack,
             ctx'.m_skip_enabled => ctx.m_skip_enabled /\ op # "Lexeme"
      PROVE  Inv'
  <2> DEFINE f == NewFrame(op, ctl.e)
  <2>1. /\ f \in Frames /\ f.kind = op /\ f.e = ctl.e
        /\ f.start = mark(ctx) /\ f.prev = ctx.m_skip_enabled
    BY <1>0, NewFrameOK DEF FrameKinds, UnaryOps
  <2> HIDE DEF f
  <2>2. ctl.e.kids \in Seq(Exprs) /\ Len(ctl.e.kids) = 1
    BY <1>0, <1>1 DEF ExprOK, UnaryOps
  <2>3. ctl.e.kids[1] \in Exprs
    BY <2>2
  <2>4. ctl' \in Control /\ ctl'.mode = "call"
    BY <1>1, <2>3, Calls
  <2>5. FrameOK(f)
    BY <1>1, <2>1 DEF FrameOK, ListOps
  <2> QED
    BY <1>1, <2>1, <2>4, <2>5, OpenFrame DEF InnerSkipScope, f
<1>2. CASE PredicateEnter
  <2>1. PICK op \in {"Not", "And"} :
          /\ Calling(op) /\ Push(NewFrame(op, ctl.e)) /\ Call(ctl.e.kids[1])
          /\ ctx' = ctx /\ Inner
    BY <1>2 DEF PredicateEnter
  <2> QED
    BY <1>0, <1>1, <2>1 DEF Calling
<1>3. CASE PredicateReturn
  <2>1. PICK op \in {"Not", "And"} :
          /\ At("return", op) /\ ctx' = reset(ctx, Top.start) /\ Pop /\ Inner
          /\ Return([success |-> (op = "And") <=> ctl.res.success,
                     tree |-> nullptr], Top.start)
    BY <1>3 DEF PredicateReturn
  <2>2. stack # <<>> /\ Top.start \in 0..n
    BY <2>1, TopOKFacts, FrameTypes DEF At
  <2>3. ContextOK(ctx', n) /\ SameScopes(ctx, ctx') /\ mark(ctx') = Top.start
    BY <1>0, <2>1, <2>2, ResetOK
  <2> DEFINE r == [success |-> (op = "And") <=> ctl.res.success,
                   tree |-> nullptr]
  <2>4. r \in Results
    BY DEF Results, nullptr
  <2> HIDE DEF r
  <2> QED
    BY <2>1, <2>2, <2>3, <2>4, SameEndsRefl, CloseFrame DEF SameScopes, r
<1>4. CASE LexemeEnter
  <2>1. /\ ctl.mode = "call" /\ ctl.e.op = "Lexeme"
        /\ Push(NewFrame("Lexeme", ctl.e))
        /\ Call(ctl.e.kids[1]) /\ ctx' = skip_enabled(ctx, FALSE) /\ Inner
    BY <1>4 DEF LexemeEnter, Calling
  <2>2. /\ ContextOK(ctx', n) /\ mark(ctx') = mark(ctx)
        /\ ctx'.m_lr_stack = ctx.m_lr_stack /\ ~ ctx'.m_skip_enabled
    BY <1>0, <2>1, SkipEnabledOK
  <2> QED
    BY <1>1, <2>1, <2>2
<1>5. CASE LexemeReturn
  <2>1. /\ stack # <<>> /\ Top.kind = "Lexeme" /\ ctl.mode = "return"
        /\ ctx' = skip_enabled(ctx, Top.prev) /\ Return(ctl.res, Top.start)
        /\ Pop /\ Inner
    BY <1>5 DEF LexemeReturn, At
  <2>2. /\ Top.start \in 0..n /\ Top.prev \in BOOLEAN
        /\ TopOK(ctl, mark(ctx), Top)
    BY <2>1, TopOKFacts, FrameTypes
  <2>3. /\ ContextOK(ctx', n) /\ mark(ctx') = mark(ctx)
        /\ ctx'.m_lr_stack = ctx.m_lr_stack /\ ctx'.m_skip_enabled = Top.prev
    BY <1>0, <2>1, <2>2, SkipEnabledOK
  <2>4. ctl.res.success \/ mark(ctx') = Top.start
    BY <1>0, <2>1, <2>2, <2>3 DEF TopOK, Transparent, ControlOK
  <2>5. /\ SameEnds(ctx.m_lr_stack, ctx'.m_lr_stack)
        /\ Len(ctx'.m_lr_stack) \in Nat
    BY <2>3, Facts DEF SameEnds
  <2> QED
    BY <1>0, <2>1, <2>3, <2>4, <2>5, CloseFrame DEF InnerSkipScope
<1> QED
  BY <1>2, <1>3, <1>4, <1>5 DEF WrapperStep

\* Context::run_skipper preserves Inv.
LEMMA SkipperInv == Inv /\ SkipperStep => Inv'
<1> SUFFICES ASSUME Inv, SkipperStep PROVE Inv'
  OBVIOUS
<1> DEFINE n == Len(input)
<1>0. /\ n \in Nat /\ ContextOK(ctx, n) /\ mark(ctx) \in 0..n
      /\ StackOK(stack, ctx.m_lr_stack) /\ Len(ctx.m_lr_stack) \in Nat
      /\ stack \in Seq(Frames)
      /\ ControlOK(ctl, mark(ctx), stack) /\ FlagOK(stack, ctx.m_skip_enabled)
  BY Facts DEF StackOK
<1>1. CASE SkipperEnter
  <2> DEFINE e == Ref(ctx.m_skipper)
             f == NewFrame("Skipper", e)
  <2>1. /\ ctl.mode = "skip" /\ ctx.m_skip_enabled /\ ctx.m_skipper # NoRule
        /\ Push(f) /\ ctx' = skip_enabled(ctx, FALSE) /\ Call(e) /\ Inner
    BY <1>1 DEF SkipperEnter, SkipperRuns
  <2>2. e \in Exprs
    <3>1. ctx.m_skipper \in Rules
      BY <1>0, <2>1, FieldTypes DEF ContextOK
    <3> QED
      BY <3>1, MachineAssumption
  <2>3. /\ f \in Frames /\ f.kind = "Skipper"
        /\ f.start = mark(ctx) /\ f.prev = ctx.m_skip_enabled
    BY <2>2, NewFrameOK DEF FrameKinds
  <2>4. ctl' \in Control /\ ctl'.mode = "call"
    BY <2>1, <2>2, Calls
  <2> HIDE DEF e, f
  <2>5. /\ ContextOK(ctx', n) /\ mark(ctx') = mark(ctx)
        /\ ctx'.m_lr_stack = ctx.m_lr_stack /\ ~ ctx'.m_skip_enabled
    BY <1>0, <2>1, SkipEnabledOK
  <2>6. stack # <<>> => stack[Len(stack)].kind \in RunsSkipper
    BY <1>0, <2>1 DEF ControlOK, TopOK
  <2>7. StackOK(stack', ctx'.m_lr_stack)
    <3>1. FrameOK(f)
      BY <2>3 DEF FrameOK, ListOps
    <3>2. stack # <<>> => stack[Len(stack)].kind \notin Transparent
      BY <2>6 DEF RunsSkipper, Transparent
    <3> QED
      BY <1>0, <2>1, <2>3, <2>5, <2>6, <3>1, <3>2, PushOK DEF Push
  <2>8. stack' \in Seq(Frames) /\ stack'[Len(stack')] = f
    BY <1>0, <2>1, <2>3 DEF Push
  <2>9. ControlOK(ctl', mark(ctx'), stack')
    BY <2>3, <2>4, <2>8 DEF ControlOK, TopOK, Transparent
  <2>10. FlagOK(stack', ctx'.m_skip_enabled)
    BY <2>5 DEF FlagOK
  <2> QED
    BY <2>1, <2>4, <2>5, <2>7, <2>9, <2>10, Conclude DEF Inner, setup, driver
<1>2. CASE SkipperNone
  <2>1. ctl' \in Control /\ ctl'.mode = "go" /\ ctl.mode = "skip"
    BY <1>2, Goes DEF SkipperNone, Modes
  <2> QED
    BY <1>0, <1>2, <2>1, SameFrame
    DEF SkipperNone, SameScopes, TopOK, ControlOK, Top
<1>3. CASE SkipperReturn
  <2>1. /\ stack # <<>> /\ Top.kind = "Skipper" /\ Goto("go")
        /\ ctx' = skip_enabled(ctx, Top.prev) /\ Pop /\ Inner
    BY <1>3 DEF SkipperReturn, At
  <2>2. Top.prev \in BOOLEAN
    BY <2>1, TopOKFacts, FrameTypes
  <2>3. /\ ContextOK(ctx', n) /\ mark(ctx') = mark(ctx)
        /\ ctx'.m_lr_stack = ctx.m_lr_stack /\ ctx'.m_skip_enabled = Top.prev
    BY <1>0, <2>1, <2>2, SkipEnabledOK
  <2>4. ctl' \in Control /\ ctl'.mode = "go"
    BY <2>1, Goes DEF Modes
  <2>5. stack' = Front(stack)
    BY <2>1 DEF Pop, Front
  <2>6. StackOK(stack', ctx'.m_lr_stack)
    BY <1>0, <2>1, <2>3, <2>5, PopOK DEF SameEnds
  <2>7. ControlOK(ctl', mark(ctx'), stack')
    BY <1>0, <2>1, <2>4, <2>5, PopTop DEF ControlOK, TopOK, Top
  <2>8. FlagOK(stack', ctx'.m_skip_enabled)
    <3>1. /\ Len(Front(stack)) = Len(stack) - 1 /\ Len(stack) \in Nat
          /\ \A k \in 1..(Len(stack) - 1) : Front(stack)[k] = stack[k]
      BY <1>0, <2>1, FrontFacts, TopFacts
    <3>2. SavedFlagOK(stack, Len(stack))
      BY <1>0, <2>1, TopFacts DEF CallOK
    <3> QED
      BY <2>1, <2>3, <2>5, <3>1, <3>2
      DEF FlagOK, SavedFlagOK, Top, InnerSkipScope
  <2> QED
    BY <2>1, <2>3, <2>4, <2>6, <2>7, <2>8, Conclude DEF Inner, setup, driver
<1> QED
  BY <1>1, <1>2, <1>3 DEF SkipperStep

-----------------------------------------------------------------------------
(* An exception unwinding, and Grammar::parse.                             *)

\* A ParseError that leaves a call preserves Inv.
LEMMA UnwindInv == Inv /\ Unwind => Inv'
<1> SUFFICES ASSUME Inv, Unwind PROVE Inv'
  OBVIOUS
<1> DEFINE n == Len(input)
<1>0. /\ n \in Nat /\ ContextOK(ctx, n)
      /\ StackOK(stack, ctx.m_lr_stack) /\ Len(ctx.m_lr_stack) \in Nat
      /\ FlagOK(stack, ctx.m_skip_enabled) /\ ctl \in Control
  BY Facts
<1>1. /\ ctl.mode = "throw" /\ stack # <<>> /\ ctl' = ctl /\ Inner
      /\ stack' = Front(stack)
  BY DEF Unwind, Pop, Front
<1>2. Top.prev \in BOOLEAN
  BY <1>1, TopOKFacts, FrameTypes
<1>3. /\ ContextOK(ctx', n) /\ ctx'.m_lr_stack = ctx.m_lr_stack
      /\ \/ ctx'.m_skip_enabled = ctx.m_skip_enabled
         \/ Top.kind = "Lexeme" /\ ctx'.m_skip_enabled = Top.prev
  <2>1. CASE Top.kind \in {"Alternation", "Repetition"}
    <3>1. ctx' = remove_cut(ctx)
      BY <2>1 DEF Unwind
    <3> QED
      BY <1>0, <3>1, RemoveCutOK DEF Kept, SameScopes
  <2>2. CASE Top.kind = "Lexeme"
    <3>1. ctx' = skip_enabled(ctx, Top.prev)
      BY <2>2 DEF Unwind
    <3> QED
      BY <1>0, <1>2, <2>2, <3>1, SkipEnabledOK
  <2>3. CASE Top.kind \notin {"Alternation", "Repetition", "Lexeme"}
    <3>1. ctx' = ctx
      BY <2>3 DEF Unwind
    <3> QED
      BY <1>0, <3>1
  <2> QED
    BY <2>1, <2>2, <2>3
<1>4. StackOK(stack', ctx'.m_lr_stack)
  BY <1>0, <1>1, <1>3, PopOK DEF SameEnds
<1>5. ControlOK(ctl', mark(ctx'), stack')
  BY <1>1 DEF ControlOK, TopOK
<1>6. FlagOK(stack', ctx'.m_skip_enabled)
  <2>1. /\ Len(Front(stack)) = Len(stack) - 1 /\ Len(stack) \in Nat
        /\ \A k \in 1..(Len(stack) - 1) : Front(stack)[k] = stack[k]
    BY <1>0, <1>1, FrontFacts, TopFacts
  <2>2. SavedFlagOK(stack, Len(stack))
    BY <1>0, <1>1, TopFacts DEF CallOK
  <2>3. CASE ctx'.m_skip_enabled = ctx.m_skip_enabled
    BY <1>0, <1>1, <2>1, <2>3 DEF FlagOK
  <2>4. CASE Top.kind = "Lexeme" /\ ctx'.m_skip_enabled = Top.prev
    BY <1>1, <2>1, <2>2, <2>4 DEF FlagOK, SavedFlagOK, Top, InnerSkipScope
  <2> QED
    BY <1>3, <2>3, <2>4
<1> QED
  BY <1>0, <1>1, <1>3, <1>4, <1>5, <1>6, Conclude DEF Inner, setup, driver

\* Conclude for the steps of Grammar::parse itself, which run on an empty
\* stack.
LEMMA DriverStep ==
  ASSUME Inv, UNCHANGED setup, stack = <<>>, UNCHANGED stack,
         Kept(ctx, ctx', Len(input)), ctl' \in Control,
         ctl'.mode # "return",
         phase' \in {"none", "leading", "try"},
         outcome' \in {"none", "running", "true", "false", "exception"},
         parses' \in 0..MaxParses
  PROVE  Inv'
<1>1. input' = input /\ gram' = gram
  BY DEF setup
<1>2. Control' = Control /\ Frames' = Frames
  BY <1>1 DEF Control, Frames
<1>3. TypeOK'
  BY <1>1, <1>2 DEF Inv, TypeOK, Kept, ContextOK
<1>4. MemoOK(ctx)'
  BY DEF Kept, ContextOK, MemoOK
<1>5. StackOK(stack, ctx.m_lr_stack)' /\ FlagOK(stack, ctx.m_skip_enabled)'
  BY DEF StackOK, FlagOK
<1>6. ControlOK(ctl, mark(ctx), stack)'
  BY DEF ControlOK
<1> QED
  BY <1>3, <1>4, <1>5, <1>6 DEF Inv

\* Grammar::parse, take_error and take_diagnostics preserve Inv.
LEMMA GrammarInv == Inv /\ GrammarStep => Inv'
<1> SUFFICES ASSUME Inv, GrammarStep PROVE Inv'
  OBVIOUS
<1> DEFINE n == Len(input)
<1>0. /\ n \in Nat /\ ContextOK(ctx, n) /\ ctl \in Control
      /\ ControlOK(ctl, mark(ctx), stack) /\ GrammarOK(gram)
      /\ Kept(ctx, ctx, n)
      /\ phase \in {"none", "leading", "try"}
      /\ outcome \in {"none", "running", "true", "false", "exception"}
      /\ parses \in 0..MaxParses /\ MaxParses \in Nat
  BY Facts, MachineAssumption DEF Kept, SameScopes, Inv, TypeOK
<1>1. ctl.mode = "idle" => stack = <<>>
  BY <1>0 DEF ControlOK, TopOK
<1>2. Ref(gram.start) \in Exprs
  BY <1>0, MachineAssumption DEF GrammarOK
<1>3. CASE StartParse
  <2>1. /\ ctl.mode = "idle" /\ ctx' = internal_set_skipper(ctx, gram.skipper)
        /\ ctl' = [ctl EXCEPT !.mode = "skip", !.e = Ref(gram.start)]
        /\ phase' = "leading" /\ outcome' = "running" /\ parses' = parses + 1
        /\ parses < MaxParses /\ UNCHANGED <<setup, stack>>
    BY <1>3 DEF StartParse
  <2>2. Kept(ctx, ctx', n)
    BY <1>0, <2>1, SetSkipper DEF internal_set_skipper, GrammarOK
  <2>3. ctl' \in Control /\ ctl'.mode # "return"
    BY <1>0, <1>2, <2>1 DEF Control, Modes
  <2>4. parses' \in 0..MaxParses
    BY <1>0, <2>1
  <2> QED
    BY <1>1, <2>1, <2>2, <2>3, <2>4, DriverStep
<1>4. CASE StartRule
  <2>1. ctl' \in Control /\ ctl'.mode = "call"
    BY <1>2, <1>4, Calls DEF StartRule
  <2> QED
    BY <1>0, <1>4, <2>1, DriverStep DEF StartRule
<1>5. ASSUME NEW o \in {"true", "false", "exception"}, stack = <<>>, Finish(o)
      PROVE  Inv'
  <2>1. ctl' \in Control /\ ctl'.mode = "idle"
    BY <1>5, Goes DEF Finish, Modes
  <2> QED
    BY <1>0, <1>5, <2>1, DriverStep DEF Finish
<1>6. CASE ParseReturns \/ ParseCatches \/ ParseThrows
  BY <1>5, <1>6 DEF ParseReturns, ParseCatches, ParseThrows
<1>7. CASE TakeError
  <2>1. Kept(ctx, ctx', n)
    BY <1>0, <1>7, TakeErrorOK DEF TakeError
  <2> QED
    BY <1>0, <1>1, <1>7, <2>1, DriverStep DEF TakeError
<1>8. CASE TakeDiagnostics
  <2>1. Kept(ctx, ctx', n)
    BY <1>0, <1>8, TakeDiagnosticsOK DEF TakeDiagnostics
  <2> QED
    BY <1>0, <1>1, <1>8, <2>1, DriverStep DEF TakeDiagnostics, driver
<1> QED
  BY <1>3, <1>4, <1>6, <1>7, <1>8 DEF GrammarStep

-----------------------------------------------------------------------------
(* NonTerminal::parse.                                                     *)

\* The innermost call when it is a rule's.
LEMMA RuleTop ==
  ASSUME Inv, stack # <<>>, Top.kind = "NonTerminal"
  PROVE  /\ Top \in Frames /\ ThisRule \in Rules /\ Top.start \in 0..Len(input)
         /\ gram.body[ThisRule] \in Exprs
         /\ Top.lr \in 1..Len(ctx.m_lr_stack)
         /\ MyLR \in LRFrames(Len(input)) /\ MyLR.last_pos \in 0..Len(input)
         /\ Top.best \in Results /\ Top.rs \in RuleStates(Len(input))
         /\ ~ Top.best.success =>
              /\ Top.rs.m_last_pos = Top.start /\ MyLR.last_pos = Top.start
              /\ ctl.mode = "finish" => mark(ctx) = Top.start
<1>1. /\ Top \in Frames /\ FrameOK(Top) /\ TopOK(ctl, mark(ctx), Top)
      /\ RuleFrameOK(stack, ctx.m_lr_stack, Len(stack))
  BY TopOKFacts DEF CallOK
<1>2. /\ ExprOK(Top.e) /\ Top.start \in 0..Len(input)
      /\ Top.best \in Results /\ Top.rs \in RuleStates(Len(input))
  BY <1>1, FrameTypes
<1>3. ThisRule \in Rules
  BY <1>1, <1>2 DEF FrameOK, ExprOK, ThisRule
<1>4. gram.body[ThisRule] \in Exprs
  BY <1>3, Facts DEF GrammarOK
<1>5. Top.lr \in 1..Len(ctx.m_lr_stack)
  BY <1>1 DEF RuleFrameOK, Top
<1>6. MyLR \in LRFrames(Len(input))
  BY <1>5, Facts DEF MyLR
<1>7. MyLR.last_pos \in 0..Len(input)
  BY <1>6 DEF LRFrames
<1> QED
  BY <1>1, <1>2, <1>3, <1>4, <1>5, <1>6, <1>7
  DEF RuleFrameOK, TopOK, Top, MyLR

\* frame.last_pos = end_pos.
LEMMA LrGrowOK ==
  ASSUME NEW n \in Nat, NEW c, ContextOK(c, n), NEW p \in 0..n,
         NEW i \in 1..Len(c.m_lr_stack),
         NEW d, d = [c EXCEPT !.m_lr_stack[i].last_pos = p]
  PROVE  /\ ContextOK(d, n) /\ mark(d) = mark(c) /\ d.m_mem = c.m_mem
         /\ d.m_skip_enabled = c.m_skip_enabled
         /\ Len(d.m_lr_stack) = Len(c.m_lr_stack)
         /\ \A j \in 1..Len(c.m_lr_stack) :
              /\ j = i \/ d.m_lr_stack[j].last_pos = c.m_lr_stack[j].last_pos
              /\ d.m_lr_stack[j].rule = c.m_lr_stack[j].rule
              /\ d.m_lr_stack[j].pos = c.m_lr_stack[j].pos
<1> DEFINE f == [c.m_lr_stack[i] EXCEPT !.last_pos = p]
           l == [c.m_lr_stack EXCEPT ![i] = f]
<1>1. c.m_lr_stack \in Seq(LRFrames(n))
  BY FieldTypes DEF ContextOK
<1>2. c.m_lr_stack[i] \in LRFrames(n)
  BY <1>1
<1>3. /\ f \in LRFrames(n)
      /\ f.rule = c.m_lr_stack[i].rule /\ f.pos = c.m_lr_stack[i].pos
  BY <1>2 DEF LRFrames
<1>4. [c EXCEPT !.m_lr_stack[i].last_pos = p] = [c EXCEPT !.m_lr_stack = l]
  OBVIOUS
<1> HIDE DEF f
<1>5. /\ l \in Seq(LRFrames(n)) /\ Len(l) = Len(c.m_lr_stack)
      /\ \A j \in 1..Len(c.m_lr_stack) : j = i \/ l[j] = c.m_lr_stack[j]
  BY <1>1, <1>3
<1> HIDE DEF l
<1> QED
  BY <1>3, <1>4, <1>5, SetLR

\* lr_pop and clear_growing_head.
LEMMA LeaveOK ==
  ASSUME Inv, stack # <<>>, Top.kind = "NonTerminal"
  PROVE  LET d == LeaveRule(ctx)
         IN  /\ ContextOK(d, Len(input)) /\ mark(d) = mark(ctx)
             /\ d.m_skip_enabled = ctx.m_skip_enabled
             /\ Len(d.m_lr_stack) = Top.lr - 1
             /\ \A j \in 1..Len(d.m_lr_stack) :
                  d.m_lr_stack[j].last_pos = ctx.m_lr_stack[j].last_pos
<1> DEFINE c == lr_pop(ctx, Top.lr)
<1>1. /\ Len(input) \in Nat /\ ContextOK(ctx, Len(input))
      /\ Top.lr \in 1..Len(ctx.m_lr_stack)
  BY Facts, RuleTop
<1>2. /\ ContextOK(c, Len(input)) /\ mark(c) = mark(ctx)
      /\ c.m_skip_enabled = ctx.m_skip_enabled
      /\ Len(c.m_lr_stack) = Top.lr - 1
      /\ \A j \in 1..(Top.lr - 1) : c.m_lr_stack[j] = ctx.m_lr_stack[j]
  BY SMTT(60), <1>1, LrPopOK
<1>3. LeaveRule(ctx) = IF MyLR.is_head THEN clear_growing_head(c, Top.start)
                       ELSE c
  BY DEF LeaveRule
<1> HIDE DEF c
<1>4. Kept(c, clear_growing_head(c, Top.start), Len(input))
  BY <1>1, <1>2, ClearGrowingOK
<1> QED
  BY <1>2, <1>3, <1>4 DEF Kept, SameScopes

\* The item a failing rule reports is an expected item.
LEMMA RuleItemOK ==
  ASSUME Inv, stack # <<>>, Top.kind = "NonTerminal"
  PROVE  RuleItem(ThisRule) \in ExpectedItems
BY RuleTop, RuleAssumption DEF RuleItem, ExpectedItems

\* The node a matched rule hands on.
LEMMA RuleNodeOK ==
  ASSUME Inv, stack # <<>>, Top.kind = "NonTerminal",
         NEW c, ContextOK(c, Len(input)), NEW body \in Nodes(Len(input)),
         NEW tree \in Nat
  PROVE  RuleNode(c, body, tree) \in Nodes(Len(input))
<1> DEFINE n == Len(input)
           kids == IF tree = nullptr THEN <<>> ELSE <<tree>>
           e == EmptyNode(Top.start, mark(c))
<1>1. /\ n \in Nat /\ ThisRule \in Rules /\ Top.start \in 0..n
  BY Facts, RuleTop
<1>2. mark(c) \in 0..n
  BY <1>1, FieldTypes DEF ContextOK, mark
<1>3. e \in Nodes(n)
  BY <1>1, <1>2, EmptyNodeOK
<1>4. kids \in Seq(Nat)
  OBVIOUS
<1> HIDE DEF e, kids, n
<1>5. CASE ThisRule \in gram.folds
  <2>1. [e EXCEPT !.name = ThisRule, !.producer = ThisRule, !.children = kids]
          \in Nodes(n)
    BY <1>1, <1>3, <1>4 DEF Nodes
  <2> QED
    BY <1>5, <2>1 DEF RuleNode, e, kids, n
<1>6. CASE ThisRule \notin gram.folds
  <2> DEFINE pr == IF body.producer = NoRule THEN ThisRule ELSE body.producer
  <2>1. body \in Nodes(n)
    BY DEF n
  <2>2. pr \in Rules \cup {NoRule}
    BY <1>1, <2>1 DEF Nodes
  <2> HIDE DEF pr
  <2>3. [body EXCEPT !.name = ThisRule, !.producer = pr,
                     !.start_offset = Top.start, !.end_offset = mark(c)]
          \in Nodes(n)
    BY <1>1, <1>2, <2>1, <2>2 DEF Nodes
  <2> QED
    BY <1>6, <2>3 DEF RuleNode, pr, n
<1> QED
  BY <1>5, <1>6

\* The innermost rule call returns after LeaveRule.
LEMMA RuleReturns ==
  ASSUME Inv, stack # <<>>, Top.kind = "NonTerminal", NEW r \in Results,
         Return(r, Top.start), Pop, Inner,
         ContextOK(ctx', Len(input)), SameScopes(LeaveRule(ctx), ctx'),
         r.success \/ mark(ctx') = Top.start
  PROVE  Inv'
<1>1. /\ ctx'.m_skip_enabled = ctx.m_skip_enabled
      /\ Len(ctx'.m_lr_stack) = Top.lr - 1
      /\ \A j \in 1..Len(ctx'.m_lr_stack) :
           ctx'.m_lr_stack[j].last_pos = ctx.m_lr_stack[j].last_pos
  BY LeaveOK DEF SameScopes
<1>2. Len(ctx'.m_lr_stack) \in Nat
  BY <1>1, RuleTop
<1> QED
  BY <1>1, <1>2, CloseFrame

\* NonTerminal::parse preserves Inv.
LEMMA NonTerminalInv == Inv /\ NonTerminalStep => Inv'
<1> SUFFICES ASSUME Inv, NonTerminalStep PROVE Inv'
  OBVIOUS
<1> DEFINE n == Len(input)
           l == ctx.m_lr_stack
<1>0. /\ n \in Nat /\ ContextOK(ctx, n) /\ mark(ctx) \in 0..n
      /\ ExprOK(ctl.e) /\ ctl.e \in Exprs /\ ctl.res \in Results
      /\ GrammarOK(gram) /\ StackOK(stack, l) /\ Len(l) \in Nat
      /\ l \in Seq(LRFrames(n)) /\ stack \in Seq(Frames)
      /\ ControlOK(ctl, mark(ctx), stack) /\ FlagOK(stack, ctx.m_skip_enabled)
      /\ Absent \notin RuleStates(n) /\ ctx.m_skip_enabled \in BOOLEAN
  BY Facts DEF StackOK
<1>1. ASSUME Calling("NonTerminal"), HasMemo(ctx, ctl.e.rule, mark(ctx))
      PROVE  LET memo == memo_get(ctx, ctl.e.rule, mark(ctx))
             IN  /\ memo.m_last_pos \in 0..n /\ memo.m_cached_result \in Results
                 /\ memo.m_cached_result.success \/ memo.m_last_pos = mark(ctx)
  <2>1. ctl.e.rule \in Rules
    BY <1>0, <1>1 DEF Calling, ExprOK
  <2>2. /\ memo_get(ctx, ctl.e.rule, mark(ctx)) \in RuleStates(n)
        /\ memo_get(ctx, ctl.e.rule, mark(ctx)).m_cached_result.success
             \/ memo_get(ctx, ctl.e.rule, mark(ctx)).m_last_pos = mark(ctx)
    BY <1>0, <1>1, <2>1, MemoGetOK
  <2> QED
    BY <2>2 DEF RuleStates
<1>2. CASE NonTerminalReenter
  <2> DEFINE seed == memo_get(ctx, ctl.e.rule, mark(ctx))
             c == mark_head(ctx, ctl.e.rule, mark(ctx))
  <2>1. /\ Calling("NonTerminal") /\ HasMemo(ctx, ctl.e.rule, mark(ctx))
        /\ ctx' = reset(c, seed.m_last_pos)
        /\ Return(seed.m_cached_result, mark(ctx)) /\ UNCHANGED stack /\ Inner
    BY <1>2 DEF NonTerminalReenter
  <2>2. ctl.e.rule \in Rules /\ ctl.mode = "call"
    BY <1>0, <2>1 DEF Calling, ExprOK
  <2>3. /\ ContextOK(c, n) /\ c.m_skip_enabled = ctx.m_skip_enabled
        /\ Len(c.m_lr_stack) = Len(l)
        /\ \A j \in 1..Len(l) : c.m_lr_stack[j].last_pos = l[j].last_pos
    BY <1>0, <2>2, MarkHeadOK
  <2>4. /\ seed.m_last_pos \in 0..n /\ seed.m_cached_result \in Results
        /\ seed.m_cached_result.success \/ seed.m_last_pos = mark(ctx)
    BY <1>1, <2>1
  <2> HIDE DEF seed, c
  <2>5. /\ ContextOK(ctx', n) /\ SameScopes(c, ctx')
        /\ mark(ctx') = seed.m_last_pos
    BY <1>0, <2>1, <2>3, <2>4, ResetOK
  <2>6. SameEnds(l, ctx'.m_lr_stack) /\ Len(ctx'.m_lr_stack) \in Nat
    BY <1>0, <2>3, <2>5 DEF SameEnds, SameScopes
  <2> QED
    BY <2>1, <2>2, <2>3, <2>4, <2>5, <2>6, ReturnAtOnce DEF SameScopes, Inner
<1>3. CASE NonTerminalMemoHit
  <2> DEFINE memo == memo_get(ctx, ctl.e.rule, mark(ctx))
  <2>1. /\ Calling("NonTerminal") /\ HasMemo(ctx, ctl.e.rule, mark(ctx))
        /\ ctx' = reset(ctx, memo.m_last_pos) /\ ctl.mode = "call"
        /\ Return(memo.m_cached_result, mark(ctx)) /\ UNCHANGED stack /\ Inner
    BY <1>3 DEF NonTerminalMemoHit, Calling
  <2>2. /\ memo.m_last_pos \in 0..n /\ memo.m_cached_result \in Results
        /\ memo.m_cached_result.success \/ memo.m_last_pos = mark(ctx)
    BY <1>1, <2>1
  <2> HIDE DEF memo
  <2>3. /\ ContextOK(ctx', n) /\ SameScopes(ctx, ctx')
        /\ mark(ctx') = memo.m_last_pos
    BY <1>0, <2>1, <2>2, ResetOK
  <2> QED
    BY <2>1, <2>2, <2>3, SameEndsRefl, ReturnAtOnce DEF SameScopes, Inner
<1>4. CASE NonTerminalEnter
  <2> DEFINE r == ctl.e.rule
             p == mark(ctx)
             g == NewFrame("NonTerminal", ctl.e)
             f == [g EXCEPT !.lr = Len(l) + 1]
             x == [rule |-> r, pos |-> p, last_pos |-> p, is_head |-> FALSE]
  <2>1. /\ Calling("NonTerminal") /\ Push(f) /\ Call(gram.body[r]) /\ Inner
        /\ ctx' = update_rule_state(lr_push(rule_state(ctx, r, p), x), r, p, f.rs)
    BY <1>4 DEF NonTerminalEnter
  <2>2. r \in Rules /\ ctl.mode = "call" /\ ctl.e.op = "NonTerminal"
    BY <1>0, <2>1 DEF Calling, ExprOK
  <2>3. /\ g \in Frames /\ g.kind = "NonTerminal" /\ g.e = ctl.e
        /\ g.start = p /\ g.prev = ctx.m_skip_enabled
        /\ g.rs.m_last_pos = p
    BY SMTT(60), <1>0, NewFrameOK DEF FrameKinds
  <2> HIDE DEF g
  <2>4. /\ f \in Frames /\ f.kind = "NonTerminal" /\ f.e = ctl.e
        /\ f.start = p /\ f.prev = ctx.m_skip_enabled /\ f.lr = Len(l) + 1
        /\ f.rs.m_last_pos = p
    <3> DEFINE i == Len(l) + 1
    <3>1. i \in Nat
      BY <1>0
    <3>2. f = [g EXCEPT !.lr = i]
      OBVIOUS
    <3> HIDE DEF i, f
    <3>3. /\ f \in Frames /\ f.kind = g.kind /\ f.e = g.e /\ f.start = g.start
          /\ f.prev = g.prev /\ f.lr = i /\ f.rs = g.rs
      BY <2>3, <3>1, <3>2 DEF Frames
    <3> QED
      BY <2>3, <3>3 DEF i
  <2>5. x \in LRFrames(n) /\ x.last_pos = p
    BY <1>0, <2>2 DEF LRFrames
  <2>6. f.rs \in RuleStates(n)
    BY <2>4, FrameTypes
  <2> HIDE DEF f, x
  <2>7. /\ ContextOK(ctx', n) /\ mark(ctx') = p
        /\ ctx'.m_lr_stack = Append(l, x)
        /\ ctx'.m_skip_enabled = ctx.m_skip_enabled
    BY <1>0, <2>1, <2>2, <2>4, <2>5, <2>6, SeedOK
  <2>8. /\ Len(ctx'.m_lr_stack) = Len(l) + 1
        /\ \A j \in 1..Len(l) : ctx'.m_lr_stack[j] = l[j]
        /\ ctx'.m_lr_stack[Len(l) + 1] = x
    BY <1>0, <2>5, <2>7
  <2>9. StackOK(stack, ctx'.m_lr_stack)
    BY <1>0, <2>8, LrChange DEF SameEnds
  <2>10. \A j \in 1..Len(stack) : stack[j].kind = "NonTerminal" => stack[j].lr < f.lr
    <3> TAKE j \in 1..Len(stack)
    <3>1. RuleFrameOK(stack, l, j)
      BY <1>0 DEF StackOK, CallOK
    <3> QED
      BY <1>0, <2>4, <3>1 DEF RuleFrameOK
  <2>11. stack # <<>> /\ stack[Len(stack)].kind \in Transparent =>
           f.start = stack[Len(stack)].start
    BY <1>0, <2>2, <2>4 DEF ControlOK, TopOK
  <2>12. StackOK(stack', ctx'.m_lr_stack)
    <3>1. FrameOK(f)
      BY <2>2, <2>4 DEF FrameOK, ListOps
    <3>2. f.lr \in 1..Len(ctx'.m_lr_stack)
      BY <1>0, <2>4, <2>8
    <3>3. f.rs.m_last_pos = f.start /\ ctx'.m_lr_stack[f.lr].last_pos = f.start
      BY <2>4, <2>5, <2>8
    <3>4. FlagOK(stack, f.prev)
      BY <1>0, <2>4
    <3>5. f.kind # "Skipper"
      BY <2>4
    <3> QED
      BY <2>1, <2>4, <2>9, <2>10, <2>11, <3>1, <3>2, <3>3, <3>4, <3>5, PushOK
      DEF Push
  <2>13. gram.body[r] \in Exprs
    BY <1>0, <2>2 DEF GrammarOK
  <2>14. ctl' \in Control /\ ctl'.mode = "call"
    BY <2>1, <2>13, Calls
  <2>15. /\ Len(stack') = Len(stack) + 1 /\ Len(stack) \in Nat
         /\ \A k \in 1..Len(stack) : stack'[k] = stack[k]
         /\ stack'[Len(stack')] = f
    BY <1>0, <2>1, <2>4 DEF Push
  <2>16. ControlOK(ctl', mark(ctx'), stack')
    BY <2>4, <2>14, <2>15 DEF ControlOK, TopOK, Transparent
  <2>17. FlagOK(stack', ctx'.m_skip_enabled)
    BY <1>0, <2>4, <2>7, <2>15 DEF FlagOK, InnerSkipScope
  <2> QED
    BY <2>1, <2>7, <2>12, <2>14, <2>16, <2>17, Conclude DEF Inner, setup, driver
<1>5. CASE NonTerminalGrow
  <2> DEFINE rs == [m_last_pos |-> mark(ctx), m_cached_result |-> ctl.res]
             f == [Top EXCEPT !.best = ctl.res, !.rs = rs]
             d == [ctx EXCEPT !.m_lr_stack[Top.lr].last_pos = mark(ctx)]
             c == update_rule_state(d, ThisRule, Top.start, rs)
             b == IF MyLR.is_head THEN clear_siblings_at(c, Top.start, ThisRule)
                  ELSE c
  <2>1. /\ stack # <<>> /\ Top.kind = "NonTerminal" /\ ctl.res.success
        /\ SetTop(f) /\ Inner
        /\ IF HasMemo(ctx, ThisRule, Top.start)
           THEN ctx' = reset(b, Top.start) /\ Call(gram.body[ThisRule])
           ELSE ctx' = reset(c, mark(ctx)) /\ Goto("finish")
    BY <1>0, <1>5 DEF NonTerminalGrow, ReturnedTo, At, Results
  <2>2. /\ Top \in Frames /\ ThisRule \in Rules /\ Top.start \in 0..n
        /\ gram.body[ThisRule] \in Exprs /\ Top.lr \in 1..Len(l)
    BY <2>1, RuleTop
  <2>3. rs \in RuleStates(n) /\ rs.m_cached_result.success
    BY <1>0, <2>1 DEF RuleStates
  <2> HIDE DEF rs
  <2>4. /\ f \in Frames /\ f.kind = Top.kind /\ f.e = Top.e /\ f.lr = Top.lr
        /\ f.start = Top.start /\ f.prev = Top.prev /\ f.best = ctl.res
    BY <1>0, <2>2, <2>3 DEF Frames
  <2>5. /\ ContextOK(d, n) /\ d.m_skip_enabled = ctx.m_skip_enabled
        /\ Len(d.m_lr_stack) = Len(l)
        /\ \A j \in 1..Len(l) :
             j = Top.lr \/ d.m_lr_stack[j].last_pos = l[j].last_pos
    <3> DEFINE i == Top.lr
               p == mark(ctx)
    <3>1. d = [ctx EXCEPT !.m_lr_stack[i].last_pos = p]
      OBVIOUS
    <3>2. i \in 1..Len(ctx.m_lr_stack) /\ p \in 0..n
      BY <1>0, <2>2
    <3> HIDE DEF i, p, d, n
    <3>3. /\ ContextOK(d, n) /\ d.m_skip_enabled = ctx.m_skip_enabled
          /\ Len(d.m_lr_stack) = Len(ctx.m_lr_stack)
          /\ \A j \in 1..Len(ctx.m_lr_stack) :
               j = i \/ d.m_lr_stack[j].last_pos = ctx.m_lr_stack[j].last_pos
      BY SMTT(60), <1>0, <3>1, <3>2, LrGrowOK
    <3> QED
      BY <3>3 DEF i
  <2> HIDE DEF f, d
  <2>6. Kept(d, c, n)
    BY <1>0, <2>2, <2>3, <2>5, UpdateOK
  <2> HIDE DEF c
  <2>7. Kept(c, b, n)
    BY <1>0, <2>6, ClearSiblingsOK DEF Kept, SameScopes
  <2> HIDE DEF b
  <2>8. /\ ContextOK(ctx', n) /\ SameScopes(d, ctx') /\ ctl' \in Control
        /\ \/ ctl'.mode = "call"
           \/ ctl'.mode = "finish"
    <3>1. CASE HasMemo(ctx, ThisRule, Top.start)
      <4>1. ctx' = reset(b, Top.start) /\ Call(gram.body[ThisRule])
        BY <2>1, <3>1
      <4>2. ContextOK(ctx', n) /\ SameScopes(b, ctx')
        BY <1>0, <2>2, <2>7, <4>1, ResetOK DEF Kept
      <4>3. ctl' \in Control /\ ctl'.mode = "call"
        BY <2>2, <4>1, Calls
      <4> QED
        BY <2>6, <2>7, <4>2, <4>3 DEF Kept, SameScopes
    <3>2. CASE ~ HasMemo(ctx, ThisRule, Top.start)
      <4>1. ctx' = reset(c, mark(ctx)) /\ Goto("finish")
        BY <2>1, <3>2
      <4>2. ContextOK(ctx', n) /\ SameScopes(c, ctx')
        BY <1>0, <2>6, <4>1, ResetOK DEF Kept
      <4>3. ctl' \in Control /\ ctl'.mode = "finish"
        BY <4>1, Goes DEF Modes
      <4> QED
        BY <2>6, <4>2, <4>3 DEF Kept, SameScopes
    <3> QED
      BY <3>1, <3>2
  <2>9. TopOK(ctl', mark(ctx'), f)
    BY <2>1, <2>4, <2>8 DEF TopOK, Transparent
  <2>10. f.kind \notin ListOps /\ f.best.success
    BY <2>1, <2>4 DEF ListOps
  <2> QED
    BY <2>1, <2>4, <2>5, <2>8, <2>9, <2>10, KeepFrame DEF SameScopes
<1>6. CASE NonTerminalFixedPoint
  <2> DEFINE best == IF Top.best.success THEN Top.best ELSE ctl.res
             rs == [m_last_pos |-> MyLR.last_pos, m_cached_result |-> best]
             f == [Top EXCEPT !.best = best, !.rs = rs]
             c == update_rule_state(ctx, ThisRule, Top.start, rs)
  <2>1. /\ stack # <<>> /\ Top.kind = "NonTerminal" /\ ctl.res.success
        /\ SetTop(f) /\ Inner /\ Goto("finish")
        /\ ctx' = reset(c, MyLR.last_pos)
    BY <1>0, <1>6 DEF NonTerminalFixedPoint, ReturnedTo, At, Results
  <2>2. /\ Top \in Frames /\ ThisRule \in Rules /\ Top.start \in 0..n
        /\ MyLR.last_pos \in 0..n /\ Top.best \in Results
    BY <2>1, RuleTop
  <2>3. best \in Results /\ best.success
    BY <1>0, <2>1, <2>2
  <2> HIDE DEF best
  <2>4. rs \in RuleStates(n) /\ rs.m_cached_result.success
    BY <2>2, <2>3 DEF RuleStates
  <2> HIDE DEF rs
  <2>5. /\ f \in Frames /\ f.kind = Top.kind /\ f.e = Top.e /\ f.lr = Top.lr
        /\ f.start = Top.start /\ f.prev = Top.prev /\ f.best = best
    BY <2>2, <2>3, <2>4 DEF Frames
  <2> HIDE DEF f
  <2>6. Kept(ctx, c, n)
    BY <1>0, <2>2, <2>4, UpdateOK
  <2> HIDE DEF c
  <2>7. ContextOK(ctx', n) /\ SameScopes(ctx, ctx')
    BY <1>0, <2>1, <2>2, <2>6, ResetOK DEF Kept, SameScopes
  <2>8. ctl' \in Control /\ ctl'.mode = "finish"
    BY <2>1, Goes DEF Modes
  <2>9. TopOK(ctl', mark(ctx'), f)
    BY <2>3, <2>5, <2>8 DEF TopOK
  <2>10. f.kind \notin ListOps /\ f.best.success
    BY <2>1, <2>3, <2>5 DEF ListOps
  <2> QED
    BY <2>1, <2>5, <2>7, <2>8, <2>9, <2>10, KeepFrame DEF SameScopes
<1>7. CASE NonTerminalBodyFailed
  <2>1. /\ stack # <<>> /\ Top.kind = "NonTerminal"
        /\ ctx' = reset(ctx, MyLR.last_pos)
        /\ UNCHANGED stack /\ Inner /\ Goto("finish")
    BY <1>7 DEF NonTerminalBodyFailed, ReturnedTo, At
  <2>2. /\ MyLR.last_pos \in 0..n
        /\ ~ Top.best.success => MyLR.last_pos = Top.start
    BY <2>1, RuleTop
  <2>3. /\ ContextOK(ctx', n) /\ SameScopes(ctx, ctx')
        /\ mark(ctx') = MyLR.last_pos
    BY <1>0, <2>1, <2>2, ResetOK
  <2>4. ctl' \in Control /\ ctl'.mode = "finish"
    BY <2>1, Goes DEF Modes
  <2>5. TopOK(ctl', mark(ctx'), Top)
    BY <2>2, <2>3, <2>4 DEF TopOK
  <2> QED
    BY <2>1, <2>3, <2>4, <2>5, SameFrame
<1>8. CASE NonTerminalFailed
  <2> DEFINE d == LeaveRule(ctx)
             c == record_failure(d, Top.start, RuleItem(ThisRule))
             rs == [Top.rs EXCEPT !.m_cached_result = Failed]
  <2>1. /\ stack # <<>> /\ Top.kind = "NonTerminal" /\ ~ Top.best.success
        /\ ctl.mode = "finish"
        /\ ctx' = update_rule_state(c, ThisRule, Top.start, rs)
        /\ Return(Failed, Top.start) /\ Pop /\ Inner
    BY <1>8 DEF NonTerminalFailed, Finishing, At
  <2>2. /\ ThisRule \in Rules /\ Top.start \in 0..n /\ Top.rs \in RuleStates(n)
        /\ Top.rs.m_last_pos = Top.start /\ mark(ctx) = Top.start
    BY <2>1, RuleTop
  <2>3. ContextOK(d, n) /\ mark(d) = mark(ctx)
    BY <2>1, LeaveOK
  <2>4. RuleItem(ThisRule) \in ExpectedItems
    BY <2>1, RuleItemOK
  <2>5. rs \in RuleStates(n) /\ rs.m_last_pos = Top.start
    BY <2>2, ResultTypes DEF RuleStates
  <2> HIDE DEF d, rs
  <2>6. Kept(d, c, n)
    BY <1>0, <2>2, <2>3, <2>4, RecordFailureOK
  <2> HIDE DEF c
  <2>7. Kept(c, ctx', n)
    BY <1>0, <2>1, <2>2, <2>5, <2>6, UpdateOK DEF Kept
  <2>8. ContextOK(ctx', n) /\ SameScopes(d, ctx') /\ mark(ctx') = Top.start
    BY <2>2, <2>3, <2>6, <2>7 DEF Kept, SameScopes
  <2> QED
    BY <2>1, <2>8, RuleReturns, ResultTypes DEF d
<1>9. CASE NonTerminalRecovered
  <2> DEFINE d == LeaveRule(ctx)
             c == record_failure(d, Top.start, RuleItem(ThisRule))
             x == [pos |-> Top.start, rule |-> ThisRule]
  <2>1. /\ stack # <<>> /\ Top.kind = "NonTerminal"
        /\ Return(Matched(nullptr), Top.start) /\ Pop /\ Inner
    BY <1>9 DEF NonTerminalRecovered, Finishing, At
  <2>2. PICK scan \in Top.start..n :
          ctx' = update_rule_state(
                   record_diagnostic(reset(c, ResumeAt(scan)), x),
                   ThisRule, Top.start,
                   [m_last_pos |-> ResumeAt(scan),
                    m_cached_result |-> Matched(nullptr)])
    BY <1>9 DEF NonTerminalRecovered
  <2>3. ThisRule \in Rules /\ Top.start \in 0..n
    BY <2>1, RuleTop
  <2> DEFINE p == ResumeAt(scan)
             h == reset(c, p)
             k == record_diagnostic(h, x)
             rs == [m_last_pos |-> p, m_cached_result |-> Matched(nullptr)]
  <2>4. p \in 0..n
    BY <1>0, <2>3 DEF ResumeAt
  <2>5. ctx' = update_rule_state(k, ThisRule, Top.start, rs)
    BY <2>2
  <2> HIDE DEF p
  <2>6. rs \in RuleStates(n) /\ rs.m_cached_result.success
    BY <2>4, ResultTypes DEF RuleStates
  <2>7. x \in Diagnostics(n)
    BY <2>3 DEF Diagnostics
  <2> HIDE DEF d, rs, x
  <2>8. ContextOK(d, n)
    BY <2>1, LeaveOK DEF d
  <2>9. Kept(d, c, n)
    BY <1>0, <2>1, <2>3, <2>8, RuleItemOK, RecordFailureOK
  <2> HIDE DEF c
  <2>10. ContextOK(h, n) /\ SameScopes(c, h)
    BY <1>0, <2>4, <2>9, ResetOK DEF Kept
  <2> HIDE DEF h
  <2>11. Kept(h, k, n)
    BY <1>0, <2>7, <2>10, RecordDiagnosticOK
  <2> HIDE DEF k
  <2>12. Kept(k, ctx', n)
    BY <1>0, <2>3, <2>5, <2>6, <2>11, UpdateOK DEF Kept
  <2>13. ContextOK(ctx', n) /\ SameScopes(d, ctx')
    BY <2>9, <2>10, <2>11, <2>12 DEF Kept, SameScopes
  <2> QED
    BY <2>1, <2>13, RuleReturns, ResultTypes DEF d
<1>10. CASE NonTerminalMatched
  <2> DEFINE c == LeaveRule(ctx)
             tree == Top.best.tree
             fresh == ThisRule \in gram.folds \/ tree = nullptr
             body == IF fresh THEN EmptyNode(Top.start, mark(c))
                     ELSE NodeAt(c, tree)
             node == RuleNode(c, body, tree)
             t == IF fresh THEN NextNode(c) ELSE tree
             d == IF fresh THEN make_node(c, node) ELSE edit_node(c, t, node)
             rs == [Top.rs EXCEPT !.m_cached_result = Matched(t)]
  <2>1. /\ stack # <<>> /\ Top.kind = "NonTerminal"
        /\ ctx' = update_rule_state(d, ThisRule, Top.start, rs)
        /\ Return(Matched(t), Top.start) /\ Pop /\ Inner
    BY <1>10 DEF NonTerminalMatched, Finishing, At
  <2>2. /\ ThisRule \in Rules /\ Top.start \in 0..n /\ Top.rs \in RuleStates(n)
        /\ Top.best \in Results
    BY <2>1, RuleTop
  <2>3. tree \in Nat
    BY <2>2 DEF Results
  <2>4. ContextOK(c, n) /\ mark(c) = mark(ctx)
    BY <2>1, LeaveOK
  <2> HIDE DEF c, tree
  <2>5. t \in Nat
    BY <1>0, <2>3, <2>4, NextNodeNat
  <2>6. body \in Nodes(n)
    BY <1>0, <2>2, <2>4, EmptyNodeOK, NodeAtOK
  <2> HIDE DEF t, body
  <2>7. node \in Nodes(n)
    BY <2>1, <2>3, <2>4, <2>6, RuleNodeOK
  <2> HIDE DEF node
  <2>8. Kept(c, d, n)
    BY <1>0, <2>4, <2>7, MakeNodeOK, EditNodeOK
  <2>9. rs \in RuleStates(n) /\ rs.m_cached_result.success
    BY <2>2, <2>5, ResultTypes DEF RuleStates
  <2> HIDE DEF d, rs
  <2>10. Kept(d, ctx', n)
    BY <1>0, <2>1, <2>2, <2>8, <2>9, UpdateOK DEF Kept
  <2>11. ContextOK(ctx', n) /\ SameScopes(c, ctx')
    BY <2>8, <2>10 DEF Kept, SameScopes
  <2> QED
    BY <2>1, <2>5, <2>11, RuleReturns, ResultTypes DEF c
<1> QED
  BY <1>2, <1>3, <1>4, <1>5, <1>6, <1>7, <1>8, <1>9, <1>10 DEF NonTerminalStep

-----------------------------------------------------------------------------
(* Theorems.                                                               *)

\* A Context just constructed satisfies Inv.
LEMMA InitInv == Init => Inv
<1> SUFFICES ASSUME Init PROVE Inv
  OBVIOUS
<1> DEFINE n == Len(input)
<1>1. /\ input \in Seq(Chars) /\ input \in Inputs /\ gram \in Grammars
      /\ GrammarOK(gram) /\ MaxParses \in Nat
  BY MachineAssumption DEF Init
<1>2. n \in Nat
  BY <1>1
<1>3. ctx = NewContext(n) /\ stack = <<>>
  BY DEF Init
<1>4. ctx \in Contexts(n)
  <2>1. /\ <<>> \in Seq(CutRecords(n)) /\ <<>> \in Seq(LRFrames(n))
        /\ <<>> \in Seq(Diagnostics(n)) /\ <<>> \in Seq(Nodes(n))
    OBVIOUS
  <2>2. /\ [k \in (0..n) \X Rules |-> Absent]
             \in [(0..n) \X Rules -> RuleStates(n) \cup {Absent}]
        /\ [p \in 0..n |-> NoRule] \in [0..n -> Rules \cup {NoRule}]
    OBVIOUS
  <2> QED
    BY <1>2, <1>3, <2>1, <2>2 DEF NewContext, Contexts
<1>5. MemoOK(ctx)
  BY <1>3 DEF NewContext, MemoOK
<1>6. ctl \in Control
  <2>1. Ref(gram.start) \in Exprs
    BY <1>1, MachineAssumption DEF GrammarOK
  <2> QED
    BY <1>2, <2>1, ResultTypes DEF Init, Control, Modes
<1>7. TypeOK
  BY <1>1, <1>3, <1>4, <1>6 DEF Init, TypeOK
<1>8. StackOK(stack, ctx.m_lr_stack) /\ FlagOK(stack, ctx.m_skip_enabled)
  BY <1>3 DEF StackOK, FlagOK
<1>9. ControlOK(ctl, mark(ctx), stack)
  BY <1>3 DEF Init, ControlOK
<1> QED
  BY <1>5, <1>7, <1>8, <1>9 DEF Inv

\* Every step of a parse preserves Inv.
LEMMA NextInv == Inv /\ [Next]_vars => Inv'
<1> SUFFICES ASSUME Inv, [Next]_vars PROVE Inv'
  OBVIOUS
<1>1. CASE Step
  BY <1>1, LeafInv, SequenceInv, AlternationInv, RepetitionInv, WrapperInv,
     SkipperInv, NonTerminalInv, UnwindInv, GrammarInv DEF Step
<1>2. CASE UNCHANGED vars
  <2>1. UNCHANGED setup /\ UNCHANGED driver /\ ctx' = ctx /\ ctl' = ctl
        /\ stack' = stack
    BY <1>2 DEF vars, setup, driver
  <2> QED
    BY <2>1, Facts, Conclude
<1> QED
  BY <1>1, <1>2 DEF Next, Terminated

\* Every cursor, memoised end, saved position, node offset and rule index of
\* the engine stays in range, for every grammar and input: what the asserts
\* of Context::reset, current and at rely on.
THEOREM TypeCorrect == Spec => []TypeOK
<1>1. Inv => TypeOK
  BY DEF Inv
<1> QED
  BY InitInv, NextInv, <1>1, PTL DEF Spec

\* A failing parse() leaves the cursor where it was called, for every grammar,
\* through memo hits, left recursion, cuts, recovery and skipping.
THEOREM FailureRestores == Spec => []FailRestoresPosition
<1>1. Inv => FailRestoresPosition
  BY DEF Inv, ControlOK, FailRestoresPosition
<1> QED
  BY InitInv, NextInv, <1>1, PTL DEF Spec

\* Auto-skip is off inside every lexeme and inside the skipper, for every
\* grammar, also after exceptions.
THEOREM LexemesNeverSkip == Spec => []NoSkipInsideLexeme
<1>1. Inv => NoSkipInsideLexeme
  BY DEF Inv, FlagOK, NoSkipInsideLexeme
<1> QED
  BY InitInv, NextInv, <1>1, PTL DEF Spec
=============================================================================
