----------------------------- MODULE PegContext -----------------------------
(***************************************************************************)
(* peg::Context, the mutable state every parsing expression shares         *)
(* (include/peglib/Context.h).                                             *)
(*                                                                         *)
(* A Context is one record, its fields named after the members of the      *)
(* class; each method that changes it is an operator from a Context to a   *)
(* Context.  The cursor, the packrat memo, the cut stack, the left         *)
(* recursion stack, the error tracker, the diagnostics, the auto-skip flag *)
(* and the node arena are kept; the input source is only a size here (the  *)
(* characters are the machine's, see PegMachine).                          *)
(*                                                                         *)
(* Pointers into the arena are indices, 0 is nullptr.  The two-level       *)
(* memo is one function on (position, rule), Absent where the C++ maps     *)
(* hold no entry.                                                          *)
(***************************************************************************)
EXTENDS Integers, Sequences

CONSTANTS
  Rules,      \* the NonTerminal objects of a grammar
  NoRule,     \* a null NonTerminal pointer
  Absent,     \* "no memo entry"
  ItemTexts   \* display texts of expected items

ASSUME RuleAssumption ==
  /\ NoRule \notin Rules
  /\ \A r \in Rules : r \in ItemTexts

nullptr == 0

-----------------------------------------------------------------------------
(* The types of the class, over an input of n elements.                    *)

Results == [success : BOOLEAN, tree : Nat]

Failed == [success |-> FALSE, tree |-> nullptr]
Matched(t) == [success |-> TRUE, tree |-> t]

RuleStates(n) == [m_last_pos : 0..n, m_cached_result : Results]

LRFrames(n) == [rule : Rules, pos : 0..n, last_pos : 0..n, is_head : BOOLEAN]

CutRecords(n) == [pos : 0..n, cut : BOOLEAN]

\* "Literal" also stands for the Range items of set and range terminals.
ExpectedItems ==
  [kind : {"Literal", "RuleName", "RuleLabel"}, text : ItemTexts]

Diagnostics(n) == [pos : 0..n, rule : Rules]

\* alt_winner counts from 0; -1 stands for SIZE_MAX, "not an alternation winner".
Nodes(n) ==
  [name : Rules \cup {NoRule}, start_offset : 0..n, end_offset : 0..n,
   children : Seq(Nat), producer : Rules \cup {NoRule}, alt_winner : Int]

Contexts(n) ==
  [m_position : 0..n,
   m_input_size : {n},
   m_last_cut : 0..n,
   m_mem : [(0..n) \X Rules -> RuleStates(n) \cup {Absent}],
   m_cut : Seq(CutRecords(n)),
   m_lr_stack : Seq(LRFrames(n)),
   m_growing_head : [0..n -> Rules \cup {NoRule}],
   m_furthest_failure_pos : 0..n,
   m_expected : SUBSET ExpectedItems,
   m_has_error : BOOLEAN,
   m_diagnostics : Seq(Diagnostics(n)),
   m_skipper : Rules \cup {NoRule},
   m_skip_enabled : BOOLEAN,
   m_node_arena : Seq(Nodes(n))]

\* A Context just constructed over an input of n elements.
NewContext(n) ==
  [m_position |-> 0,
   m_input_size |-> n,
   m_last_cut |-> 0,
   m_mem |-> [k \in (0..n) \X Rules |-> Absent],
   m_cut |-> <<>>,
   m_lr_stack |-> <<>>,
   m_growing_head |-> [p \in 0..n |-> NoRule],
   m_furthest_failure_pos |-> 0,
   m_expected |-> {},
   m_has_error |-> FALSE,
   m_diagnostics |-> <<>>,
   m_skipper |-> NoRule,
   m_skip_enabled |-> TRUE,
   m_node_arena |-> <<>>]

-----------------------------------------------------------------------------
(* Cursor.                                                                 *)

mark(c) == c.m_position

ended(c) == c.m_position >= c.m_input_size

next(c) == IF ended(c) THEN c ELSE [c EXCEPT !.m_position = @ + 1]

\* Both reset(pos) and state(State): the code asserts pos <= m_input_size.
reset(c, pos) == [c EXCEPT !.m_position = pos]

-----------------------------------------------------------------------------
(* Node arena: nodes are only ever appended; a combinator keeps the index  *)
(* of its node and edits it in place while it builds it.                   *)

EmptyNode(from, to) ==
  [name |-> NoRule, start_offset |-> from, end_offset |-> to,
   children |-> <<>>, producer |-> NoRule, alt_winner |-> -1]

make_node(c, node) == [c EXCEPT !.m_node_arena = Append(@, node)]

\* Index of the node the next make_node allocates.
NextNode(c) == Len(c.m_node_arena) + 1

edit_node(c, t, node) ==
  IF t \in 1..Len(c.m_node_arena)
  THEN [c EXCEPT !.m_node_arena[t] = node]
  ELSE c

NodeAt(c, t) ==
  IF t \in 1..Len(c.m_node_arena)
  THEN c.m_node_arena[t]
  ELSE EmptyNode(mark(c), mark(c))

\* node->children.push_back(tree), which callers guard with "if (tree)".
push_child(c, t, tree) ==
  IF tree = nullptr THEN c
  ELSE edit_node(c, t, [NodeAt(c, t) EXCEPT !.children = Append(@, tree)])

\* Mutant: the end offset is never stamped.
NoEnd_set_end(c, t) == c

set_end(c, t) == edit_node(c, t, [NodeAt(c, t) EXCEPT !.end_offset = mark(c)])

-----------------------------------------------------------------------------
(* Packrat memo.                                                           *)

HasMemo(c, rule, pos) == c.m_mem[<<pos, rule>>] # Absent

\* rule_state(): try_emplace; a fresh entry is a value-initialised RuleState.
FreshRuleState == [m_last_pos |-> 0, m_cached_result |-> Failed]

rule_state(c, rule, pos) ==
  IF HasMemo(c, rule, pos) THEN c
  ELSE [c EXCEPT !.m_mem[<<pos, rule>>] = FreshRuleState]

memo_get(c, rule, pos) ==
  IF HasMemo(c, rule, pos) THEN c.m_mem[<<pos, rule>>] ELSE FreshRuleState

\* update_rule_state(): assigns only an entry that is still there, and says
\* whether it was (HasMemo).
\* Mutant: the answer is not stored.
Lost_update_rule_state(c, rule, pos, rs) == c

update_rule_state(c, rule, pos, rs) ==
  IF HasMemo(c, rule, pos) THEN [c EXCEPT !.m_mem[<<pos, rule>>] = rs] ELSE c

-----------------------------------------------------------------------------
(* Left-recursion invocation stack, top last.                              *)

lr_push(c, frame) == [c EXCEPT !.m_lr_stack = Append(@, frame)]

\* Mutant: the frame is left on the stack.
Left_lr_pop(c, lr) == c

\* m_lr_stack = frame->next, where frame is the lr-th entry from the bottom.
lr_pop(c, lr) == [c EXCEPT !.m_lr_stack = SubSeq(@, 1, lr - 1)]

lr_in_progress(c, rule, pos) ==
  \E k \in 1..Len(c.m_lr_stack) :
    c.m_lr_stack[k].pos = pos /\ c.m_lr_stack[k].rule = rule

\* The frame nearest the top for (rule, pos) becomes the cycle's head.
mark_head(c, rule, pos) ==
  LET hits == {k \in 1..Len(c.m_lr_stack) :
                 c.m_lr_stack[k].pos = pos /\ c.m_lr_stack[k].rule = rule}
      top  == CHOOSE k \in hits : \A j \in hits : j <= k
  IN  IF c.m_lr_stack[top].is_head THEN c
      ELSE [c EXCEPT !.m_lr_stack[top].is_head = TRUE,
                     !.m_growing_head[pos] = rule]

clear_growing_head(c, pos) == [c EXCEPT !.m_growing_head[pos] = NoRule]

\* Mutant: rules still on the LR stack are dropped too.
Greedy_clear_siblings_at(c, pos, keep) ==
  [c EXCEPT !.m_mem =
     [k \in DOMAIN @ |-> IF k[1] = pos /\ k[2] # keep THEN Absent ELSE @[k]]]

\* Forget every rule at pos except keep and the rules on the LR stack there.
clear_siblings_at(c, pos, keep) ==
  [c EXCEPT !.m_mem =
     [k \in DOMAIN @ |->
        IF k[1] = pos /\ k[2] # keep /\ ~ lr_in_progress(c, k[2], pos)
        THEN Absent ELSE @[k]]]

-----------------------------------------------------------------------------
(* Cut scopes, innermost last.                                             *)

init_cut(c) ==
  [c EXCEPT !.m_cut = Append(@, [pos |-> mark(c), cut |-> FALSE])]

\* bool cut()
IsCut(c) == c.m_cut # <<>> /\ c.m_cut[Len(c.m_cut)].cut

\* void cut(bool): dropped when no scope is open.
cut(c, b) ==
  IF c.m_cut = <<>> THEN c
  ELSE [c EXCEPT !.m_cut[Len(c.m_cut)] = [pos |-> mark(c), cut |-> b]]

\* Mutant: what was parsed from the cut on is forgotten as well.
Inclusive_remove_cut(c) ==
  LET top    == c.m_cut[Len(c.m_cut)]
      popped == SubSeq(c.m_cut, 1, Len(c.m_cut) - 1)
  IN  IF IsCut(c)
      THEN [c EXCEPT !.m_cut = popped,
                     !.m_last_cut = top.pos,
                     !.m_mem = [k \in DOMAIN @ |->
                                  IF k[1] <= top.pos THEN Absent ELSE @[k]]]
      ELSE [c EXCEPT !.m_cut = popped]

\* Leaving a committed scope evicts the memo below the cut, and tells the
\* input source it may release what lies before it.
remove_cut(c) ==
  LET top    == c.m_cut[Len(c.m_cut)]
      popped == SubSeq(c.m_cut, 1, Len(c.m_cut) - 1)
  IN  IF IsCut(c)
      THEN [c EXCEPT !.m_cut = popped,
                     !.m_last_cut = top.pos,
                     !.m_mem = [k \in DOMAIN @ |->
                                  IF k[1] < top.pos THEN Absent ELSE @[k]]]
      ELSE [c EXCEPT !.m_cut = popped]

-----------------------------------------------------------------------------
(* Auto-skip flag, error tracker, diagnostics.                             *)

skip_enabled(c, b) == [c EXCEPT !.m_skip_enabled = b]

SkipperRuns(c) == c.m_skip_enabled /\ c.m_skipper # NoRule

internal_set_skipper(c, s) == [c EXCEPT !.m_skipper = s]

\* Mutant: a further failure keeps the items of the earlier position.
Stale_record_failure(c, pos, item) ==
  IF ~ c.m_has_error \/ pos >= c.m_furthest_failure_pos
  THEN [c EXCEPT !.m_furthest_failure_pos = pos,
                 !.m_expected = @ \cup {item},
                 !.m_has_error = TRUE]
  ELSE c

\* Mutant: a first failure must be further than the 0 the tracker starts at.
First_record_failure(c, pos, item) ==
  IF pos > c.m_furthest_failure_pos
  THEN [c EXCEPT !.m_furthest_failure_pos = pos,
                 !.m_expected = {item},
                 !.m_has_error = TRUE]
  ELSE IF pos = c.m_furthest_failure_pos
  THEN [c EXCEPT !.m_expected = @ \cup {item}]
  ELSE c

\* record_failure and record_failure_lazy keep the same items: furthest
\* wins, the same position accumulates, earlier is ignored.
record_failure(c, pos, item) ==
  IF ~ c.m_has_error \/ pos > c.m_furthest_failure_pos
  THEN [c EXCEPT !.m_furthest_failure_pos = pos,
                 !.m_expected = {item},
                 !.m_has_error = TRUE]
  ELSE IF pos = c.m_furthest_failure_pos
  THEN [c EXCEPT !.m_expected = @ \cup {item}]
  ELSE c

take_error(c) ==
  IF c.m_has_error
  THEN [c EXCEPT !.m_has_error = FALSE,
                 !.m_expected = {},
                 !.m_furthest_failure_pos = 0]
  ELSE c

record_diagnostic(c, diag) == [c EXCEPT !.m_diagnostics = Append(@, diag)]

take_diagnostics(c) == [c EXCEPT !.m_diagnostics = <<>>]
=============================================================================
