--------------------------- MODULE GrammarAnalysis ---------------------------
(***************************************************************************)
(* Grammar::unreachable_rules and Grammar::to_dot on the Grammars of       *)
(* GrammarStore: two worklist loops over the names in rule bodies, one     *)
(* action per iteration.  They are const, and nothing else runs meanwhile. *)
(* The order in which a set or map is iterated is left open.               *)
(***************************************************************************)
EXTENDS GrammarStore, Sequences, Naturals

ASSUME NamesAssumption == IsFiniteSet(Names)

VARIABLE
  call   \* the analysis under way, or just done

vars == <<grammar, heap, call>>

\* Its locals: obj is this, queue the vector used as a stack, seen the set
\* reachable or visited.  dead is what unreachable_rules returns, dot lists
\* the rules whose edges to_dot has written.
Calls ==
  [pc : {"idle", "unreachable_rules", "dead", "to_dot", "dot"},
   obj : Objs \cup {None}, queue : Seq(Names), seen : SUBSET Names,
   dead : SUBSET Names, dot : Seq(Names)]

Began(pc, o, queue, seen) ==
  [pc |-> pc, obj |-> o, queue |-> queue, seen |-> seen, dead |-> {}, dot |-> <<>>]

Idle == Began("idle", None, <<>>, {})

This == grammar[call.obj]

\* The vectors that list S, each element once.
Listings(S) ==
  {s \in [1..Cardinality(S) -> S] : \A x \in S : \E i \in DOMAIN s : s[i] = x}

Listed(s) == {s[i] : i \in DOMAIN s}
Last(s) == s[Len(s)]
Front(s) == SubSeq(s, 1, Len(s) - 1)

\* collect_rule_refs of the rule named n.
collect_rule_refs(n) ==
  IF n \in defined_rules(This) THEN {h.name : h \in heap[This.m_rules[n]].m_rule}
  ELSE {}

-----------------------------------------------------------------------------
(* unreachable_rules.                                                      *)

\* Mutant: a start that is not set is looked up.
Unchecked_UnreachableCalled(o) ==
  /\ call = Idle /\ Usable(o)
  /\ LET start == grammar[o].m_start
     IN  call' = Began("unreachable_rules", o, <<start>>, {start})
  /\ UNCHANGED store

UnreachableCalled(o) ==
  /\ call = Idle /\ Usable(o)
  /\ LET start == grammar[o].m_start
     IN  call' = IF start = None \/ ~ has_rule(grammar[o], start)
                 THEN Began("dead", o, <<>>, {})
                 ELSE Began("unreachable_rules", o, <<start>>, {start})
  /\ UNCHANGED store

\* Mutant: the name visited stays on the stack.
Unpopped_ReachableVisited ==
  /\ call.pc = "unreachable_rules" /\ call.queue # <<>>
  /\ LET new == collect_rule_refs(Last(call.queue)) \ call.seen
     IN  \E s \in Listings(new) :
           call' = [call EXCEPT !.queue = @ \o s, !.seen = @ \cup new]
  /\ UNCHANGED store

\* Mutant: only the names of a body that were never seen before the loop.
Shallow_ReachableVisited ==
  /\ call.pc = "unreachable_rules" /\ call.queue # <<>>
  /\ call' = [call EXCEPT !.queue = Front(@),
                          !.seen = @ \cup collect_rule_refs(Last(call.queue))]
  /\ UNCHANGED store

ReachableVisited ==
  /\ call.pc = "unreachable_rules" /\ call.queue # <<>>
  /\ LET new == collect_rule_refs(Last(call.queue)) \ call.seen
     IN  \E s \in Listings(new) :
           call' = [call EXCEPT !.queue = Front(@) \o s, !.seen = @ \cup new]
  /\ UNCHANGED store

UnreachableReturns ==
  /\ call.pc = "unreachable_rules" /\ call.queue = <<>>
  /\ call' = [call EXCEPT !.pc = "dead", !.dead = defined_rules(This) \ call.seen]
  /\ UNCHANGED store

-----------------------------------------------------------------------------
(* to_dot.                                                                 *)

ToDotCalled(o) ==
  /\ call = Idle /\ Usable(o)
  /\ \E s \in Listings(defined_rules(grammar[o])) :
       call' = Began("to_dot", o, s, {})
  /\ UNCHANGED store

DotSkipped ==
  /\ call.pc = "to_dot" /\ call.queue # <<>> /\ Last(call.queue) \in call.seen
  /\ call' = [call EXCEPT !.queue = Front(@)]
  /\ UNCHANGED store

\* Mutant: a rule is not marked as visited.
Unmarked_DotVisited ==
  /\ call.pc = "to_dot" /\ call.queue # <<>> /\ Last(call.queue) \notin call.seen
  /\ LET n == Last(call.queue)
     IN  \E s \in Listings(collect_rule_refs(n) \cap rule_names(This)) :
           call' = [call EXCEPT !.queue = Front(@) \o s, !.dot = Append(@, n)]
  /\ UNCHANGED store

DotVisited ==
  /\ call.pc = "to_dot" /\ call.queue # <<>> /\ Last(call.queue) \notin call.seen
  /\ LET n == Last(call.queue)
     IN  \E s \in Listings(collect_rule_refs(n) \cap rule_names(This)) :
           call' = [call EXCEPT !.queue = Front(@) \o s, !.seen = @ \cup {n},
                                !.dot = Append(@, n)]
  /\ UNCHANGED store

DotReturns ==
  /\ call.pc = "to_dot" /\ call.queue = <<>>
  /\ call' = [call EXCEPT !.pc = "dot"]
  /\ UNCHANGED store

-----------------------------------------------------------------------------

AnalysisStep ==
  \/ ReachableVisited \/ UnreachableReturns
  \/ DotSkipped \/ DotVisited \/ DotReturns

\* The caller has read the answer.
Forgotten == call.pc \in {"dead", "dot"} /\ call' = Idle /\ UNCHANGED store

Next ==
  \/ call = Idle /\ StoreStep /\ UNCHANGED call
  \/ \E o \in Objs : UnreachableCalled(o) \/ ToDotCalled(o)
  \/ AnalysisStep
  \/ Forgotten

AnalysisInit == Init /\ call = Idle

Spec == AnalysisInit /\ [][Next]_vars /\ WF_vars(AnalysisStep)

-----------------------------------------------------------------------------
(* Properties.                                                             *)

CallTypeOK ==
  /\ call \in Calls
  /\ call.pc # "idle" => call.obj \in Objs /\ Usable(call.obj)

\* "Rules defined but not reachable from the start rule (dead code)": exactly
\* the rules that no parse of the start rule can enter through the pointers
\* in bodies, and none as long as the start is no rule, whether it was never
\* set or never made.  (The skipper's own rules count as unreachable.)
UnreachableAreDead ==
  call.pc = "dead" =>
    call.dead =
      {n \in defined_rules(This) :
         /\ This.m_start \in rule_names(This)
         /\ This.m_rules[n] \notin Entered({This.m_rules[This.m_start]})}

\* "every rule-reference is a directed edge": to_dot writes the edges of each
\* defined rule, once, although the stack may hold a rule several times.
Distinct(s) == \A i, j \in DOMAIN s : s[i] = s[j] => i = j
EdgesOnce ==
  call.pc = "dot" =>
    /\ defined_rules(This) \subseteq Listed(call.dot)
    /\ Listed(call.dot) \subseteq rule_names(This)
    /\ Distinct(call.dot)

\* Both loops end, on cyclic grammars too.
AnalysisReturns == call.pc \in {"unreachable_rules", "to_dot"} ~> call.pc \in {"dead", "dot"}
=============================================================================
