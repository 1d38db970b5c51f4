------------------------------ MODULE MCGrammar ------------------------------
(***************************************************************************)
(* GrammarAnalysis on a small instance.  Two Grammars with two rules show  *)
(* the store (grammar.cfg).  The analyses want more rules than that: they  *)
(* start from every Grammar with up to three (analysis.cfg).               *)
(***************************************************************************)
EXTENDS GrammarAnalysis, TLC

Symmetries == Permutations(NTs) \cup Permutations(Objs)

-----------------------------------------------------------------------------

\* One Grammar: some rules made, in one order, and any of them assigned; the
\* start is any name, a rule or not.
Addresses == CHOOSE f \in [Names -> NTs] : \A m, n \in Names : f[m] = f[n] => m = n

Bodies(n, made) ==
  {NewNonTerminal} \cup
  {[defined |-> TRUE, m_rule |-> {[nt |-> Addresses[m], name |-> m] : m \in refs},
    m_name |-> n] : refs \in SUBSET made}

Built ==
  \E made \in SUBSET Names, start \in Names \cup {None} :
    /\ grammar = [o \in Objs |->
                    [NewGrammar EXCEPT
                       !.m_rules = [n \in Names |->
                                      IF n \in made THEN Addresses[n] ELSE None],
                       !.m_start = start]]
    /\ heap \in [NTs -> {NewNonTerminal} \cup UNION {Bodies(n, made) : n \in made}]
    /\ \A n \in Names :
         heap[Addresses[n]] \in IF n \in made THEN Bodies(n, made) ELSE {NewNonTerminal}
    /\ call = Idle

AnalysisNext ==
  \/ \E o \in Objs : UnreachableCalled(o) \/ ToDotCalled(o)
  \/ AnalysisStep
  \/ Forgotten

AnalysisSpec == Built /\ [][AnalysisNext]_vars /\ WF_vars(AnalysisStep)
=============================================================================
