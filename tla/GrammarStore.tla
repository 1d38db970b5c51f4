---------------------------- MODULE GrammarStore ----------------------------
(***************************************************************************)
(* Grammar objects and the rules they own (Grammar.h, NonTerminal.h):      *)
(* rule access, assignment, skipper, moves, destruction.                   *)
(*                                                                         *)
(* A Rule handle is a bare NonTerminal pointer and a name; an expression   *)
(* is the set of handles in it (an alias is a body of one handle).  The    *)
(* caller keeps to what the comments ask: a body and the skipper use       *)
(* handles of the same Grammar, no handle is used after its Grammar, and a *)
(* moved-from Grammar is only assigned to or destroyed.                    *)
(***************************************************************************)
EXTENDS FiniteSets

CONSTANTS
  Names,    \* rule names
  NTs,      \* addresses of NonTerminals
  Objs,     \* names for Grammar objects
  None      \* no object, no NonTerminal, the empty m_start

ASSUME StoreAssumption == None \notin Names /\ None \notin NTs

Handles == [nt : NTs, name : Names]

\* m_rule is the body's handles, defined whether there is a body; m_name is
\* given by an assignment.
NonTerminals ==
  [defined : BOOLEAN, m_rule : SUBSET Handles, m_name : Names \cup {None}]

\* moved_from is no member: it marks what a move has left.
Grammars ==
  [m_rules : [Names -> NTs \cup {None}], m_start : Names \cup {None},
   m_skipper : NTs \cup {None}, moved_from : BOOLEAN]

VARIABLES
  grammar,   \* grammar[o]: the Grammar object named o, or None
  heap       \* heap[p]: the NonTerminal at p, while some m_rules owns it

store == <<grammar, heap>>

NewNonTerminal == [defined |-> FALSE, m_rule |-> {}, m_name |-> None]
NewGrammar ==
  [m_rules |-> [n \in Names |-> None], m_start |-> None, m_skipper |-> None,
   moved_from |-> FALSE]

has_rule(g, n) == g.m_rules[n] # None
rule_names(g) == {n \in Names : has_rule(g, n)}
Owns(g, p) == \E n \in Names : g.m_rules[n] = p
Owned == {p \in NTs : \E o \in Objs : grammar[o] # None /\ Owns(grammar[o], p)}

is_defined(p) == heap[p].defined
defined_rules(g) == {n \in rule_names(g) : is_defined(g.m_rules[n])}
undefined_rules(g) == {n \in rule_names(g) : ~ is_defined(g.m_rules[n])}

Handle(g, n) == [nt |-> g.m_rules[n], name |-> n]

\* An object the caller may use, as g.
Usable(o) == grammar[o] # None /\ ~ grammar[o].moved_from

-----------------------------------------------------------------------------

\* Grammar().
Construct(o) ==
  /\ grammar[o] = None
  /\ grammar' = [grammar EXCEPT ![o] = NewGrammar]
  /\ UNCHANGED heap

\* Mutant: a rule that exists is made anew.
Anew_Access(o, n) ==
  /\ Usable(o)
  /\ \E p \in NTs \ Owned :
       /\ grammar' = [grammar EXCEPT ![o].m_rules[n] = p]
       /\ heap' = [heap EXCEPT ![p] = NewNonTerminal]

\* operator[] of a new name; of an old one it changes nothing, like find().
Access(o, n) ==
  /\ Usable(o) /\ ~ has_rule(grammar[o], n)
  /\ \E p \in NTs \ Owned :
       /\ grammar' = [grammar EXCEPT ![o].m_rules[n] = p]
       /\ heap' = [heap EXCEPT ![p] = NewNonTerminal]

\* Mutant: the body holds names where the code copies handles.
Named_Assign(o, n, refs) ==
  /\ Usable(o) /\ has_rule(grammar[o], n)
  /\ refs \subseteq rule_names(grammar[o])
  /\ heap' = [heap EXCEPT ![grammar[o].m_rules[n]] =
                [defined |-> TRUE, m_rule |-> refs, m_name |-> n]]
  /\ UNCHANGED grammar

\* Rule::operator=: the handle of n is given a body with the handles of refs,
\* or the rule alone that it becomes an alias of (g["a"] = g["a"] included:
\* the test for self-assignment compares the addresses of two temporaries).
Assign(o, n, refs) ==
  /\ Usable(o) /\ has_rule(grammar[o], n)
  /\ refs \subseteq rule_names(grammar[o])
  /\ heap' = [heap EXCEPT ![grammar[o].m_rules[n]] =
                [defined |-> TRUE, m_rule |-> {Handle(grammar[o], m) : m \in refs},
                 m_name |-> n]]
  /\ UNCHANGED grammar

SetStart(o, n) ==
  /\ Usable(o)
  /\ grammar' = [grammar EXCEPT ![o].m_start = n]
  /\ UNCHANGED heap

\* Mutant: an undefined rule is taken.
Lax_SetSkipper(o, n) ==
  /\ Usable(o) /\ has_rule(grammar[o], n)
  /\ grammar' = [grammar EXCEPT ![o].m_skipper = grammar[o].m_rules[n]]
  /\ UNCHANGED heap

\* set_skipper; of an undefined rule it throws.
SetSkipper(o, n) ==
  /\ Usable(o) /\ n \in defined_rules(grammar[o])
  /\ grammar' = [grammar EXCEPT ![o].m_skipper = grammar[o].m_rules[n]]
  /\ UNCHANGED heap

ClearSkipper(o) ==
  /\ Usable(o)
  /\ grammar' = [grammar EXCEPT ![o].m_skipper = None]
  /\ UNCHANGED heap

\* The NonTerminals of o's map die with it.
Release(o) ==
  [p \in NTs |-> IF grammar[o] # None /\ Owns(grammar[o], p)
                 THEN NewNonTerminal ELSE heap[p]]

\* Mutant: the rules stay in the source as well.
Copied_Move(o, p) ==
  /\ o # p /\ Usable(o)
  /\ grammar' = [grammar EXCEPT ![p] = grammar[o]]
  /\ heap' = Release(p)

\* Mutant: the target keeps its own skipper.
Kept_Move(o, p) ==
  /\ o # p /\ Usable(o)
  /\ grammar' = [grammar EXCEPT
                   ![p] = [grammar[o] EXCEPT !.m_skipper =
                             IF grammar[p] = None THEN None ELSE grammar[p].m_skipper],
                   ![o] = [NewGrammar EXCEPT !.moved_from = TRUE]]
  /\ heap' = Release(p)

\* Grammar p = std::move(o), or an assignment to an existing p: the map and
\* the start move, the skipper pointer is copied.
Move(o, p) ==
  /\ o # p /\ Usable(o)
  /\ grammar' = [grammar EXCEPT
                   ![p] = grammar[o],
                   ![o] = [NewGrammar EXCEPT !.m_skipper = grammar[o].m_skipper,
                                             !.moved_from = TRUE]]
  /\ heap' = Release(p)

Destroy(o) ==
  /\ grammar[o] # None
  /\ grammar' = [grammar EXCEPT ![o] = None]
  /\ heap' = Release(o)

Init ==
  /\ grammar = [o \in Objs |-> None]
  /\ heap = [p \in NTs |-> NewNonTerminal]

StoreStep ==
  \E o \in Objs :
    \/ Construct(o)
    \/ \E n \in Names : Access(o, n)
    \/ \E n \in Names : \E refs \in SUBSET Names : Assign(o, n, refs)
    \/ \E n \in Names \cup {None} : SetStart(o, n)
    \/ \E n \in Names : SetSkipper(o, n)
    \/ ClearSkipper(o)
    \/ \E p \in Objs : Move(o, p)
    \/ Destroy(o)

-----------------------------------------------------------------------------
(* Properties.                                                             *)

\* Every variable has its type.
StoreTypeOK ==
  /\ grammar \in [Objs -> Grammars \cup {None}]
  /\ heap \in [NTs -> NonTerminals]

\* "Grammar is the sole owner": no two map entries, of one Grammar or of two,
\* own the same NonTerminal, through every creation, move and destruction.
SoleOwner ==
  \A o, p \in Objs : \A m, n \in Names :
    /\ grammar[o] # None /\ grammar[p] # None
    /\ grammar[o].m_rules[m] # None
    /\ grammar[o].m_rules[m] = grammar[p].m_rules[n]
    => o = p /\ m = n

\* Parsing follows the pointers in a body, collect_rule_refs reads the names
\* next to them: both mean the same rule of the Grammar that owns the body.
NamesMatchPointers ==
  \A o \in Objs : \A n \in Names :
    grammar[o] # None /\ n \in defined_rules(grammar[o]) =>
      LET nt == heap[grammar[o].m_rules[n]]
      IN  /\ nt.m_name = n
          /\ \A h \in nt.m_rule : grammar[o].m_rules[h.name] = h.nt

\* "the body lives in m_rules for the Grammar's whole lifetime": the skipper
\* of a Grammar in use is one of its own rules, and defined.
SkipperLives ==
  \A o \in Objs : Usable(o) /\ grammar[o].m_skipper # None =>
    /\ Owns(grammar[o], grammar[o].m_skipper)
    /\ is_defined(grammar[o].m_skipper)

\* The step leaves the handle of o's rule n denoting that rule, unless it
\* destroys o or assigns to it.
HandleKept(o, n) ==
  LET p == grammar[o].m_rules[n]
  IN  \/ \E q \in Objs : grammar'[q] # None /\ grammar'[q].m_rules[n] = p
      \/ grammar'[o] = None
      \/ \E q \in Objs \ {o} : grammar'[o] = grammar[q]

\* A handle denotes its rule until the Grammar is destroyed or assigned to:
\* get-or-create never makes a rule anew, and "Rule handles from g1 stay
\* valid" when g1 moves.
HandlesStayValid ==
  [][\A o \in Objs : \A n \in Names :
       grammar[o] # None /\ has_rule(grammar[o], n) => HandleKept(o, n)]_store

\* The NonTerminals a parse that enters those of seeds may enter.
Closed(S) ==
  \A p \in S : is_defined(p) => \A h \in heap[p].m_rule : h.nt \in S
Entered(seeds) ==
  {p \in NTs : \A S \in SUBSET NTs : seeds \subseteq S /\ Closed(S) => p \in S}

\* A parse stays inside its Grammar, and when undefined_rules() is empty it
\* enters no rule without a body.
ParseStaysInside ==
  \A o \in Objs :
    Usable(o) /\ grammar[o].m_start \in rule_names(grammar[o]) =>
      LET g == grammar[o]
          seeds == {g.m_rules[g.m_start], g.m_skipper} \ {None}
      IN  \A p \in Entered(seeds) :
            /\ Owns(g, p)
            /\ undefined_rules(g) = {} => is_defined(p)
=============================================================================
