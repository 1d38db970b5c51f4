---------------------------- MODULE GrammarProofs ----------------------------
(***************************************************************************)
(* Rule ownership through every legal use of the Grammars, and what the    *)
(* analyses answer, for any numbers of names, NonTerminals and Grammars.   *)
(***************************************************************************)
EXTENDS GrammarAnalysis, FiniteSetTheorems, SequenceTheorems, TLAPS

\* The inductive invariant of the store.
StoreInv == StoreTypeOK /\ SoleOwner /\ NamesMatchPointers /\ SkipperLives

\* Types of what the actions read.
LEMMA GrammarType ==
  ASSUME StoreTypeOK, NEW o \in Objs, grammar[o] # None
  PROVE  /\ grammar[o] \in Grammars
         /\ \A n \in Names : grammar[o].m_rules[n] \in NTs \cup {None}
         /\ rule_names(grammar[o]) \subseteq Names
         /\ defined_rules(grammar[o]) \subseteq rule_names(grammar[o])
         /\ \A n \in rule_names(grammar[o]) :
              /\ grammar[o].m_rules[n] \in NTs
              /\ heap[grammar[o].m_rules[n]] \in NonTerminals
  BY DEF StoreTypeOK, Grammars, rule_names, defined_rules, has_rule

\* A new Grammar and a new NonTerminal have their types, and own nothing.
LEMMA NewTypes ==
  /\ NewGrammar \in Grammars /\ NewNonTerminal \in NonTerminals
  /\ \A n \in Names : NewGrammar.m_rules[n] = None
  /\ NewGrammar.m_skipper = None
  /\ ~ NewNonTerminal.defined
  BY DEF NewGrammar, NewNonTerminal, Grammars, NonTerminals

\* No Grammar: the invariant holds.
LEMMA InitOK ==
  ASSUME Init
  PROVE  StoreInv
  BY NewTypes DEF Init, StoreInv, StoreTypeOK, SoleOwner, NamesMatchPointers,
                  SkipperLives, Usable

\* A new Grammar keeps the invariant.
LEMMA ConstructOK ==
  ASSUME StoreInv, NEW o \in Objs, Construct(o)
  PROVE  StoreInv'
<1>1. StoreTypeOK'
  BY NewTypes DEF StoreInv, StoreTypeOK, Construct
<1>2. \A p \in Objs : /\ p # o => grammar'[p] = grammar[p]
                      /\ grammar'[o] = NewGrammar
  BY DEF StoreInv, StoreTypeOK, Construct
<1>3. heap' = heap
  BY DEF Construct
<1>4. SoleOwner'
  BY <1>2, NewTypes DEF StoreInv, SoleOwner
<1>5. NamesMatchPointers'
  BY <1>2, <1>3, NewTypes
  DEF StoreInv, NamesMatchPointers, defined_rules, rule_names, has_rule, is_defined
<1>6. SkipperLives'
  BY <1>2, <1>3, NewTypes DEF StoreInv, SkipperLives, Usable, Owns, is_defined
<1> QED
  BY <1>1, <1>4, <1>5, <1>6 DEF StoreInv

\* An owned NonTerminal is in the map of the one Grammar and rule that own it.
LEMMA AccessOK ==
  ASSUME StoreInv, NEW o \in Objs, NEW n \in Names, Access(o, n)
  PROVE  StoreInv'
<1>1. PICK p \in NTs \ Owned :
        /\ grammar' = [grammar EXCEPT ![o].m_rules[n] = p]
        /\ heap' = [heap EXCEPT ![p] = NewNonTerminal]
  BY DEF Access
<1>2. Usable(o) /\ grammar[o].m_rules[n] = None /\ grammar[o] \in Grammars
  BY GrammarType DEF Access, has_rule, StoreInv, Usable
<1> DEFINE g == [grammar[o] EXCEPT !.m_rules[n] = p]
<1>3. /\ g \in Grammars
      /\ g.m_rules = [grammar[o].m_rules EXCEPT ![n] = p]
      /\ g.m_skipper = grammar[o].m_skipper /\ g.moved_from = grammar[o].moved_from
  BY <1>2 DEF Grammars
<1>a. grammar' = [grammar EXCEPT ![o] = g]
  BY <1>1
<1> HIDE DEF g
<1>4. /\ grammar'[o] = g
      /\ \A q \in Objs : q # o => grammar'[q] = grammar[q]
      /\ grammar' \in [Objs -> Grammars \cup {None}]
  BY <1>a, <1>3 DEF StoreInv, StoreTypeOK
<1>5. StoreTypeOK'
  BY <1>1, <1>4, NewTypes DEF StoreInv, StoreTypeOK
<1>6. \A q \in Objs : \A m \in Names :
        grammar[q] # None => /\ grammar[q].m_rules[m] # p
                             /\ grammar[q].m_rules[m] \in NTs \cup {None}
  BY GrammarType DEF Owned, Owns, StoreInv
<1>7. g.m_rules[n] = p /\ \A m \in Names : m # n => g.m_rules[m] = grammar[o].m_rules[m]
  BY <1>2, <1>3 DEF Grammars
<1>8. grammar[o] # None /\ p # None
  BY <1>2, StoreAssumption DEF Usable
<1>9. SoleOwner'
  <2> SUFFICES ASSUME NEW q \in Objs, NEW r \in Objs, NEW m \in Names, NEW k \in Names,
                      grammar'[q] # None, grammar'[r] # None,
                      grammar'[q].m_rules[m] # None,
                      grammar'[q].m_rules[m] = grammar'[r].m_rules[k]
               PROVE  q = r /\ m = k
    BY DEF SoleOwner
  <2>1. grammar[q] # None /\ grammar[r] # None
    BY <1>4, <1>8
  <2>2. /\ q = o /\ m = n <=> grammar'[q].m_rules[m] = p
        /\ ~ (q = o /\ m = n) => grammar'[q].m_rules[m] = grammar[q].m_rules[m]
    BY <2>1, <1>4, <1>6, <1>7
  <2>3. /\ r = o /\ k = n <=> grammar'[r].m_rules[k] = p
        /\ ~ (r = o /\ k = n) => grammar'[r].m_rules[k] = grammar[r].m_rules[k]
    BY <2>1, <1>4, <1>6, <1>7
  <2> QED
    BY <2>1, <2>2, <2>3 DEF StoreInv, SoleOwner
<1>10. /\ heap'[p] = NewNonTerminal
       /\ \A q \in NTs : q # p => heap'[q] = heap[q]
  BY <1>1 DEF StoreInv, StoreTypeOK
<1>11. NamesMatchPointers'
  <2> SUFFICES ASSUME NEW q \in Objs, NEW m \in Names, grammar'[q] # None,
                      (m \in defined_rules(grammar[q]))'
               PROVE  /\ heap'[grammar'[q].m_rules[m]].m_name = m
                      /\ \A h \in heap'[grammar'[q].m_rules[m]].m_rule :
                           grammar'[q].m_rules[h.name] = h.nt
    BY DEF NamesMatchPointers
  <2>1. /\ grammar'[q].m_rules[m] # None
        /\ heap'[grammar'[q].m_rules[m]].defined
    BY DEF defined_rules, rule_names, has_rule, is_defined
  <2>2. q = o => m # n
    BY <2>1, <1>4, <1>7, <1>10, NewTypes
  <2>3. grammar[q] # None /\ grammar'[q].m_rules[m] = grammar[q].m_rules[m]
    BY <2>2, <1>4, <1>7, <1>8
  <2>4. /\ heap'[grammar'[q].m_rules[m]] = heap[grammar[q].m_rules[m]]
        /\ grammar[q].m_rules[m] \in NTs
    BY <2>1, <2>3, <1>6, <1>10
  <2>5. m \in defined_rules(grammar[q])
    BY <2>1, <2>3, <2>4 DEF defined_rules, rule_names, has_rule, is_defined
  <2>6. /\ heap[grammar[q].m_rules[m]].m_name = m
        /\ \A h \in heap[grammar[q].m_rules[m]].m_rule :
             grammar[q].m_rules[h.name] = h.nt
    BY <2>3, <2>5 DEF StoreInv, NamesMatchPointers
  <2>7. \A h \in heap[grammar[q].m_rules[m]].m_rule :
          h.name \in Names /\ h.nt \in NTs
    BY <2>4 DEF StoreInv, StoreTypeOK, NonTerminals, Handles
  <2>8. ASSUME NEW h \in heap[grammar[q].m_rules[m]].m_rule
        PROVE  grammar'[q].m_rules[h.name] = h.nt
    <3>1. /\ h.name \in Names /\ h.nt # None
          /\ grammar[q].m_rules[h.name] = h.nt
      BY <2>6, <2>7, StoreAssumption
    <3>2. q = o => h.name # n
      BY <3>1, <1>2
    <3> QED
      BY <3>1, <3>2, <1>4, <1>7
  <2> QED
    BY <2>4, <2>6, <2>8
<1>12. SkipperLives'
  <2> SUFFICES ASSUME NEW q \in Objs, Usable(q)', grammar'[q].m_skipper # None
               PROVE  /\ Owns(grammar[q], grammar[q].m_skipper)'
                      /\ is_defined(grammar[q].m_skipper)'
    BY DEF SkipperLives
  <2>1. Usable(q) /\ grammar'[q].m_skipper = grammar[q].m_skipper
    BY <1>2, <1>3, <1>4 DEF Usable
  <2>2. PICK m \in Names : grammar[q].m_rules[m] = grammar[q].m_skipper
    BY <2>1 DEF StoreInv, SkipperLives, Owns
  <2>3. grammar[q].m_skipper \in NTs /\ grammar[q].m_skipper # p
    BY <2>1, <2>2, <1>6 DEF Usable
  <2>4. grammar'[q].m_rules[m] = grammar[q].m_rules[m]
    BY <2>1, <2>2, <1>2, <1>4, <1>7
  <2> QED
    BY <2>1, <2>2, <2>3, <2>4, <1>10 DEF StoreInv, SkipperLives, Owns, is_defined
<1> QED
  BY <1>5, <1>9, <1>11, <1>12 DEF StoreInv

\* Giving a rule a body, or making it an alias, keeps the invariant.
LEMMA AssignOK ==
  ASSUME StoreInv, NEW o \in Objs, NEW n \in Names, NEW refs \in SUBSET Names,
         Assign(o, n, refs)
  PROVE  StoreInv'
<1> DEFINE p == grammar[o].m_rules[n]
           new == [defined |-> TRUE, m_rule |-> {Handle(grammar[o], m) : m \in refs},
                   m_name |-> n]
<1>1. /\ grammar[o] # None /\ n \in rule_names(grammar[o])
      /\ refs \subseteq rule_names(grammar[o])
      /\ heap' = [heap EXCEPT ![p] = new] /\ grammar' = grammar
  BY DEF Assign, Usable, rule_names
<1>2. p \in NTs /\ \A m \in refs : grammar[o].m_rules[m] \in NTs
  BY <1>1, GrammarType DEF StoreInv
<1>3. new \in NonTerminals
  BY <1>2 DEF NonTerminals, Handles, Handle
<1>4. StoreTypeOK'
  BY <1>1, <1>2, <1>3 DEF StoreInv, StoreTypeOK
<1>5. heap'[p] = new /\ \A q \in NTs : q # p => heap'[q] = heap[q]
  BY <1>1, <1>2 DEF StoreInv, StoreTypeOK
<1>6. SoleOwner'
  BY <1>1 DEF StoreInv, SoleOwner
<1>7. NamesMatchPointers'
  <2> SUFFICES ASSUME NEW q \in Objs, NEW m \in Names, grammar[q] # None,
                      (m \in defined_rules(grammar[q]))'
               PROVE  /\ heap'[grammar[q].m_rules[m]].m_name = m
                      /\ \A h \in heap'[grammar[q].m_rules[m]].m_rule :
                           grammar[q].m_rules[h.name] = h.nt
    BY <1>1 DEF NamesMatchPointers
  <2>1. /\ grammar[q].m_rules[m] # None
        /\ heap'[grammar[q].m_rules[m]].defined
    BY <1>1 DEF defined_rules, rule_names, has_rule, is_defined
  <2>2. CASE grammar[q].m_rules[m] = p
    <3>1. q = o /\ m = n
      BY <2>1, <2>2, <1>1 DEF StoreInv, SoleOwner
    <3> QED
      BY <3>1, <1>5 DEF Handle
  <2>3. CASE grammar[q].m_rules[m] # p
    <3>1. grammar[q].m_rules[m] \in NTs
      BY <2>1, GrammarType DEF StoreInv
    <3>2. heap'[grammar[q].m_rules[m]] = heap[grammar[q].m_rules[m]]
      BY <2>3, <3>1, <1>5
    <3>3. m \in defined_rules(grammar[q])
      BY <2>1, <3>2 DEF defined_rules, rule_names, has_rule, is_defined
    <3> QED
      BY <3>2, <3>3 DEF StoreInv, NamesMatchPointers
  <2> QED
    BY <2>2, <2>3
<1>8. SkipperLives'
  <2> SUFFICES ASSUME NEW q \in Objs, Usable(q), grammar[q].m_skipper # None
               PROVE  /\ Owns(grammar[q], grammar[q].m_skipper)
                      /\ heap'[grammar[q].m_skipper].defined
    BY <1>1 DEF SkipperLives, Usable, Owns, is_defined
  <2>1. /\ Owns(grammar[q], grammar[q].m_skipper)
        /\ heap[grammar[q].m_skipper].defined
    BY DEF StoreInv, SkipperLives, is_defined
  <2>2. grammar[q].m_skipper \in NTs
    BY <2>1, GrammarType DEF Owns, StoreInv, Usable
  <2> QED
    BY <2>1, <2>2, <1>5
<1> QED
  BY <1>4, <1>6, <1>7, <1>8 DEF StoreInv

\* Changing the start or the skipper of a Grammar leaves its rules alone.
LEMMA FieldOK ==
  ASSUME StoreInv, NEW o \in Objs, Usable(o), NEW g \in Grammars,
         g.m_rules = grammar[o].m_rules, g.moved_from = grammar[o].moved_from,
         g.m_skipper # None => Owns(g, g.m_skipper) /\ is_defined(g.m_skipper),
         grammar' = [grammar EXCEPT ![o] = g], heap' = heap
  PROVE  StoreInv'
<1>1. /\ grammar'[o] = g /\ \A q \in Objs : q # o => grammar'[q] = grammar[q]
      /\ StoreTypeOK' /\ grammar[o] # None
  BY DEF StoreInv, StoreTypeOK, Usable
<1>2. \A q \in Objs : grammar'[q] # None =>
        grammar[q] # None /\ grammar'[q].m_rules = grammar[q].m_rules
  BY <1>1
<1>3. SoleOwner'
  BY <1>2 DEF StoreInv, SoleOwner
<1>4. NamesMatchPointers'
  BY <1>2 DEF StoreInv, NamesMatchPointers, defined_rules, rule_names, has_rule,
              is_defined
<1>5. SkipperLives'
  BY <1>1 DEF StoreInv, SkipperLives, Usable, Owns, is_defined
<1> QED
  BY <1>1, <1>3, <1>4, <1>5 DEF StoreInv

\* set_start keeps the invariant.
LEMMA SetStartOK ==
  ASSUME StoreInv, NEW o \in Objs, NEW n \in Names \cup {None}, SetStart(o, n)
  PROVE  StoreInv'
<1> DEFINE g == [grammar[o] EXCEPT !.m_start = n]
<1>1. Usable(o) /\ grammar[o] \in Grammars /\ heap' = heap
  BY GrammarType DEF SetStart, StoreInv, Usable
<1>2. grammar' = [grammar EXCEPT ![o] = g]
  BY DEF SetStart
<1>3. /\ g \in Grammars /\ g.m_rules = grammar[o].m_rules
      /\ g.moved_from = grammar[o].moved_from /\ g.m_skipper = grammar[o].m_skipper
  BY <1>1 DEF Grammars
<1>4. g.m_skipper # None => Owns(g, g.m_skipper) /\ is_defined(g.m_skipper)
  BY <1>1, <1>3 DEF StoreInv, SkipperLives, Owns
<1> HIDE DEF g
<1> QED
  BY <1>1, <1>2, <1>3, <1>4, FieldOK

\* set_skipper and clear_skipper keep the invariant.
LEMMA SkipperOK ==
  ASSUME StoreInv, NEW o \in Objs,
         ClearSkipper(o) \/ \E n \in Names : SetSkipper(o, n)
  PROVE  StoreInv'
<1>1. PICK s \in NTs \cup {None} :
        /\ grammar' = [grammar EXCEPT ![o].m_skipper = s]
        /\ s # None => Owns(grammar[o], s) /\ is_defined(s)
  BY GrammarType
  DEF SetSkipper, ClearSkipper, StoreInv, defined_rules, rule_names, Owns, Usable
<1> DEFINE g == [grammar[o] EXCEPT !.m_skipper = s]
<1>2. Usable(o) /\ grammar[o] \in Grammars /\ heap' = heap
  BY GrammarType DEF SetSkipper, ClearSkipper, StoreInv, Usable
<1>3. grammar' = [grammar EXCEPT ![o] = g]
  BY <1>1
<1>4. /\ g \in Grammars /\ g.m_rules = grammar[o].m_rules
      /\ g.moved_from = grammar[o].moved_from /\ g.m_skipper = s
  BY <1>2 DEF Grammars
<1>5. g.m_skipper # None => Owns(g, g.m_skipper) /\ is_defined(g.m_skipper)
  BY <1>1, <1>4 DEF Owns
<1> HIDE DEF g
<1> QED
  BY <1>2, <1>3, <1>4, <1>5, FieldOK

\* What dies with o are its own rules.
LEMMA ReleaseOK ==
  ASSUME StoreInv, NEW o \in Objs
  PROVE  /\ Release(o) \in [NTs -> NonTerminals]
         /\ \A q \in Objs : \A m \in Names :
              q # o /\ grammar[q] # None /\ grammar[q].m_rules[m] # None =>
                Release(o)[grammar[q].m_rules[m]] = heap[grammar[q].m_rules[m]]
<1>1. Release(o) \in [NTs -> NonTerminals]
  BY NewTypes DEF Release, StoreInv, StoreTypeOK
<1>2. ASSUME NEW q \in Objs, NEW m \in Names,
             q # o, grammar[q] # None, grammar[q].m_rules[m] # None
      PROVE  Release(o)[grammar[q].m_rules[m]] = heap[grammar[q].m_rules[m]]
  <2>1. grammar[q].m_rules[m] \in NTs
    BY <1>2, GrammarType DEF StoreInv
  <2>2. ~ (grammar[o] # None /\ Owns(grammar[o], grammar[q].m_rules[m]))
    BY <1>2 DEF Owns, StoreInv, SoleOwner
  <2> QED
    BY <2>1, <2>2 DEF Release
<1> QED
  BY <1>1, <1>2

\* After a step in which every rule owned before or after has one owner q, as
\* it had src[q] before, and kept its body, the store is in order.
LEMMA KeptOK ==
  ASSUME StoreInv, StoreTypeOK', NEW src \in [Objs -> Objs],
         \A q, r \in Objs : src[q] = src[r] /\ grammar'[q] # None /\ grammar'[r] # None
           /\ (\E m \in Names : grammar'[q].m_rules[m] # None)
           /\ (\E m \in Names : grammar'[r].m_rules[m] # None) => q = r,
         \A q \in Objs : grammar'[q] # None
           /\ (\E m \in Names : grammar'[q].m_rules[m] # None) =>
             grammar[src[q]] # None /\ grammar'[q] = grammar[src[q]],
         \A q \in Objs : grammar'[q] # None /\ ~ grammar'[q].moved_from =>
           grammar[src[q]] # None /\ grammar'[q] = grammar[src[q]],
         \A q \in Objs : \A m \in Names :
           grammar'[q] # None /\ grammar'[q].m_rules[m] # None =>
             heap'[grammar'[q].m_rules[m]] = heap[grammar'[q].m_rules[m]]
  PROVE  StoreInv'
<1>1. SoleOwner'
  <2> SUFFICES ASSUME NEW q \in Objs, NEW r \in Objs, NEW m \in Names, NEW k \in Names,
                      grammar'[q] # None, grammar'[r] # None,
                      grammar'[q].m_rules[m] # None,
                      grammar'[q].m_rules[m] = grammar'[r].m_rules[k]
               PROVE  q = r /\ m = k
    BY DEF SoleOwner
  <2>1. /\ grammar[src[q]] # None /\ grammar'[q] = grammar[src[q]]
        /\ grammar[src[r]] # None /\ grammar'[r] = grammar[src[r]]
    OBVIOUS
  <2>2. src[q] = src[r] /\ m = k
    BY <2>1 DEF StoreInv, SoleOwner
  <2> QED
    BY <2>2
<1>2. NamesMatchPointers'
  <2> SUFFICES ASSUME NEW q \in Objs, NEW m \in Names, grammar'[q] # None,
                      (m \in defined_rules(grammar[q]))'
               PROVE  /\ heap'[grammar'[q].m_rules[m]].m_name = m
                      /\ \A h \in heap'[grammar'[q].m_rules[m]].m_rule :
                           grammar'[q].m_rules[h.name] = h.nt
    BY DEF NamesMatchPointers
  <2>1. /\ grammar'[q].m_rules[m] # None
        /\ heap'[grammar'[q].m_rules[m]].defined
    BY DEF defined_rules, rule_names, has_rule, is_defined
  <2>2. /\ grammar[src[q]] # None /\ grammar'[q] = grammar[src[q]]
        /\ heap'[grammar'[q].m_rules[m]] = heap[grammar'[q].m_rules[m]]
    BY <2>1
  <2>3. m \in defined_rules(grammar[src[q]])
    BY <2>1, <2>2 DEF defined_rules, rule_names, has_rule, is_defined
  <2> QED
    BY <2>2, <2>3 DEF StoreInv, NamesMatchPointers
<1>3. SkipperLives'
  <2> SUFFICES ASSUME NEW q \in Objs, Usable(q)', grammar'[q].m_skipper # None
               PROVE  /\ Owns(grammar[q], grammar[q].m_skipper)'
                      /\ is_defined(grammar[q].m_skipper)'
    BY DEF SkipperLives
  <2>1. grammar[src[q]] # None /\ grammar'[q] = grammar[src[q]] /\ Usable(src[q])
    BY DEF Usable
  <2>2. PICK m \in Names : grammar[src[q]].m_rules[m] = grammar[src[q]].m_skipper
    BY <2>1 DEF StoreInv, SkipperLives, Owns
  <2>3. heap'[grammar'[q].m_rules[m]] = heap[grammar'[q].m_rules[m]]
    BY <2>1, <2>2 DEF Usable
  <2> QED
    BY <2>1, <2>2, <2>3 DEF StoreInv, SkipperLives, Owns, is_defined, Usable
<1> QED
  BY <1>1, <1>2, <1>3 DEF StoreInv

\* Moving a Grammar, into a new one or onto another, keeps the invariant.
LEMMA MoveOK ==
  ASSUME StoreInv, NEW o \in Objs, NEW p \in Objs, Move(o, p)
  PROVE  StoreInv'
<1> DEFINE left == [NewGrammar EXCEPT !.m_skipper = grammar[o].m_skipper,
                                      !.moved_from = TRUE]
           src == [q \in Objs |-> IF q = p THEN o ELSE IF q = o THEN p ELSE q]
<1>1. o # p /\ grammar[o] # None /\ ~ grammar[o].moved_from /\ heap' = Release(p)
  BY DEF Move, Usable
<1>2. grammar[o] \in Grammars /\ grammar[o].m_skipper \in NTs \cup {None}
  BY <1>1, GrammarType DEF StoreInv, Grammars
<1>3. /\ left \in Grammars /\ left.moved_from
      /\ \A m \in Names : left.m_rules[m] = None
  BY <1>2, NewTypes DEF Grammars
<1>4. grammar' = [grammar EXCEPT ![p] = grammar[o], ![o] = left]
  BY DEF Move
<1> HIDE DEF left
<1>5. /\ grammar'[p] = grammar[o] /\ grammar'[o] = left
      /\ \A q \in Objs : q # o /\ q # p => grammar'[q] = grammar[q]
      /\ grammar' \in [Objs -> Grammars \cup {None}]
  BY <1>1, <1>2, <1>3, <1>4 DEF StoreInv, StoreTypeOK
<1>6. StoreTypeOK'
  BY <1>1, <1>5, ReleaseOK DEF StoreTypeOK
<1>7. ASSUME NEW q \in Objs, grammar'[q] # None,
             ~ grammar'[q].moved_from \/ \E m \in Names : grammar'[q].m_rules[m] # None
      PROVE  /\ q # o /\ src[q] # p
             /\ grammar[src[q]] # None /\ grammar'[q] = grammar[src[q]]
  <2>1. q # o
    BY <1>3, <1>5, <1>7
  <2> QED
    BY <2>1, <1>1, <1>5, <1>7
<1>8. src \in [Objs -> Objs] /\ \A q, r \in Objs : src[q] = src[r] => q = r
  BY <1>1
<1>9. ASSUME NEW q \in Objs, NEW m \in Names, grammar'[q] # None,
             grammar'[q].m_rules[m] # None
      PROVE  heap'[grammar'[q].m_rules[m]] = heap[grammar'[q].m_rules[m]]
  BY <1>1, <1>7, <1>8, <1>9, ReleaseOK
<1> HIDE DEF src
<1> QED
  BY <1>6, <1>7, <1>8, <1>9, KeptOK

\* Destroying a Grammar, and with it its rules, keeps the invariant.
LEMMA DestroyOK ==
  ASSUME StoreInv, NEW o \in Objs, Destroy(o)
  PROVE  StoreInv'
<1> DEFINE src == [q \in Objs |-> q]
<1>1. /\ grammar'[o] = None /\ \A q \in Objs : q # o => grammar'[q] = grammar[q]
      /\ grammar' \in [Objs -> Grammars \cup {None}] /\ heap' = Release(o)
  BY DEF Destroy, StoreInv, StoreTypeOK
<1>2. StoreTypeOK'
  BY <1>1, ReleaseOK DEF StoreTypeOK
<1>3. src \in [Objs -> Objs] /\ \A q \in Objs : src[q] = q
  OBVIOUS
<1>4. \A q \in Objs : grammar'[q] # None => q # o /\ grammar'[q] = grammar[q]
  BY <1>1
<1>5. ASSUME NEW q \in Objs, NEW m \in Names, grammar'[q] # None,
             grammar'[q].m_rules[m] # None
      PROVE  heap'[grammar'[q].m_rules[m]] = heap[grammar'[q].m_rules[m]]
  BY <1>1, <1>4, <1>5, ReleaseOK
<1> HIDE DEF src
<1> QED
  BY <1>2, <1>3, <1>4, <1>5, KeptOK

\* Every operation on Grammars keeps the invariant.
LEMMA StoreStepOK ==
  ASSUME StoreInv, StoreStep
  PROVE  StoreInv'
<1>1. PICK o \in Objs :
        \/ Construct(o)
        \/ \E n \in Names : Access(o, n)
        \/ \E n \in Names : \E refs \in SUBSET Names : Assign(o, n, refs)
        \/ \E n \in Names \cup {None} : SetStart(o, n)
        \/ \E n \in Names : SetSkipper(o, n)
        \/ ClearSkipper(o)
        \/ \E p \in Objs : Move(o, p)
        \/ Destroy(o)
  BY DEF StoreStep
<1>2. CASE Construct(o)
  BY <1>2, ConstructOK
<1>3. CASE \E n \in Names : Access(o, n)
  BY <1>3, AccessOK
<1>4. CASE \E n \in Names : \E refs \in SUBSET Names : Assign(o, n, refs)
  BY <1>4, AssignOK
<1>5. CASE \E n \in Names \cup {None} : SetStart(o, n)
  BY <1>5, SetStartOK
<1>6. CASE ClearSkipper(o) \/ \E n \in Names : SetSkipper(o, n)
  BY <1>6, SkipperOK
<1>7. CASE \E p \in Objs : Move(o, p)
  BY <1>7, MoveOK
<1>8. CASE Destroy(o)
  BY <1>8, DestroyOK
<1> QED
  BY <1>1, <1>2, <1>3, <1>4, <1>5, <1>6, <1>7, <1>8

\* Nothing changes: the invariant stays.
LEMMA StoreStutterOK ==
  ASSUME StoreInv, UNCHANGED store
  PROVE  StoreInv'
<1>1. grammar' = grammar /\ heap' = heap
  BY DEF store
<1> QED
  BY <1>1 DEF StoreInv, StoreTypeOK, SoleOwner, NamesMatchPointers, SkipperLives,
              defined_rules, rule_names, has_rule, is_defined, Usable, Owns

\* The analyses are const: a step is one of the store or leaves it alone.
LEMMA NextIsStoreStep ==
  ASSUME [Next]_vars
  PROVE  StoreStep \/ UNCHANGED store
  BY DEF Next, vars, store, UnreachableCalled, ToDotCalled, AnalysisStep, Forgotten,
         ReachableVisited, UnreachableReturns, DotSkipped, DotVisited, DotReturns

\* The invariant of the store, in every behaviour.
LEMMA StoreInvariant == Spec => []StoreInv
<1>1. AnalysisInit => StoreInv
  BY InitOK DEF AnalysisInit
<1>2. StoreInv /\ [Next]_vars => StoreInv'
  BY StoreStepOK, StoreStutterOK, NextIsStoreStep
<1> QED
  BY <1>1, <1>2, PTL DEF Spec

\* The store keeps its types, through any accesses, assignments, moves and
\* destructions of Grammars.
THEOREM StoreTyped == Spec => []StoreTypeOK
<1>1. StoreInv => StoreTypeOK
  BY DEF StoreInv
<1> QED
  BY <1>1, StoreInvariant, PTL

\* No NonTerminal ever has two owners: operator[] makes a new one for each
\* name, and a move empties the Grammar it moves from.
THEOREM SoleOwnerOK == Spec => []SoleOwner
<1>1. StoreInv => SoleOwner
  BY DEF StoreInv
<1> QED
  BY <1>1, StoreInvariant, PTL

\* The names in a body and the pointers next to them mean the same rules of
\* the Grammar that owns the body, also after the body has moved with it.
THEOREM NamesMatchPointersOK == Spec => []NamesMatchPointers
<1>1. StoreInv => NamesMatchPointers
  BY DEF StoreInv
<1> QED
  BY <1>1, StoreInvariant, PTL

\* The skipper of a Grammar in use is one of its own defined rules:
\* set_skipper checks it, and the map never gives a rule up.
THEOREM SkipperLivesOK == Spec => []SkipperLives
<1>1. StoreInv => SkipperLives
  BY DEF StoreInv
<1> QED
  BY <1>1, StoreInvariant, PTL

-----------------------------------------------------------------------------

\* Every step of the store keeps the handles of rules it does not destroy.
LEMMA KeepsHandles ==
  ASSUME StoreInv, StoreStep, NEW o \in Objs, NEW n \in Names,
         grammar[o] # None, has_rule(grammar[o], n)
  PROVE  HandleKept(o, n)
<1> DEFINE p == grammar[o].m_rules[n]
<1>1. grammar \in [Objs -> Grammars \cup {None}] /\ grammar[o] \in Grammars
  BY GrammarType DEF StoreInv, StoreTypeOK
<1>2. SUFFICES ASSUME grammar'[o] # None,
                      ~ \E q \in Objs \ {o} : grammar'[o] = grammar[q]
               PROVE  \E q \in Objs : grammar'[q] # None /\ grammar'[q].m_rules[n] = p
  BY DEF HandleKept
<1>3. PICK q \in Objs :
        \/ Construct(q)
        \/ \E m \in Names : Access(q, m)
        \/ \E m \in Names : \E refs \in SUBSET Names : Assign(q, m, refs)
        \/ \E m \in Names \cup {None} : SetStart(q, m)
        \/ \E m \in Names : SetSkipper(q, m)
        \/ ClearSkipper(q)
        \/ \E r \in Objs : Move(q, r)
        \/ Destroy(q)
  BY DEF StoreStep
<1>4. CASE Construct(q)
  BY <1>1, <1>2, <1>4 DEF Construct
<1>5. ASSUME NEW m \in Names, Access(q, m)
      PROVE  grammar'[o].m_rules[n] = p
  <2>1. PICK r \in NTs : grammar' = [grammar EXCEPT ![q].m_rules[m] = r]
    BY <1>5 DEF Access
  <2>2. ~ (q = o /\ m = n)
    BY <1>5 DEF Access
  <2> QED
    BY <2>1, <2>2, <1>1 DEF Grammars
<1>6. CASE \E m \in Names : \E refs \in SUBSET Names : Assign(q, m, refs)
  BY <1>2, <1>6 DEF Assign
<1>7. CASE \E m \in Names \cup {None} : SetStart(q, m)
  BY <1>1, <1>2, <1>7 DEF SetStart, Grammars
<1>8. CASE ClearSkipper(q) \/ \E m \in Names : SetSkipper(q, m)
  BY <1>1, <1>2, <1>8 DEF ClearSkipper, SetSkipper, Grammars
<1>9. ASSUME NEW r \in Objs, Move(q, r)
      PROVE  \E s \in Objs : grammar'[s] # None /\ grammar'[s].m_rules[n] = p
  <2> DEFINE left == [NewGrammar EXCEPT !.m_skipper = grammar[q].m_skipper,
                                        !.moved_from = TRUE]
  <2>1. /\ q # r /\ grammar' = [grammar EXCEPT ![r] = grammar[q], ![q] = left]
    BY <1>9 DEF Move
  <2> HIDE DEF left
  <2>2. /\ grammar'[r] = grammar[q]
        /\ \A s \in Objs : s # q /\ s # r => grammar'[s] = grammar[s]
    BY <2>1, <1>1
  <2>3. r # o
    BY <2>1, <2>2, <1>2
  <2> QED
    BY <2>2, <2>3, <1>2
<1>10. CASE Destroy(q)
  BY <1>1, <1>2, <1>10 DEF Destroy
<1> QED
  BY <1>2, <1>3, <1>4, <1>5, <1>6, <1>7, <1>8, <1>9, <1>10

\* A Rule handle denotes its rule for as long as the Grammar, or the one it
\* was moved to, holds it.
THEOREM HandlesStayValidOK == Spec => HandlesStayValid
<1> DEFINE A == \A o \in Objs : \A n \in Names :
                  grammar[o] # None /\ has_rule(grammar[o], n) => HandleKept(o, n)
<1>1. StoreInv /\ [Next]_vars => [A]_store
  BY KeepsHandles, NextIsStoreStep
<1> QED
  BY <1>1, StoreInvariant, PTL DEF Spec, HandlesStayValid

\* Entered(seeds) lies in every closed set with the seeds.
LEMMA EnteredLeast ==
  ASSUME NEW seeds, NEW S \in SUBSET NTs, seeds \subseteq S, Closed(S)
  PROVE  Entered(seeds) \subseteq S
  BY DEF Entered

\* A parse enters rules of its own Grammar only, and none without a body when
\* undefined_rules() is empty.
THEOREM ParseStaysInsideOK == Spec => []ParseStaysInside
<1>1. ASSUME StoreInv PROVE ParseStaysInside
  <2> SUFFICES ASSUME NEW o \in Objs, Usable(o),
                      grammar[o].m_start \in rule_names(grammar[o])
               PROVE  \A p \in Entered({grammar[o].m_rules[grammar[o].m_start],
                                        grammar[o].m_skipper} \ {None}) :
                        /\ Owns(grammar[o], p)
                        /\ undefined_rules(grammar[o]) = {} => is_defined(p)
    BY DEF ParseStaysInside
  <2> DEFINE g == grammar[o]
             seeds == {g.m_rules[g.m_start], g.m_skipper} \ {None}
             S == {p \in NTs : Owns(g, p)}
  <2>1. /\ g # None /\ \A n \in Names : g.m_rules[n] \in NTs \cup {None}
        /\ \A n \in rule_names(g) : g.m_rules[n] \in NTs
                                     /\ heap[g.m_rules[n]] \in NonTerminals
        /\ rule_names(g) \subseteq Names
    BY <1>1, GrammarType DEF StoreInv, Usable
  <2>2. seeds \subseteq S
    <3>1. g.m_rules[g.m_start] \in S
      BY <2>1 DEF Owns
    <3>2. g.m_skipper # None => g.m_skipper \in S
      <4>1. g.m_skipper # None => Owns(g, g.m_skipper)
        BY <1>1 DEF StoreInv, SkipperLives
      <4> QED
        BY <4>1, <2>1 DEF Owns
    <3> QED
      BY <3>1, <3>2
  <2>3. ASSUME NEW p \in S, is_defined(p), NEW h \in heap[p].m_rule
        PROVE  h.nt \in S
    <3>1. PICK n \in Names : g.m_rules[n] = p
      BY DEF Owns
    <3>2. n \in defined_rules(g) /\ heap[p] \in NonTerminals
      BY <2>1, <2>3, <3>1, StoreAssumption DEF defined_rules, rule_names, has_rule
    <3>3. g.m_rules[h.name] = h.nt
      BY <1>1, <2>1, <3>1, <3>2 DEF StoreInv, NamesMatchPointers
    <3>4. h.name \in Names /\ h.nt \in NTs
      BY <3>2 DEF NonTerminals, Handles
    <3> QED
      BY <3>3, <3>4 DEF Owns
  <2>4. Entered(seeds) \subseteq S
    BY <2>2, <2>3, EnteredLeast DEF Closed
  <2>5. ASSUME NEW p \in S, undefined_rules(g) = {} PROVE is_defined(p)
    BY <2>1, <2>5, StoreAssumption DEF Owns, undefined_rules, rule_names, has_rule
  <2> QED
    BY <2>4, <2>5
<1> QED
  BY <1>1, StoreInvariant, PTL

-----------------------------------------------------------------------------

\* A listing of a set of names is a sequence with its elements.
LEMMA ListingOK ==
  ASSUME NEW S \in SUBSET Names, NEW s \in Listings(S)
  PROVE  s \in Seq(Names) /\ Listed(s) = S
<1>1. Cardinality(S) \in Nat
  BY NamesAssumption, FS_Subset, FS_CardinalityType
<1>2. s \in [1..Cardinality(S) -> S] /\ \A x \in S : \E i \in DOMAIN s : s[i] = x
  BY DEF Listings
<1>3. s \in Seq(S)
  BY <1>1, <1>2
<1>4. Listed(s) = S
  BY <1>2 DEF Listed
<1> QED
  BY <1>3, <1>4

\* Popping the stack and pushing a listing.
LEMMA StackOK ==
  ASSUME NEW q \in Seq(Names), q # <<>>, NEW s \in Seq(Names)
  PROVE  /\ Last(q) \in Names /\ Front(q) \in Seq(Names)
         /\ Front(q) \o s \in Seq(Names)
         /\ Listed(q) = Listed(Front(q)) \cup {Last(q)}
         /\ Listed(Front(q) \o s) = Listed(Front(q)) \cup Listed(s)
<1> DEFINE f == Front(q)
<1>1. /\ Len(q) \in Nat \ {0} /\ f \in Seq(Names) /\ Len(f) = Len(q) - 1
      /\ \A i \in 1..Len(f) : f[i] = q[i]
  <2>1. Len(q) \in Nat \ {0} /\ \A i \in 1..Len(q) : q[i] \in Names
    BY EmptySeq, ElementOfSeq
  <2>2. \A i \in 1..Len(q) - 1 : q[i] \in Names
    BY <2>1
  <2>3. f = SubSeq(q, 1, Len(q) - 1)
    BY DEF Front
  <2> HIDE DEF f
  <2>4. /\ f \in Seq(Names)
        /\ Len(f) = IF 1 <= Len(q) - 1 THEN (Len(q) - 1) - 1 + 1 ELSE 0
        /\ \A i \in 1..(Len(q) - 1) - 1 + 1 : f[i] = q[1 + i - 1]
    BY <2>1, <2>2, <2>3, SubSeqProperties
  <2>5. Len(f) = Len(q) - 1
    <3>1. \A n \in Nat \ {0} : (IF 1 <= n - 1 THEN (n - 1) - 1 + 1 ELSE 0) = n - 1
      OBVIOUS
    <3> QED
      BY <2>1, <2>4, <3>1
  <2>6. ASSUME NEW i \in 1..Len(f) PROVE f[i] = q[i]
    <3>1. i \in 1..(Len(q) - 1) - 1 + 1 /\ 1 + i - 1 = i
      BY <2>1, <2>5
    <3>2. f[i] = q[1 + i - 1]
      BY <3>1, <2>4
    <3> QED
      BY <3>1, <3>2
  <2> QED
    BY <2>1, <2>4, <2>5, <2>6
<1>2. Last(q) = q[Len(q)] /\ Last(q) \in Names
  BY <1>1 DEF Last
<1>3. DOMAIN q = 1..Len(q) /\ DOMAIN f = 1..Len(f) /\ DOMAIN s = 1..Len(s) /\ Len(s) \in Nat
  BY <1>1
<1> HIDE DEF f
<1>4. Listed(q) = Listed(f) \cup {Last(q)}
  <2>1. ASSUME NEW i \in 1..Len(q) PROVE q[i] \in Listed(f) \cup {Last(q)}
    <3>1. CASE i = Len(q)
      BY <3>1, <1>2
    <3>2. CASE i # Len(q)
      <4>1. i \in 1..Len(f)
        BY <3>2, <1>1
      <4> QED
        BY <4>1, <1>1, <1>3 DEF Listed
    <3> QED
      BY <3>1, <3>2
  <2>2. ASSUME NEW i \in 1..Len(f) PROVE f[i] \in Listed(q)
    <3>1. i \in 1..Len(q) /\ f[i] = q[i]
      BY <1>1
    <3> QED
      BY <3>1, <1>3 DEF Listed
  <2>3. Last(q) \in Listed(q)
    <3>1. Len(q) \in 1..Len(q)
      BY <1>1
    <3> QED
      BY <3>1, <1>2, <1>3 DEF Listed
  <2>4. Listed(q) \subseteq Listed(f) \cup {Last(q)}
    BY <2>1, <1>3 DEF Listed
  <2>5. Listed(f) \subseteq Listed(q)
    BY <2>2, <1>3 DEF Listed
  <2> QED
    BY <2>3, <2>4, <2>5
<1> DEFINE t == f \o s
<1>5. /\ t \in Seq(Names) /\ Len(t) = Len(f) + Len(s) /\ DOMAIN t = 1..Len(t)
      /\ \A i \in 1..Len(f) : t[i] = f[i]
      /\ \A i \in 1..Len(s) : t[Len(f) + i] = s[i]
  <2>1. /\ t \in Seq(Names) /\ Len(t) = Len(f) + Len(s)
        /\ \A i \in 1 .. Len(f) + Len(s) :
             t[i] = IF i <= Len(f) THEN f[i] ELSE s[i - Len(f)]
    BY <1>1, ConcatProperties
  <2> HIDE DEF t
  <2>2. DOMAIN t = 1..Len(t)
    BY <2>1, LenProperties
  <2>3. ASSUME NEW i \in 1..Len(f) PROVE t[i] = f[i]
    <3>1. i \in 1 .. Len(f) + Len(s) /\ i <= Len(f)
      BY <1>1, <1>3
    <3> QED
      BY <3>1, <2>1
  <2>4. ASSUME NEW i \in 1..Len(s) PROVE t[Len(f) + i] = s[i]
    <3>1. /\ Len(f) + i \in 1 .. Len(f) + Len(s) /\ ~ (Len(f) + i <= Len(f))
          /\ Len(f) + i - Len(f) = i
      BY <1>1, <1>3
    <3>2. t[Len(f) + i] = s[Len(f) + i - Len(f)]
      BY <3>1, <2>1
    <3> QED
      BY <3>1, <3>2
  <2> QED
    BY <2>1, <2>2, <2>3, <2>4
<1> HIDE DEF t
<1>6. Listed(t) = Listed(f) \cup Listed(s)
  <2>1. ASSUME NEW i \in 1..Len(t) PROVE t[i] \in Listed(f) \cup Listed(s)
    <3>1. CASE i <= Len(f)
      <4>1. i \in 1..Len(f)
        BY <3>1, <1>1, <1>5
      <4> QED
        BY <4>1, <1>3, <1>5 DEF Listed
    <3>2. CASE ~ (i <= Len(f))
      <4>1. i - Len(f) \in 1..Len(s) /\ Len(f) + (i - Len(f)) = i
        BY <3>2, <1>1, <1>3, <1>5
      <4>2. t[i] = s[i - Len(f)]
        BY <4>1, <1>5
      <4> QED
        BY <4>1, <4>2, <1>3 DEF Listed
    <3> QED
      BY <3>1, <3>2
  <2>2. ASSUME NEW i \in 1..Len(f) PROVE f[i] \in Listed(t)
    <3>1. i \in 1..Len(t) /\ t[i] = f[i]
      BY <1>1, <1>3, <1>5
    <3> QED
      BY <3>1, <1>5 DEF Listed
  <2>3. ASSUME NEW i \in 1..Len(s) PROVE s[i] \in Listed(t)
    <3>1. Len(f) + i \in 1..Len(t) /\ t[Len(f) + i] = s[i]
      BY <1>1, <1>3, <1>5
    <3> QED
      BY <3>1, <1>5 DEF Listed
  <2>4. Listed(t) \subseteq Listed(f) \cup Listed(s)
    BY <2>1, <1>5 DEF Listed
  <2>5. Listed(f) \subseteq Listed(t) /\ Listed(s) \subseteq Listed(t)
    BY <2>2, <2>3, <1>3 DEF Listed
  <2> QED
    BY <2>4, <2>5
<1> QED
  BY <1>1, <1>2, <1>4, <1>5, <1>6 DEF f, t

\* The names in a body are rules of the same Grammar.
LEMMA RefsOK ==
  ASSUME StoreInv, call.obj \in Objs, Usable(call.obj), NEW n \in Names
  PROVE  /\ collect_rule_refs(n) \subseteq rule_names(This)
         /\ rule_names(This) \subseteq Names
         /\ \A m \in collect_rule_refs(n) :
              \E h \in heap[This.m_rules[n]].m_rule :
                /\ h.name = m /\ h.nt = This.m_rules[m] /\ h.nt \in NTs
                /\ is_defined(This.m_rules[n])
         /\ n \in defined_rules(This) =>
              \A h \in heap[This.m_rules[n]].m_rule :
                /\ h.name \in collect_rule_refs(n) /\ h.nt = This.m_rules[h.name]
<1>1. /\ This # None /\ rule_names(This) \subseteq Names
      /\ defined_rules(This) \subseteq rule_names(This)
      /\ \A m \in rule_names(This) : heap[This.m_rules[m]] \in NonTerminals
  BY GrammarType DEF StoreInv, Usable, This
<1>2. ASSUME n \in defined_rules(This), NEW h \in heap[This.m_rules[n]].m_rule
      PROVE  /\ h.name \in Names /\ h.nt \in NTs /\ h.nt = This.m_rules[h.name]
             /\ h.name \in rule_names(This)
  <2>1. h.nt = This.m_rules[h.name]
    BY <1>1, <1>2 DEF StoreInv, NamesMatchPointers, This
  <2>2. h.name \in Names /\ h.nt \in NTs
    BY <1>1, <1>2 DEF NonTerminals, Handles
  <2> QED
    BY <2>1, <2>2, StoreAssumption DEF rule_names, has_rule
<1>3. n \in defined_rules(This) => is_defined(This.m_rules[n])
  BY DEF defined_rules
<1> QED
  BY <1>1, <1>2, <1>3 DEF collect_rule_refs

\* The NonTerminals a parse of the start rule may enter.
Live == Entered({This.m_rules[This.m_start]})

\* What holds in unreachable_rules: every rule seen can be entered, and what a
\* rule seen refers to is seen, or the rule is still on the stack.
Searching ==
  /\ This.m_start \in rule_names(This) /\ This.m_start \in call.seen
  /\ call.seen \subseteq rule_names(This) /\ Listed(call.queue) \subseteq call.seen
  /\ \A n \in call.seen :
       n \in Listed(call.queue) \/ collect_rule_refs(n) \subseteq call.seen
  /\ \A n \in call.seen : This.m_rules[n] \in Live

\* What holds in to_dot: the rules written are the visited ones, and no defined
\* rule is forgotten.
Drawing ==
  /\ Listed(call.dot) = call.seen /\ Distinct(call.dot)
  /\ call.seen \subseteq rule_names(This) /\ Listed(call.queue) \subseteq rule_names(This)
  /\ defined_rules(This) \subseteq call.seen \cup Listed(call.queue)

CallInv ==
  /\ CallTypeOK
  /\ call.pc = "unreachable_rules" => Searching
  /\ call.pc \in {"to_dot", "dot"} => Drawing
  /\ call.pc = "dot" => call.queue = <<>>
  /\ UnreachableAreDead

\* When the stack is empty, the rules seen are closed under references.
LEMMA SeenIsLive ==
  ASSUME StoreInv, call.obj \in Objs, Usable(call.obj), Searching, Listed(call.queue) = {}
  PROVE  \A n \in rule_names(This) : n \in call.seen <=> This.m_rules[n] \in Live
<1> DEFINE S == {This.m_rules[n] : n \in call.seen}
<1>1. /\ This # None /\ \A n \in rule_names(This) : This.m_rules[n] \in NTs /\ n \in Names
      /\ call.seen \subseteq rule_names(This)
  BY GrammarType DEF StoreInv, Usable, This, Searching
<1>2. {This.m_rules[This.m_start]} \subseteq S /\ S \subseteq NTs
  BY <1>1 DEF Searching
<1>3. ASSUME NEW p \in S, is_defined(p), NEW h \in heap[p].m_rule
      PROVE  h.nt \in S
  <2>1. PICK n \in call.seen : p = This.m_rules[n]
    OBVIOUS
  <2>2. n \in defined_rules(This) /\ n \in Names
    BY <2>1, <1>1, <1>3 DEF defined_rules
  <2>3. h.name \in collect_rule_refs(n) /\ h.nt = This.m_rules[h.name]
    BY <2>1, <2>2, RefsOK
  <2>4. h.name \in call.seen
    BY <2>1, <2>3 DEF Searching
  <2> QED
    BY <2>3, <2>4
<1>4. Live \subseteq S
  BY <1>2, <1>3, EnteredLeast DEF Live, Closed
<1>5. ASSUME NEW n \in rule_names(This), This.m_rules[n] \in S PROVE n \in call.seen
  <2>1. PICK m \in call.seen : This.m_rules[n] = This.m_rules[m]
    BY <1>5
  <2>2. n = m
    BY <2>1, <1>1 DEF StoreInv, SoleOwner, This, rule_names, has_rule
  <2> QED
    BY <2>2
<1> QED
  BY <1>4, <1>5 DEF Searching

\* What a live rule refers to is live.
LEMMA LiveIsClosed ==
  ASSUME StoreInv, call.obj \in Objs, Usable(call.obj), NEW n \in Names,
         This.m_rules[n] \in Live, NEW m \in collect_rule_refs(n)
  PROVE  This.m_rules[m] \in Live
<1>1. PICK h \in heap[This.m_rules[n]].m_rule :
        h.nt = This.m_rules[m] /\ h.nt \in NTs /\ is_defined(This.m_rules[n])
  BY RefsOK
<1>2. ASSUME NEW S \in SUBSET NTs, {This.m_rules[This.m_start]} \subseteq S, Closed(S)
      PROVE  h.nt \in S
  BY <1>1, <1>2 DEF Live, Entered, Closed
<1> QED
  BY <1>1, <1>2 DEF Live, Entered

\* An analysis leaves what it looks at alone.
LEMMA SameGrammar ==
  ASSUME UNCHANGED store, call'.obj = call.obj
  PROVE  /\ This' = This /\ Live' = Live
         /\ rule_names(This)' = rule_names(This)
         /\ defined_rules(This)' = defined_rules(This)
         /\ Usable(call.obj)' = Usable(call.obj)
         /\ \A n : collect_rule_refs(n)' = collect_rule_refs(n)
<1>1. grammar' = grammar /\ heap' = heap
  BY DEF store
<1> QED
  BY <1>1 DEF This, Live, Entered, Closed, is_defined, rule_names, has_rule,
              defined_rules, Usable, collect_rule_refs

\* The state in which an analysis begins has its type.
LEMMA BeganRecord ==
  ASSUME NEW o \in Objs \cup {None},
         NEW pc \in {"idle", "unreachable_rules", "dead", "to_dot"},
         NEW q \in Seq(Names), NEW s \in SUBSET Names
  PROVE  LET c == Began(pc, o, q, s)
         IN  /\ c \in Calls
             /\ c.pc = pc /\ c.obj = o /\ c.queue = q /\ c.seen = s
             /\ c.dead = {} /\ c.dot = <<>>
<1>1. <<>> \in Seq(Names)
  BY EmptySeq
<1> QED
  BY <1>1 DEF Began, Calls

\* The start of an analysis has the type of a call.
LEMMA CalledType ==
  ASSUME NEW o \in Objs, Usable(o), grammar' = grammar,
         NEW pc \in {"unreachable_rules", "dead", "to_dot"},
         NEW q \in Seq(Names), NEW s \in SUBSET Names,
         call' = Began(pc, o, q, s)
  PROVE  /\ CallTypeOK'
         /\ call'.pc = pc /\ call'.obj = o /\ call'.queue = q /\ call'.seen = s
         /\ call'.dead = {} /\ call'.dot = <<>> /\ This' = grammar[o]
<1>1. /\ call' \in Calls
      /\ call'.pc = pc /\ call'.obj = o /\ call'.queue = q /\ call'.seen = s
      /\ call'.dead = {} /\ call'.dot = <<>>
  BY BeganRecord
<1> QED
  BY <1>1 DEF CallTypeOK, Usable, This

\* unreachable_rules begins with the start rule reached.
LEMMA UnreachableCalledOK ==
  ASSUME StoreInv, CallInv, NEW o \in Objs, UnreachableCalled(o)
  PROVE  CallInv'
<1> DEFINE start == grammar[o].m_start
<1>0. /\ Usable(o) /\ grammar' = grammar /\ heap' = heap /\ grammar[o] \in Grammars
      /\ None \notin Names
  BY GrammarType, StoreAssumption DEF UnreachableCalled, store, StoreInv, Usable
<1>1. CASE start = None \/ ~ has_rule(grammar[o], start)
  <2>1. call' = Began("dead", o, <<>>, {})
    BY <1>1 DEF UnreachableCalled
  <2>2. <<>> \in Seq(Names) /\ {} \in SUBSET Names
    BY EmptySeq
  <2>3. CallTypeOK' /\ This' = grammar[o] /\ call'.pc = "dead"
    BY <2>1, <2>2, <1>0, CalledType
  <2>4. This'.m_start \notin rule_names(This)'
    BY <2>3, <1>0, <1>1 DEF rule_names, has_rule
  <2>5. call'.dead = {}
    BY <2>1, <2>2, <1>0, CalledType
  <2>6. UnreachableAreDead'
    BY <2>4, <2>5 DEF UnreachableAreDead
  <2> QED
    BY <2>3, <2>6 DEF CallInv
<1>2. CASE ~ (start = None \/ ~ has_rule(grammar[o], start))
  <2>1. call' = Began("unreachable_rules", o, <<start>>, {start})
    BY <1>2 DEF UnreachableCalled
  <2>2. /\ start \in Names /\ start \in rule_names(grammar[o])
        /\ <<start>> \in Seq(Names) /\ {start} \in SUBSET Names
    BY <1>0, <1>2 DEF Grammars, rule_names
  <2> HIDE DEF start
  <2>3. /\ CallTypeOK' /\ call'.pc = "unreachable_rules" /\ call'.obj = o
        /\ This' = grammar[o] /\ call'.queue = <<start>> /\ call'.seen = {start}
    BY <2>1, <2>2, <1>0, CalledType
  <2>5. Listed(<<start>>) = {start}
    BY DEF Listed
  <2>6. (This.m_rules[This.m_start] \in Live)'
    <3>1. grammar[o].m_rules[start] \in NTs
      BY <2>2, <1>0, GrammarType DEF StoreInv, Usable
    <3> QED
      BY <3>1, <2>3, <1>0 DEF Live, Entered, start
  <2>7. Searching'
    BY <2>2, <2>3, <2>5, <2>6, <1>0 DEF Searching, rule_names, has_rule, start
  <2>8. UnreachableAreDead'
    BY <2>3 DEF UnreachableAreDead
  <2> QED
    BY <2>3, <2>7, <2>8 DEF CallInv
<1> QED
  BY <1>1, <1>2

\* An iteration of unreachable_rules keeps what is reached closed, but for the stack.
LEMMA ReachableVisitedOK ==
  ASSUME StoreInv, CallInv, ReachableVisited
  PROVE  CallInv'
<1> DEFINE n == Last(call.queue)
           new == collect_rule_refs(n) \ call.seen
<1>1. PICK s \in Listings(new) :
        call' = [call EXCEPT !.queue = Front(@) \o s, !.seen = @ \cup new]
  BY DEF ReachableVisited
<1>2. /\ call \in Calls /\ call.obj \in Objs /\ Usable(call.obj) /\ Searching
      /\ call.pc = "unreachable_rules" /\ call.queue \in Seq(Names)
      /\ call.queue # <<>> /\ UNCHANGED store
  BY DEF ReachableVisited, CallInv, CallTypeOK, Calls
<1>3. /\ call'.pc = call.pc /\ call'.obj = call.obj
      /\ call'.queue = Front(call.queue) \o s /\ call'.seen = call.seen \cup new
  BY <1>1, <1>2 DEF Calls
<1>4. n \in Names
  BY <1>2, StackOK
<1>5. new \subseteq rule_names(This) /\ rule_names(This) \subseteq Names
  BY <1>2, <1>4, RefsOK
<1>6. s \in Seq(Names) /\ Listed(s) = new
  BY <1>5, ListingOK
<1>7. /\ call'.queue \in Seq(Names)
      /\ Listed(call.queue) = Listed(Front(call.queue)) \cup {n}
      /\ Listed(call'.queue) = Listed(Front(call.queue)) \cup new
  BY <1>2, <1>3, <1>6, StackOK
<1>8. CallTypeOK'
  <2>1. call' \in Calls
    BY <1>1, <1>2, <1>5, <1>3, <1>7 DEF Calls
  <2> QED
    BY <2>1, <1>2, <1>3, SameGrammar DEF CallTypeOK
<1>9. \A m \in new : This.m_rules[m] \in Live
  <2>1. n \in call.seen
    BY <1>2, <1>7 DEF Searching
  <2> QED
    BY <2>1, <1>2, <1>4, LiveIsClosed DEF Searching
<1>10. \A m \in call'.seen : m \in Listed(call'.queue) \/ collect_rule_refs(m) \subseteq call'.seen
  BY <1>2, <1>3, <1>7 DEF Searching
<1>11. Searching'
  <2> HIDE DEF new, n
  <2> QED
    BY <1>2, <1>3, <1>5, <1>7, <1>9, <1>10, SameGrammar DEF Searching
<1>12. UnreachableAreDead'
  BY <1>2, <1>3 DEF UnreachableAreDead
<1> QED
  BY <1>2, <1>3, <1>8, <1>11, <1>12 DEF CallInv

\* With the stack empty, what unreachable_rules returns is what is not reached.
LEMMA UnreachableReturnsOK ==
  ASSUME StoreInv, CallInv, UnreachableReturns
  PROVE  CallInv'
<1>1. /\ call \in Calls /\ call.obj \in Objs /\ Usable(call.obj) /\ Searching
      /\ Listed(call.queue) = {} /\ UNCHANGED store
      /\ call' = [call EXCEPT !.pc = "dead", !.dead = defined_rules(This) \ call.seen]
  BY DEF UnreachableReturns, CallInv, CallTypeOK, Listed
<1>2. /\ call'.pc = "dead" /\ call'.obj = call.obj
      /\ call'.dead = defined_rules(This) \ call.seen
  BY <1>1 DEF Calls
<1>3. defined_rules(This) \subseteq rule_names(This) /\ rule_names(This) \subseteq Names
  BY <1>1, GrammarType DEF StoreInv, Usable, This
<1>4. CallTypeOK'
  <2>1. call' \in Calls
    BY <1>1, <1>3 DEF Calls
  <2> QED
    BY <2>1, <1>1, <1>2, SameGrammar DEF CallTypeOK
<1>5. /\ call'.dead = {n \in defined_rules(This) : This.m_rules[n] \notin Live}
      /\ This.m_start \in rule_names(This)
  BY <1>1, <1>2, <1>3, SeenIsLive DEF Searching
<1>6. UnreachableAreDead'
  <2>1. /\ This' = This /\ Live' = Live
        /\ defined_rules(This)' = defined_rules(This)
        /\ rule_names(This)' = rule_names(This)
    BY <1>1, <1>2, SameGrammar
  <2>2. Live' = Entered({This.m_rules[This.m_start]})'
    BY DEF Live
  <2> QED
    BY <2>1, <2>2, <1>5 DEF UnreachableAreDead
<1> QED
  BY <1>2, <1>4, <1>6 DEF CallInv

\* to_dot begins with every defined rule on the stack.
LEMMA ToDotCalledOK ==
  ASSUME StoreInv, CallInv, NEW o \in Objs, ToDotCalled(o)
  PROVE  CallInv'
<1>1. PICK s \in Listings(defined_rules(grammar[o])) :
        call' = Began("to_dot", o, s, {})
  BY DEF ToDotCalled
<1>2. /\ Usable(o) /\ grammar' = grammar /\ heap' = heap
      /\ defined_rules(grammar[o]) \subseteq rule_names(grammar[o])
      /\ rule_names(grammar[o]) \subseteq Names
  BY GrammarType DEF ToDotCalled, store, StoreInv, Usable
<1>3. s \in Seq(Names) /\ Listed(s) = defined_rules(grammar[o])
  BY <1>2, ListingOK
<1>4. {} \in SUBSET Names
  OBVIOUS
<1>5. /\ CallTypeOK' /\ call'.pc = "to_dot" /\ call'.obj = o /\ call'.queue = s
      /\ call'.seen = {} /\ call'.dot = <<>> /\ This' = grammar[o]
  BY <1>1, <1>2, <1>3, <1>4, CalledType
<1>6. Listed(<<>>) = {} /\ Distinct(<<>>)
  BY DEF Listed, Distinct
<1>7. Drawing'
  BY <1>2, <1>3, <1>5, <1>6 DEF Drawing, defined_rules, rule_names, has_rule, is_defined
<1>8. UnreachableAreDead'
  BY <1>5 DEF UnreachableAreDead
<1> QED
  BY <1>5, <1>7, <1>8 DEF CallInv

\* A rule popped a second time changes nothing else.
LEMMA DotSkippedOK ==
  ASSUME StoreInv, CallInv, DotSkipped
  PROVE  CallInv'
<1> DEFINE n == Last(call.queue)
<1>1. /\ call \in Calls /\ call.obj \in Objs /\ Usable(call.obj) /\ Drawing
      /\ call.pc = "to_dot" /\ call.queue \in Seq(Names)
      /\ call.queue # <<>> /\ UNCHANGED store /\ n \in call.seen
      /\ call' = [call EXCEPT !.queue = Front(@)]
  BY DEF DotSkipped, CallInv, CallTypeOK, Calls
<1>2. /\ call'.pc = call.pc /\ call'.obj = call.obj /\ call'.queue = Front(call.queue)
      /\ call'.seen = call.seen /\ call'.dot = call.dot
  BY <1>1 DEF Calls
<1>3. /\ Front(call.queue) \in Seq(Names)
      /\ Listed(call.queue) = Listed(Front(call.queue)) \cup {n}
  BY <1>1, StackOK, EmptySeq
<1>4. CallTypeOK'
  <2>1. call' \in Calls
    BY <1>1, <1>3 DEF Calls
  <2> QED
    BY <2>1, <1>1, <1>2, SameGrammar DEF CallTypeOK
<1>5. Drawing'
  <2> HIDE DEF n
  <2> QED
    BY <1>1, <1>2, <1>3, SameGrammar DEF Drawing
<1>6. UnreachableAreDead'
  BY <1>1, <1>2 DEF UnreachableAreDead
<1> QED
  BY <1>1, <1>2, <1>4, <1>5, <1>6 DEF CallInv

\* Writing one more rule keeps the rules written distinct.
LEMMA AppendOK ==
  ASSUME NEW d \in Seq(Names), Distinct(d), NEW n \in Names, n \notin Listed(d)
  PROVE  /\ Append(d, n) \in Seq(Names) /\ Distinct(Append(d, n))
         /\ Listed(Append(d, n)) = Listed(d) \cup {n}
<1> DEFINE e == Append(d, n)
<1>1. /\ e \in Seq(Names) /\ Len(d) \in Nat /\ Len(e) = Len(d) + 1
      /\ DOMAIN e = 1..Len(d) + 1 /\ DOMAIN d = 1..Len(d)
      /\ e[Len(d) + 1] = n /\ \A i \in 1..Len(d) : e[i] = d[i]
  OBVIOUS
<1> HIDE DEF e
<1>2. \A i \in 1..Len(d) + 1 : i \in 1..Len(d) \/ i = Len(d) + 1
  BY <1>1
<1>3. Listed(e) = Listed(d) \cup {n}
  <2>1. ASSUME NEW i \in 1..Len(d) + 1 PROVE e[i] \in Listed(d) \cup {n}
    BY <1>1, <1>2 DEF Listed
  <2>2. ASSUME NEW i \in 1..Len(d) PROVE d[i] \in Listed(e)
    <3>1. i \in 1..Len(d) + 1 /\ e[i] = d[i]
      BY <1>1
    <3> QED
      BY <3>1, <1>1 DEF Listed
  <2>3. n \in Listed(e)
    <3>1. Len(d) + 1 \in 1..Len(d) + 1
      BY <1>1
    <3> QED
      BY <3>1, <1>1 DEF Listed
  <2>4. Listed(e) \subseteq Listed(d) \cup {n}
    BY <2>1, <1>1 DEF Listed
  <2>5. Listed(d) \subseteq Listed(e)
    BY <2>2, <1>1 DEF Listed
  <2> QED
    BY <2>3, <2>4, <2>5
<1>4. Distinct(e)
  <2> SUFFICES ASSUME NEW i \in 1..Len(d) + 1, NEW j \in 1..Len(d) + 1, e[i] = e[j]
               PROVE  i = j
    BY <1>1 DEF Distinct
  <2>1. \A k \in 1..Len(d) : d[k] # n
    BY <1>1 DEF Listed
  <2> QED
    BY <2>1, <1>1, <1>2 DEF Distinct
<1> QED
  BY <1>1, <1>3, <1>4 DEF e

\* A rule visited is written once and marked.
LEMMA DotVisitedOK ==
  ASSUME StoreInv, CallInv, DotVisited
  PROVE  CallInv'
<1> DEFINE n == Last(call.queue)
           refs == collect_rule_refs(n) \cap rule_names(This)
<1>1. /\ call \in Calls /\ call.obj \in Objs /\ Usable(call.obj) /\ Drawing
      /\ call.pc = "to_dot" /\ call.queue \in Seq(Names) /\ call.dot \in Seq(Names)
      /\ call.queue # <<>> /\ UNCHANGED store /\ n \notin call.seen
  BY DEF DotVisited, CallInv, CallTypeOK, Calls
<1>2. PICK s \in Listings(refs) :
        call' = [call EXCEPT !.queue = Front(@) \o s, !.seen = @ \cup {n},
                             !.dot = Append(@, n)]
  BY DEF DotVisited
<1>3. /\ call'.pc = call.pc /\ call'.obj = call.obj
      /\ call'.queue = Front(call.queue) \o s /\ call'.seen = call.seen \cup {n}
      /\ call'.dot = Append(call.dot, n)
  BY <1>1, <1>2 DEF Calls
<1>4. /\ n \in Names /\ rule_names(This) \subseteq Names
      /\ refs \subseteq rule_names(This)
  BY <1>1, StackOK, EmptySeq, RefsOK
<1>5. s \in Seq(Names) /\ Listed(s) = refs
  BY <1>4, ListingOK
<1>6. /\ call'.queue \in Seq(Names)
      /\ Listed(call.queue) = Listed(Front(call.queue)) \cup {n}
      /\ Listed(call'.queue) = Listed(Front(call.queue)) \cup refs
  BY <1>1, <1>3, <1>5, StackOK
<1>7. /\ call'.dot \in Seq(Names) /\ Distinct(call'.dot)
      /\ Listed(call'.dot) = Listed(call.dot) \cup {n}
  BY <1>1, <1>3, <1>4, AppendOK DEF Drawing
<1>8. CallTypeOK'
  <2>1. call' \in Calls
    BY <1>1, <1>2, <1>3, <1>4, <1>6, <1>7 DEF Calls
  <2> QED
    BY <2>1, <1>1, <1>3, SameGrammar DEF CallTypeOK
<1>9. Distinct(call.dot)'
  BY <1>7 DEF Distinct
<1>10. Drawing'
  <2> HIDE DEF n, refs
  <2> QED
    BY <1>1, <1>3, <1>4, <1>6, <1>7, <1>9, SameGrammar DEF Drawing
<1>11. UnreachableAreDead'
  BY <1>1, <1>3 DEF UnreachableAreDead
<1> QED
  BY <1>1, <1>3, <1>8, <1>10, <1>11 DEF CallInv

\* With the stack empty, to_dot has written every defined rule.
LEMMA DotReturnsOK ==
  ASSUME StoreInv, CallInv, DotReturns
  PROVE  CallInv'
<1>1. /\ call \in Calls /\ call.obj \in Objs /\ Usable(call.obj) /\ Drawing
      /\ call.queue = <<>> /\ UNCHANGED store /\ call' = [call EXCEPT !.pc = "dot"]
  BY DEF DotReturns, CallInv, CallTypeOK
<1>2. /\ call'.pc = "dot" /\ call'.obj = call.obj /\ call'.queue = call.queue
      /\ call'.seen = call.seen /\ call'.dot = call.dot /\ call' \in Calls
  BY <1>1 DEF Calls
<1>3. CallTypeOK'
  BY <1>1, <1>2, SameGrammar DEF CallTypeOK
<1>4. Drawing'
  BY <1>1, <1>2, SameGrammar DEF Drawing
<1>5. UnreachableAreDead'
  BY <1>2 DEF UnreachableAreDead
<1> QED
  BY <1>1, <1>2, <1>3, <1>4, <1>5 DEF CallInv

\* With no analysis under way there is nothing to say.
LEMMA IdleOK ==
  ASSUME call = Idle
  PROVE  CallInv
<1>1. <<>> \in Seq(Names) /\ {} \in SUBSET Names
  BY EmptySeq
<1>2. call \in Calls /\ call.pc = "idle"
  <2>1. None \in Objs \cup {None}
    OBVIOUS
  <2>2. Idle \in Calls /\ Idle.pc = "idle"
    BY <1>1, <2>1 DEF Idle, Began, Calls
  <2> QED
    BY <2>2
<1>3. CallTypeOK
  BY <1>2 DEF CallTypeOK
<1> QED
  BY <1>2, <1>3 DEF CallInv, UnreachableAreDead

\* Every step keeps the invariant of the analyses.
LEMMA CallInvStep ==
  ASSUME StoreInv, CallInv, [Next]_vars
  PROVE  CallInv'
<1>1. CASE call = Idle /\ StoreStep /\ UNCHANGED call
  <2>1. (call = Idle)'
    BY <1>1 DEF Idle, Began
  <2> QED
    BY <2>1, IdleOK, PTL
<1>2. ASSUME NEW o \in Objs, UnreachableCalled(o) \/ ToDotCalled(o) PROVE CallInv'
  BY <1>2, UnreachableCalledOK, ToDotCalledOK
<1>3. CASE AnalysisStep
  BY <1>3, ReachableVisitedOK, UnreachableReturnsOK, DotSkippedOK, DotVisitedOK,
     DotReturnsOK DEF AnalysisStep
<1>4. CASE Forgotten
  <2>1. (call = Idle)'
    BY <1>4 DEF Forgotten, Idle, Began
  <2> QED
    BY <2>1, IdleOK, PTL
<1>5. CASE UNCHANGED vars
  <2>1. UNCHANGED store /\ call' = call
    BY <1>5 DEF vars, store
  <2>2. /\ CallTypeOK' /\ (Searching => Searching') /\ (Drawing => Drawing')
    BY <2>1, SameGrammar DEF CallInv, CallTypeOK, Searching, Drawing, Distinct
  <2>3. UnreachableAreDead'
    <3>1. /\ This' = This /\ Live' = Live /\ rule_names(This)' = rule_names(This)
          /\ defined_rules(This)' = defined_rules(This)
      BY <2>1, SameGrammar
    <3> QED
      BY <2>1, <3>1 DEF CallInv, UnreachableAreDead, Live
  <2> QED
    BY <2>1, <2>2, <2>3 DEF CallInv
<1> QED
  BY <1>1, <1>2, <1>3, <1>4, <1>5 DEF Next

\* The invariant of the analyses, in every behaviour.
LEMMA CallInvariant == Spec => []CallInv
<1>1. AnalysisInit => CallInv
  BY IdleOK DEF AnalysisInit
<1>2. StoreInv /\ CallInv /\ [Next]_vars => CallInv'
  BY CallInvStep
<1> QED
  BY <1>1, <1>2, StoreInvariant, PTL DEF Spec

\* An analysis under way keeps its types and the Grammar it was called on.
THEOREM CallTyped == Spec => []CallTypeOK
<1>1. CallInv => CallTypeOK
  BY DEF CallInv
<1> QED
  BY <1>1, CallInvariant, PTL

\* unreachable_rules answers exactly the defined rules that no parse of the
\* start rule can enter, for every grammar.
THEOREM UnreachableAreDeadOK == Spec => []UnreachableAreDead
<1>1. CallInv => UnreachableAreDead
  BY DEF CallInv
<1> QED
  BY <1>1, CallInvariant, PTL

\* to_dot writes the edges of every defined rule, of no rule twice.
THEOREM EdgesOnceOK == Spec => []EdgesOnce
<1>1. CallInv => EdgesOnce
  <2>1. Listed(<<>>) = {}
    BY DEF Listed
  <2> QED
    BY <2>1 DEF CallInv, EdgesOnce, Drawing
<1> QED
  BY <1>1, CallInvariant, PTL
=============================================================================
