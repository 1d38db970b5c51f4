------------------------- MODULE ErrorTrackerProofs -------------------------
(***************************************************************************)
(* The error tracker implements FailureLog, for every input, every way an  *)
(* expression is shown, and any number of failures.                        *)
(***************************************************************************)
EXTENDS ErrorTracker, SequenceTheorems, FiniteSetTheorems, TLAPS

AllItems == Range(Shown)

\* The vector is empty as long as there is no error.
Inv ==
  /\ m_furthest_failure_pos \in Nat
  /\ m_expected \in Seq(AllItems)
  /\ m_has_error \in BOOLEAN
  /\ m_has_error <=> m_expected # <<>>
  /\ charSize \in CharSizes

\* The binary search answers a place in the vector or its end.
LEMMA LowerBoundRange ==
  ASSUME NEW T, NEW s \in Seq(T), NEW x
  PROVE  lower_bound(s, x) \in 1..(Len(s) + 1)
<1> DEFINE less == {k \in 1..Len(s) : Before(s[k], x)}
<1>1. Len(s) \in Nat
  BY LenProperties
<1>2. IsFiniteSet(1..Len(s)) /\ Cardinality(1..Len(s)) = Len(s)
  BY <1>1, FS_Interval
<1>3. /\ IsFiniteSet(less) /\ Cardinality(less) <= Len(s)
  BY <1>2, FS_Subset
<1>4. Cardinality(less) \in Nat
  BY <1>3, FS_CardinalityType
<1> QED
  BY <1>1, <1>3, <1>4 DEF lower_bound

\* Putting an item in at a place moves those from there on up.
LEMMA InsertAtPlaces ==
  ASSUME NEW T, NEW s \in Seq(T), NEW x \in T, NEW i \in 1..(Len(s) + 1),
         NEW d, d = InsertAt(s, i, x)
  PROVE  /\ d \in Seq(T) /\ Len(d) = Len(s) + 1
         /\ \A k \in 1..(i - 1) : d[k] = s[k]
         /\ d[i] = x
         /\ \A k \in (i + 1)..(Len(s) + 1) : d[k] = s[k - 1]
<1> DEFINE a == SubSeq(s, 1, i - 1)
           b == SubSeq(s, i, Len(s))
<1>0. Len(s) \in Nat /\ \A k \in 1..Len(s) : s[k] \in T
  BY LenProperties, ElementOfSeq
<1>1. /\ a \in Seq(T) /\ Len(a) = i - 1 /\ \A k \in 1..(i - 1) : a[k] = s[k]
  BY <1>0
<1>2. /\ b \in Seq(T) /\ Len(b) = Len(s) + 1 - i
      /\ \A k \in 1..(Len(s) + 1 - i) : b[k] = s[i + k - 1]
  BY <1>0
<1> DEFINE c == a \o <<x>>
           e == c \o b
<1> HIDE DEF a, b
<1>3. <<x>> \in Seq(T) /\ Len(<<x>>) = 1 /\ <<x>>[1] = x
  OBVIOUS
<1>4. /\ c \in Seq(T) /\ Len(c) = i
      /\ \A k \in 1..(i - 1) : c[k] = s[k]
      /\ c[i] = x
  BY <1>0, <1>1, <1>3
<1> HIDE DEF c
<1>5. /\ e \in Seq(T) /\ Len(e) = Len(s) + 1
      /\ \A k \in 1..i : e[k] = c[k]
      /\ \A k \in (i + 1)..(Len(s) + 1) : e[k] = b[k - i]
  BY <1>0, <1>2, <1>4
<1>6. d = e
  BY DEF InsertAt, a, b, c
<1> HIDE DEF e
<1> QED
  BY <1>0, <1>2, <1>4, <1>5, <1>6

\* ... and adds it to them.
LEMMA InsertAtItems ==
  ASSUME NEW T, NEW s \in Seq(T), NEW x \in T, NEW i \in 1..(Len(s) + 1)
  PROVE  /\ InsertAt(s, i, x) \in Seq(T) /\ InsertAt(s, i, x) # <<>>
         /\ ToSet(InsertAt(s, i, x)) = ToSet(s) \cup {x}
<1> DEFINE d == InsertAt(s, i, x)
<1> HIDE DEF d
<1>0. Len(s) \in Nat
  BY LenProperties
<1>5. d \in Seq(T) /\ Len(d) = Len(s) + 1
  BY InsertAtPlaces DEF d
<1>6. /\ \A k \in 1..(i - 1) : d[k] = s[k]
      /\ d[i] = x
      /\ \A k \in (i + 1)..(Len(s) + 1) : d[k] = s[k - 1]
  BY InsertAtPlaces DEF d
<1>7. DOMAIN d = 1..(Len(s) + 1) /\ DOMAIN s = 1..Len(s)
  BY <1>0, <1>5, LenProperties
<1>8. ToSet(d) \subseteq ToSet(s) \cup {x}
  <2> SUFFICES ASSUME NEW k \in 1..(Len(s) + 1) PROVE d[k] \in ToSet(s) \cup {x}
    BY <1>7 DEF ToSet
  <2>1. CASE k < i
    BY <2>1, <1>0, <1>6, <1>7 DEF ToSet
  <2>2. CASE k = i
    BY <2>2, <1>6
  <2>3. CASE k > i
    <3>1. k \in (i + 1)..(Len(s) + 1) /\ k - 1 \in 1..Len(s)
      BY <2>3, <1>0
    <3> QED
      BY <3>1, <1>6, <1>7 DEF ToSet
  <2> QED
    BY <2>1, <2>2, <2>3, <1>0
<1>9. ToSet(s) \cup {x} \subseteq ToSet(d)
  <2>1. x \in ToSet(d)
    BY <1>0, <1>6, <1>7 DEF ToSet
  <2>2. ASSUME NEW k \in 1..Len(s) PROVE s[k] \in ToSet(d)
    <3>1. CASE k < i
      <4>1. k \in 1..(i - 1) /\ k \in 1..(Len(s) + 1)
        BY <3>1, <1>0
      <4> QED
        BY <4>1, <1>6, <1>7 DEF ToSet
    <3>2. CASE k >= i
      <4>1. k + 1 \in (i + 1)..(Len(s) + 1) /\ k + 1 \in 1..(Len(s) + 1)
            /\ (k + 1) - 1 = k
        BY <3>2, <1>0
      <4>2. d[k + 1] = s[k]
        BY <4>1, <1>6
      <4> QED
        BY <4>1, <4>2, <1>7 DEF ToSet
    <3> QED
      BY <3>1, <3>2, <1>0
  <2> QED
    BY <2>1, <2>2, <1>7 DEF ToSet
<1>10. d # <<>>
  BY <1>0, <1>5
<1> QED
  BY <1>5, <1>8, <1>9, <1>10 DEF d

\* insert adds the item, once or not at all.
LEMMA InsertItems ==
  ASSUME NEW T, NEW s \in Seq(T), NEW x \in T
  PROVE  /\ insert(s, x) \in Seq(T) /\ insert(s, x) # <<>>
         /\ ToSet(insert(s, x)) = ToSet(s) \cup {x}
<1>1. lower_bound(s, x) \in 1..(Len(s) + 1) /\ Len(s) \in Nat
  BY LowerBoundRange, LenProperties
<1> DEFINE it == lower_bound(s, x)
<1> HIDE DEF it
<1>2. CASE it <= Len(s) /\ s[it] = x
  <2>1. insert(s, x) = s
    BY <1>2 DEF insert, it
  <2>2. it \in 1..Len(s) /\ DOMAIN s = 1..Len(s)
    BY <1>1, <1>2, LenProperties DEF it
  <2>3. x \in ToSet(s)
    BY <1>2, <2>2 DEF ToSet
  <2>4. s # <<>>
    BY <2>2
  <2> QED
    BY <2>1, <2>3, <2>4
<1>3. CASE ~ (it <= Len(s) /\ s[it] = x)
  <2>1. insert(s, x) = InsertAt(s, it, x)
    BY <1>3 DEF insert, it
  <2> QED
    BY <2>1, <1>1, InsertAtItems DEF it
<1> QED
  BY <1>2, <1>3

-----------------------------------------------------------------------------

\* A new Context, with an empty tracker, satisfies the invariant.
LEMMA InitInv == Init => Inv
<1> SUFFICES ASSUME Init PROVE Inv
  OBVIOUS
<1>1. m_expected \in Seq(AllItems)
  BY EmptySeq DEF Init
<1> QED
  BY <1>1 DEF Init, Inv

\* The first item of a cleared tracker is its only item.
LEMMA EmptyInsert ==
  ASSUME NEW x \in AllItems
  PROVE  insert(<<>>, x) \in Seq(AllItems) /\ insert(<<>>, x) # <<>>
         /\ ToSet(insert(<<>>, x)) = {x}
<1>1. <<>> \in Seq(AllItems)
  BY EmptySeq
<1>2. ToSet(<<>>) = {}
  BY DEF ToSet
<1>3. \A s \in Seq(AllItems) :
        /\ insert(s, x) \in Seq(AllItems) /\ insert(s, x) # <<>>
        /\ ToSet(insert(s, x)) = ToSet(s) \cup {x}
  BY InsertItems
<1> HIDE DEF AllItems
<1> QED
  BY <1>1, <1>2, <1>3

\* A recorded failure keeps the tracker an ordinary, non-empty sequence of items.
LEMMA KeepInv ==
  ASSUME Inv, NEW pos \in Nat, NEW x \in AllItems, Keep(pos, x)
  PROVE  /\ m_furthest_failure_pos' \in Nat
         /\ m_expected' \in Seq(AllItems)
         /\ m_has_error' \in BOOLEAN
         /\ m_has_error' <=> m_expected' # <<>>
<1>1. CASE /\ ~ m_has_error \/ pos > m_furthest_failure_pos
           /\ m_furthest_failure_pos' = pos
           /\ m_expected' = insert(<<>>, x)
           /\ m_has_error' = TRUE
  BY <1>1, EmptyInsert DEF Inv
<1>2. CASE /\ m_has_error /\ pos = m_furthest_failure_pos
           /\ m_expected' = insert(m_expected, x)
           /\ UNCHANGED <<m_furthest_failure_pos, m_has_error>>
  BY <1>2, InsertItems DEF Inv
<1>3. CASE UNCHANGED members
  BY <1>3 DEF Inv, members
<1> QED
  BY <1>1, <1>2, <1>3 DEF Keep

\* What a failure is shown as is one of the items of the log.
LEMMA ShownItems ==
  ASSUME Inv, NEW f \in Failing
  PROVE  Shown[<<f, charSize>>] \in AllItems
  BY DEF Inv, AllItems, Range, Shown

\* record_failure and take_error keep the invariant.
LEMMA NextInv == Inv /\ [Next]_vars => Inv'
<1> SUFFICES ASSUME Inv, [Next]_vars PROVE Inv'
  OBVIOUS
<1>1. ASSUME NEW pos \in Inputs, NEW f \in Failing, record_failure(pos, f) PROVE Inv'
  <2>1. Keep(pos, Shown[<<f, charSize>>]) /\ charSize' = charSize /\ pos \in Nat
    BY <1>1, TrackerAssumption DEF record_failure
  <2> QED
    BY <2>1, ShownItems, KeepInv DEF Inv, AllItems
<1>2. CASE take_error
  <2>1. m_expected' \in Seq(AllItems)
    BY <1>2, EmptySeq DEF take_error
  <2> QED
    BY <1>2, <2>1 DEF take_error, Inv, AllItems
<1>3. CASE UNCHANGED vars
  BY <1>3 DEF vars, members, Inv, AllItems
<1> QED
  BY <1>1, <1>2, <1>3 DEF Next

-----------------------------------------------------------------------------
(* The refinement.                                                         *)

\* A tracker has failures exactly when it has an error.
LEMMA NoFailures == AsFailures(nullopt) = {}
  BY DEF AsFailures, nullopt, ToSet

\* The failures of some items at a position.
At(p, S) == {[pos |-> p, item |-> y] : y \in S}
One(q, x) == {[pos |-> q, item |-> x]}

\* The furthest of some failures at p and one at q.
LEMMA FurthestOf ==
  ASSUME NEW p \in Nat, NEW q \in Nat, NEW S, NEW x
  PROVE  /\ q > p \/ S = {} => Log!Furthest(At(p, S) \cup One(q, x)) = One(q, x)
         /\ q = p => Log!Furthest(At(p, S) \cup One(q, x)) = At(p, S) \cup One(p, x)
         /\ q < p /\ S # {} => Log!Furthest(At(p, S) \cup One(q, x)) = At(p, S)
<1> DEFINE F == At(p, S)
           N == One(q, x)
           n == [pos |-> q, item |-> x]
           M == Log!Furthest(F \cup N)
<1>1. n.pos = q /\ N = {n}
  BY DEF One
<1>2. \A f \in F : f.pos = p
  BY DEF At
<1>3. (S = {} => F = {}) /\ (S # {} => F # {})
  BY DEF At
<1>4. q = p => At(p, S) \cup One(p, x) = F \cup N
  OBVIOUS
<1>5. M = {f \in F \cup {n} : \A g \in F \cup {n} : g.pos <= f.pos}
  BY <1>1 DEF Log!Furthest
<1> HIDE DEF n, F, N, M
<1>6. ASSUME q > p \/ S = {} PROVE M = N
  <2>1. n \in M
    BY <1>1, <1>2, <1>3, <1>5, <1>6
  <2>2. ASSUME NEW f \in M PROVE f = n
    BY <1>1, <1>2, <1>3, <1>5, <1>6
  <2> QED
    BY <2>1, <2>2, <1>1
<1>7. ASSUME q = p PROVE M = F \cup N
  BY <1>1, <1>2, <1>5, <1>7
<1>8. ASSUME q < p, S # {} PROVE M = F
  <2>1. ASSUME NEW f \in F PROVE f \in M
    BY <2>1, <1>1, <1>2, <1>5, <1>8
  <2>2. n \notin M
    BY <1>1, <1>2, <1>3, <1>5, <1>8
  <2> QED
    BY <2>1, <2>2, <1>5
<1> QED
  BY <1>4, <1>6, <1>7, <1>8 DEF F, N, M

\* record_failure is the abstract Record: the furthest failures are kept, all of them.
LEMMA KeepRecords ==
  ASSUME Inv, NEW pos \in Nat, NEW x \in AllItems, Keep(pos, x)
  PROVE  AsFailures([pos |-> m_furthest_failure_pos, expected |-> m_expected])'
         = Log!Furthest(
             AsFailures([pos |-> m_furthest_failure_pos, expected |-> m_expected])
             \cup {[pos |-> pos, item |-> x]})
<1> DEFINE p == m_furthest_failure_pos
           S == ToSet(m_expected)
<1>1. /\ AsFailures([pos |-> m_furthest_failure_pos, expected |-> m_expected]) = At(p, S)
      /\ {[pos |-> pos, item |-> x]} = One(pos, x)
  BY DEF AsFailures, At, One
<1>2. AsFailures([pos |-> m_furthest_failure_pos, expected |-> m_expected])'
      = At(m_furthest_failure_pos', ToSet(m_expected'))
  BY DEF AsFailures, At
<1>3. p \in Nat /\ m_expected \in Seq(AllItems) /\ (m_has_error <=> m_expected # <<>>)
  BY DEF Inv
<1>4. m_has_error <=> S # {}
  <2>1. m_has_error => 1 \in DOMAIN m_expected
    BY <1>3
  <2> QED
    BY <2>1, <1>3 DEF ToSet
<1> HIDE DEF p, S
<1>5. /\ pos > p \/ S = {} => Log!Furthest(At(p, S) \cup One(pos, x)) = One(pos, x)
      /\ pos = p => Log!Furthest(At(p, S) \cup One(pos, x)) = At(p, S) \cup One(p, x)
      /\ pos < p /\ S # {} => Log!Furthest(At(p, S) \cup One(pos, x)) = At(p, S)
  <2>1. PICK r \in Nat : r = p
    BY <1>3
  <2>2. PICK T : T = S
    OBVIOUS
  <2>3. /\ pos > r \/ T = {} => Log!Furthest(At(r, T) \cup One(pos, x)) = One(pos, x)
        /\ pos = r => Log!Furthest(At(r, T) \cup One(pos, x)) = At(r, T) \cup One(r, x)
        /\ pos < r /\ T # {} => Log!Furthest(At(r, T) \cup One(pos, x)) = At(r, T)
    BY FurthestOf
  <2> QED
    BY <2>1, <2>2, <2>3
<1>6. At(m_furthest_failure_pos', ToSet(m_expected'))
      = Log!Furthest(At(p, S) \cup One(pos, x))
  <2>1. CASE /\ ~ m_has_error \/ pos > m_furthest_failure_pos
             /\ m_furthest_failure_pos' = pos
             /\ m_expected' = insert(<<>>, x)
    <3>1. ToSet(m_expected') = {x}
      BY <2>1, EmptyInsert
    <3>2. At(pos, ToSet(m_expected')) = One(pos, x)
      BY <3>1 DEF At, One
    <3> QED
      BY <2>1, <3>2, <1>4, <1>5 DEF p
  <2>2. CASE /\ m_has_error /\ pos = m_furthest_failure_pos
             /\ m_expected' = insert(m_expected, x)
             /\ UNCHANGED <<m_furthest_failure_pos, m_has_error>>
    <3>0. ToSet(insert(m_expected, x)) = ToSet(m_expected) \cup {x}
      BY <1>3, InsertItems
    <3>1. ToSet(m_expected') = S \cup {x}
      BY <2>2, <3>0 DEF S
    <3>2. At(p, ToSet(m_expected')) = At(p, S) \cup One(p, x)
      BY <3>1 DEF At, One
    <3> QED
      BY <2>2, <3>2, <1>5 DEF p
  <2>3. CASE /\ m_has_error /\ pos < m_furthest_failure_pos
             /\ UNCHANGED members
    <3>1. ToSet(m_expected') = S /\ m_furthest_failure_pos' = p
      BY <2>3 DEF members, S, p
    <3> QED
      BY <2>3, <3>1, <1>4, <1>5 DEF p
  <2> QED
    BY <2>1, <2>2, <2>3 DEF Keep
<1> QED
  BY <1>1, <1>2, <1>6

\* A tracker asked for its error gives the furthest failures recorded since it
\* was last asked, whatever order backtracking brought them in
\* (record_failure, take_error).
THEOREM TrackerImplements == Spec => ImplementsFailureLog
<1>1. Init => Log!Init
  BY NoFailures DEF Init, Log!Init, nullopt
<1>2. Inv /\ [Next]_vars => [Log!Next]_<<AsFailures([pos |-> m_furthest_failure_pos,
                                                     expected |-> m_expected]),
                                         AsFailures(taken)>>
  <2> SUFFICES ASSUME Inv, [Next]_vars
               PROVE  [Log!Next]_<<AsFailures([pos |-> m_furthest_failure_pos,
                                               expected |-> m_expected]),
                                   AsFailures(taken)>>
    OBVIOUS
  <2>1. ASSUME NEW pos \in Inputs, NEW f \in Failing, record_failure(pos, f)
        PROVE  Log!Next
    <3> DEFINE x == Shown[<<f, charSize>>]
    <3>1. Keep(pos, x) /\ pos \in Nat /\ taken' = nullopt
      BY <2>1, TrackerAssumption DEF record_failure
    <3>2. x \in AllItems
      BY ShownItems
    <3>3. AsFailures(taken)' = {}
      BY <3>1, NoFailures DEF AsFailures
    <3> HIDE DEF x
    <3>4. Log!Record(pos, x)
      BY <3>1, <3>2, <3>3, KeepRecords DEF Log!Record
    <3> QED
      BY <3>2, <3>4 DEF Log!Next, AllItems
  <2>2. CASE take_error
    <3>1. AsFailures([pos |-> m_furthest_failure_pos, expected |-> m_expected])' = {}
      BY <2>2, NoFailures DEF take_error, nullopt, AsFailures
    <3>2. AsFailures(taken)'
          = AsFailures([pos |-> m_furthest_failure_pos, expected |-> m_expected])
      <4>1. CASE m_has_error
        BY <2>2, <4>1 DEF take_error, AsFailures
      <4>2. CASE ~ m_has_error
        BY <2>2, <4>2 DEF take_error, AsFailures, nullopt, Inv, ToSet
      <4> QED
        BY <4>1, <4>2
    <3> QED
      BY <3>1, <3>2 DEF Log!Next, Log!Take
  <2>3. CASE UNCHANGED vars
    BY <2>3 DEF vars, members, AsFailures
  <2> QED
    BY <2>1, <2>2, <2>3 DEF Next
<1> QED
  BY <1>1, <1>2, InitInv, NextInv, PTL DEF Spec, ImplementsFailureLog, Log!Spec

-----------------------------------------------------------------------------
(* Sequences put together, and told apart.                                 *)

\* A set of places with every place below one of them is counted by its last.
LEMMA Initial ==
  ASSUME NEW n \in Nat, NEW P \in SUBSET (1..n),
         \A k \in P : \A j \in 1..k : j \in P
  PROVE  Cardinality(P) \in 0..n /\ P = 1..Cardinality(P)
<1>1. IsFiniteSet(1..n) /\ Cardinality(1..n) = n
  BY FS_Interval
<1>2. IsFiniteSet(P) /\ Cardinality(P) <= n
  BY ZenonT(60), <1>1, FS_Subset
<1>3. PICK c \in Nat : c = Cardinality(P)
  BY <1>2, FS_CardinalityType
<1>4. ASSUME NEW k \in P PROVE k \in 1..c
  <2>1. k \in Nat /\ k >= 1
    OBVIOUS
  <2>2. (1..k) \in SUBSET P
    OBVIOUS
  <2>3. Cardinality(1..k) = k
    BY <2>1, FS_Interval
  <2>4. Cardinality(1..k) <= Cardinality(P)
    BY <2>2, <1>2, FS_Subset
  <2> QED
    BY <2>1, <2>3, <2>4, <1>3
<1>5. P \in SUBSET (1..c)
  BY <1>4
<1>6. IsFiniteSet(1..c) /\ Cardinality(1..c) = c
  BY <1>3, FS_Interval
<1>7. P = 1..c
  BY <1>3, <1>5, <1>6, FS_Subset
<1> QED
  BY <1>2, <1>3, <1>7

\* What holds of a place when it holds of those before it holds of every place.
LEMMA UpTo ==
  ASSUME NEW n \in Nat, NEW P,
         \A k \in 1..n : (\A j \in 1..(k - 1) : j \in P) => k \in P
  PROVE  \A k \in 1..n : k \in P
<1> DEFINE Q == {k \in 1..n : \A j \in 1..k : j \in P}
<1>1. Q \in SUBSET (1..n) /\ \A k \in Q : \A j \in 1..k : j \in Q
  OBVIOUS
<1>2. PICK c \in 0..n : Q = 1..c
  <2> HIDE DEF Q
  <2> QED
    BY <1>1, Initial
<1>3. ASSUME c < n PROVE FALSE
  <2>1. c + 1 \in 1..n /\ c \in Nat
    BY <1>3
  <2>2. \A j \in 1..c : j \in P
    BY <1>2, <2>1
  <2>3. c + 1 \in P
    BY <2>1, <2>2
  <2>4. c + 1 \in Q
    BY <2>1, <2>2, <2>3
  <2> HIDE DEF Q
  <2> QED
    BY <1>2, <2>1, <2>4
<1> QED
  BY <1>2, <1>3

\* The first i words put together, for each i up to n.
Flattened(W, f, n) ==
  f = [i \in 1..n |-> IF i = 1 THEN W[i] ELSE f[i - 1] \o W[i]]

\* The community modules' FlattenSeq, its own recursive function named.
LEMMA FlattenDef ==
  ASSUME NEW W, Len(W) # 0, NEW g, Flattened(W, g, Len(W))
  PROVE  \E f : Flattened(W, f, Len(W)) /\ FlattenSeq(W) = f[Len(W)]
  BY DEF FlattenSeq, Flattened

\* Two texts go together as far as the shorter goes.
Alike(v, w) == \A k \in 1..Len(v) : k <= Len(w) => v[k] = w[k]

\* What the first words make, from none to all.
Heads(T, W, f) ==
  /\ f[0] = <<>> /\ FlattenSeq(W) = f[Len(W)]
  /\ \A i \in 0..Len(W) : f[i] \in Seq(T)
  /\ \A i \in 1..Len(W) : f[i] = f[i - 1] \o W[i]

\* d is v and then w.
Extends(T, v, w, d) == v \in Seq(T) /\ w \in Seq(T) /\ d = v \o w

\* The places of a concatenation.
LEMMA ExtendsFacts ==
  ASSUME NEW T, NEW v, NEW w, NEW d, Extends(T, v, w, d)
  PROVE  /\ d \in Seq(T) /\ v \in Seq(T) /\ w \in Seq(T)
         /\ Len(d) = Len(v) + Len(w)
         /\ Len(d) \in Nat /\ Len(v) \in Nat /\ Len(w) \in Nat
         /\ \A k \in 1..Len(v) : d[k] = v[k] /\ k \in 1..Len(d)
         /\ \A k \in 1..Len(w) : d[Len(v) + k] = w[k] /\ Len(v) + k \in 1..Len(d)
  BY DEF Extends

\* FlattenSeq puts the words together one after another.
LEMMA FlattenSteps ==
  ASSUME NEW T, NEW W \in Seq(Seq(T))
  PROVE  \E f : Heads(T, W, f)
<1> DEFINE n == Len(W)
           Whole(m) == \E g : Flattened(W, g, m)
<1>1. n \in Nat /\ \A i \in 1..n : W[i] \in Seq(T)
  BY LenProperties, ElementOfSeq
<1>2. \A m \in 1..n : m \in {j \in 1..n : Whole(j)}
  <2> DEFINE P == {j \in 1..n : Whole(j)}
  <2>1. ASSUME NEW m \in 1..n, \A j \in 1..(m - 1) : j \in P PROVE m \in P
    <3>1. CASE m = 1
      <4>1. Flattened(W, [i \in 1..1 |-> W[i]], 1)
        BY DEF Flattened
      <4> QED
        BY <3>1, <4>1
    <3>2. CASE m # 1
      <4>1. m - 1 \in 1..(m - 1)
        BY <1>1, <3>2
      <4>2. PICK g : Flattened(W, g, m - 1)
        BY <2>1, <4>1
      <4> DEFINE h == [i \in 1..m |-> IF i = m THEN g[m - 1] \o W[m] ELSE g[i]]
      <4>3. \A i \in 1..(m - 1) : g[i] = IF i = 1 THEN W[i] ELSE g[i - 1] \o W[i]
        BY <4>2 DEF Flattened
      <4>4. \A i \in 1..m : h[i] = IF i = 1 THEN W[i] ELSE h[i - 1] \o W[i]
        BY <1>1, <3>2, <4>3
      <4>5. Flattened(W, h, m)
        BY <4>4 DEF Flattened
      <4> HIDE DEF h
      <4> QED
        BY <4>5
    <3> QED
      BY <3>1, <3>2
  <2> HIDE DEF P
  <2>2. \A m \in 1..n : m \in P
    BY <1>1, <2>1, UpTo
  <2> QED
    BY <2>2 DEF P
<1>3. CASE n = 0
  <2>1. FlattenSeq(W) = W /\ W = <<>>
    BY <1>3 DEF FlattenSeq
  <2> DEFINE f == [i \in {0} |-> <<>>]
  <2>2. <<>> \in Seq(T)
    OBVIOUS
  <2>3. /\ f[0] = <<>> /\ FlattenSeq(W) = f[n]
        /\ \A i \in 0..n : f[i] \in Seq(T)
        /\ \A i \in 1..n : f[i] = f[i - 1] \o W[i]
    BY <1>3, <2>1, <2>2
  <2> HIDE DEF f
  <2> QED
    BY <2>3 DEF Heads
<1>4. CASE n # 0
  <2>1. n \in 1..n
    BY <1>1, <1>4
  <2>2. PICK g : Flattened(W, g, n)
    BY <1>2, <2>1
  <2>3. PICK h : Flattened(W, h, n) /\ FlattenSeq(W) = h[n]
    BY <1>4, <2>2, FlattenDef
  <2>4. \A i \in 1..n : h[i] = IF i = 1 THEN W[i] ELSE h[i - 1] \o W[i]
    BY <2>3 DEF Flattened
  <2> DEFINE P == {i \in 1..n : h[i] \in Seq(T)}
  <2>5. ASSUME NEW m \in 1..n, \A j \in 1..(m - 1) : j \in P PROVE m \in P
    <3>1. CASE m = 1
      BY <1>1, <2>4, <3>1
    <3>2. CASE m # 1
      <4>1. m - 1 \in 1..(m - 1)
        BY <1>1, <3>2
      <4>2. h[m - 1] \in Seq(T) /\ W[m] \in Seq(T) /\ h[m] = h[m - 1] \o W[m]
        BY <1>1, <2>4, <2>5, <3>2, <4>1
      <4>3. PICK a, b : a = h[m - 1] /\ b = W[m]
        OBVIOUS
      <4>4. a \o b \in Seq(T)
        <5>1. a \in Seq(T) /\ b \in Seq(T)
          BY <4>2, <4>3
        <5> QED
          BY ONLY <5>1
      <4> QED
        BY <4>2, <4>3, <4>4
    <3> QED
      BY <3>1, <3>2
  <2>6. \A i \in 1..n : i \in P
    <3> HIDE DEF P
    <3> QED
      BY <1>1, <2>5, UpTo
  <2> DEFINE f == [i \in 0..n |-> IF i = 0 THEN <<>> ELSE h[i]]
  <2>7. f[0] = <<>> /\ FlattenSeq(W) = f[n] /\ \A i \in 0..n : f[i] \in Seq(T)
    <3>1. <<>> \in Seq(T)
      OBVIOUS
    <3> QED
      BY <1>1, <1>4, <2>3, <2>6, <3>1
  <2>8. \A i \in 1..n : f[i] = f[i - 1] \o W[i]
    <3> SUFFICES ASSUME NEW i \in 1..n PROVE f[i] = f[i - 1] \o W[i]
      OBVIOUS
    <3>1. CASE i = 1
      <4>1. W[1] \in Seq(T) /\ <<>> \o W[1] = W[1]
        BY <1>1, <2>1, <3>1
      <4> QED
        BY <1>1, <2>4, <3>1, <4>1
    <3>2. CASE i # 1
      <4>1. i - 1 \in 0..n /\ i - 1 # 0 /\ i \in 0..n /\ i # 0
        BY <1>1, <3>2
      <4>2. f[i - 1] = h[i - 1] /\ f[i] = h[i]
        BY <4>1
      <4> HIDE DEF f
      <4> QED
        BY <2>4, <3>2, <4>2
    <3> QED
      BY <3>1, <3>2
  <2> HIDE DEF f
  <2> QED
    BY <2>7, <2>8 DEF Heads
<1> QED
  BY <1>3, <1>4

\* Each word extends what the words before it make.
LEMMA PrefixAt ==
  ASSUME NEW T, NEW W \in Seq(Seq(T)), NEW f, Heads(T, W, f),
         NEW i \in 1..Len(W)
  PROVE  Extends(T, f[i - 1], W[i], f[i])
<1>1. W[i] \in Seq(T) /\ Len(W) \in Nat
  BY LenProperties, ElementOfSeq
<1>2. i \in 0..Len(W) /\ i - 1 \in 0..Len(W)
  BY <1>1
<1> QED
  BY <1>1, <1>2 DEF Heads, Extends

\* v begins d.
Starts(v, d) == Len(v) <= Len(d) /\ \A k \in 1..Len(v) : d[k] = v[k]

\* What the first words make begins what all of them make.
LEMMA PlaceAt ==
  ASSUME NEW T, NEW W \in Seq(Seq(T)), NEW f, Heads(T, W, f),
         NEW i \in 1..Len(W)
  PROVE  Starts(f[i], FlattenSeq(W))
<1> DEFINE n == Len(W)
           P == {m \in 1..n : m >= i => Starts(f[i], f[m])}
<1>0. PICK v : v = f[i]
  OBVIOUS
<1>1. n \in Nat /\ FlattenSeq(W) = f[n]
  BY LenProperties DEF Heads
<1>2. v \in Seq(T) /\ Len(v) \in Nat
  BY <1>0, PrefixAt, ExtendsFacts
<1>3. ASSUME NEW m \in 1..n, \A j \in 1..(m - 1) : j \in P PROVE m \in P
  <2>1. CASE m <= i
    <3>1. m >= i => m = i
      BY <1>1, <2>1
    <3>2. Starts(v, v)
      BY <1>2 DEF Starts
    <3> QED
      BY <1>0, <3>1, <3>2
  <2>2. CASE m > i
    <3>1. m - 1 \in 1..(m - 1) /\ m - 1 >= i
      BY <1>1, <2>2
    <3>2. PICK u, w, d : u = f[m - 1] /\ w = W[m] /\ d = f[m]
      OBVIOUS
    <3>3. Starts(v, u)
      BY <1>0, <1>3, <3>1, <3>2
    <3>4. Extends(T, u, w, d)
      BY <3>2, PrefixAt
    <3>5. Starts(v, d)
      <4>1. /\ Len(u) \in Nat /\ Len(w) \in Nat /\ Len(d) = Len(u) + Len(w)
            /\ \A k \in 1..Len(u) : d[k] = u[k]
        BY <3>4, ExtendsFacts
      <4>2. Len(v) <= Len(u) /\ \A k \in 1..Len(v) : u[k] = v[k]
        BY <3>3 DEF Starts
      <4>3. Len(v) <= Len(d)
        BY <1>2, <4>1, <4>2
      <4>4. \A k \in 1..Len(v) : d[k] = v[k]
        <5>1. \A k \in 1..Len(v) : k \in 1..Len(u)
          BY <1>2, <4>1, <4>2
        <5> QED
          BY <4>1, <4>2, <5>1
      <4> QED
        BY <4>3, <4>4 DEF Starts
    <3> QED
      BY <1>0, <3>2, <3>5
  <2> QED
    BY <1>1, <2>1, <2>2
<1>4. n \in P
  <2>1. n \in 1..n
    BY <1>1
  <2> HIDE DEF P
  <2> QED
    BY <1>1, <1>3, <2>1, UpTo
<1> QED
  BY <1>1, <1>4

\* Words that are told apart where they start are told apart when put together.
LEMMA FlattenApart ==
  ASSUME NEW T, NEW V \in Seq(Seq(T)), NEW W \in Seq(Seq(T)),
         FlattenSeq(V) = FlattenSeq(W),
         \A i \in 1..Len(V) : V[i] # <<>>, \A i \in 1..Len(W) : W[i] # <<>>,
         \A i \in 1..Len(V) : i <= Len(W) /\ Alike(V[i], W[i]) => V[i] = W[i]
  PROVE  V = W
<1> DEFINE d == FlattenSeq(V)
           n == IF Len(V) <= Len(W) THEN Len(V) ELSE Len(W)
<1>1. Len(V) \in Nat /\ Len(W) \in Nat
  BY LenProperties
<1>2. PICK f : Heads(T, V, f)
  BY FlattenSteps
<1>3. PICK g : Heads(T, W, g)
  BY FlattenSteps
<1>0. d = FlattenSeq(V) /\ d = FlattenSeq(W)
  OBVIOUS
<1> HIDE DEF d
<1> DEFINE P == {i \in 1..n : V[i] = W[i] /\ f[i] = g[i]}
<1>4. n \in Nat /\ n <= Len(V) /\ n <= Len(W) /\ (n = Len(V) \/ n = Len(W))
  BY <1>1
<1> HIDE DEF n
<1>5. ASSUME NEW m \in 1..n, \A j \in 1..(m - 1) : j \in P PROVE m \in P
  <2>0. m \in 1..Len(V) /\ m \in 1..Len(W) /\ m <= Len(W)
    BY <1>1, <1>4
  <2>1. f[m - 1] = g[m - 1]
    <3>1. CASE m = 1
      BY <1>2, <1>3, <3>1 DEF Heads
    <3>2. CASE m # 1
      <4>1. m - 1 \in 1..(m - 1)
        BY <1>4, <3>2
      <4> QED
        BY <1>5, <4>1
    <3> QED
      BY <3>1, <3>2
  <2>2. PICK u, v, w, x, y :
          u = f[m - 1] /\ v = V[m] /\ w = W[m] /\ x = f[m] /\ y = g[m]
    OBVIOUS
  <2>3. Extends(T, u, v, x) /\ Starts(x, d)
    BY <1>0, <1>2, <2>0, <2>2, PrefixAt, PlaceAt
  <2>4. Extends(T, u, w, y) /\ Starts(y, d)
    BY <1>0, <1>3, <2>0, <2>1, <2>2, PrefixAt, PlaceAt
  <2>5. \A k \in 1..Len(v) : d[Len(u) + k] = v[k]
    BY <2>3, ExtendsFacts DEF Starts
  <2>6. \A k \in 1..Len(w) : d[Len(u) + k] = w[k]
    BY <2>4, ExtendsFacts DEF Starts
  <2>7. Len(v) \in Nat /\ Len(w) \in Nat
    BY <2>3, <2>4, ExtendsFacts
  <2>8. Alike(v, w)
    BY <2>5, <2>6, <2>7 DEF Alike
  <2>9. v = w
    BY <2>0, <2>2, <2>8
  <2> QED
    BY <2>2, <2>3, <2>4, <2>9 DEF Extends
<1>6. \A i \in 1..n : V[i] = W[i] /\ f[i] = g[i]
  <2>1. \A i \in 1..n : i \in P
    <3> HIDE DEF P
    <3> QED
      BY <1>4, <1>5, UpTo
  <2> QED
    BY <2>1
<1>7. f[n] = g[n]
  <2>1. n = 0 \/ n \in 1..n
    BY <1>4
  <2>2. f[0] = g[0]
    BY <1>2, <1>3 DEF Heads
  <2> QED
    BY <1>6, <2>1, <2>2
<1>8. ~ (n = Len(V) /\ n < Len(W))
  <2> SUFFICES ASSUME n = Len(V), n < Len(W) PROVE FALSE
    OBVIOUS
  <2>1. n + 1 \in 1..Len(W) /\ (n + 1) - 1 = n
    BY <1>1, <1>4
  <2>2. d = g[n]
    BY <1>0, <1>2, <1>7 DEF Heads
  <2>3. PICK w, y : w = W[n + 1] /\ y = g[n + 1]
    OBVIOUS
  <2>4. Extends(T, d, w, y) /\ Starts(y, d)
    BY <1>0, <1>3, <2>1, <2>2, <2>3, PrefixAt, PlaceAt
  <2>5. Len(y) = Len(d) + Len(w) /\ Len(d) \in Nat /\ Len(w) \in Nat /\ w \in Seq(T)
    BY <2>4, ExtendsFacts
  <2>6. Len(w) # 0
    BY <2>1, <2>3, <2>5, EmptySeq
  <2> QED
    BY <2>4, <2>5, <2>6 DEF Starts
<1>9. ~ (n = Len(W) /\ n < Len(V))
  <2> SUFFICES ASSUME n = Len(W), n < Len(V) PROVE FALSE
    OBVIOUS
  <2>1. n + 1 \in 1..Len(V) /\ (n + 1) - 1 = n
    BY <1>1, <1>4
  <2>2. d = f[n]
    BY <1>0, <1>3, <1>7 DEF Heads
  <2>3. PICK w, y : w = V[n + 1] /\ y = f[n + 1]
    OBVIOUS
  <2>4. Extends(T, d, w, y) /\ Starts(y, d)
    BY <1>0, <1>2, <2>1, <2>2, <2>3, PrefixAt, PlaceAt
  <2>5. Len(y) = Len(d) + Len(w) /\ Len(d) \in Nat /\ Len(w) \in Nat /\ w \in Seq(T)
    BY <2>4, ExtendsFacts
  <2>6. Len(w) # 0
    BY <2>1, <2>3, <2>5, EmptySeq
  <2> QED
    BY <2>4, <2>5, <2>6 DEF Starts
<1>10. Len(V) = Len(W) /\ n = Len(V)
  BY <1>1, <1>4, <1>8, <1>9
<1>11. \A i \in 1..Len(V) : V[i] = W[i]
  BY <1>6, <1>10
<1> QED
  BY <1>10, <1>11, SeqEqual

-----------------------------------------------------------------------------
(* What is shown tells what failed.                                        *)

\* A character is a natural number, of a byte's range when CharT is a byte.
LEMMA CharacterFacts ==
  ASSUME NEW w, NEW v \in Characters(w)
  PROVE  v \in Nat /\ v <= LastCharacter /\ (w = 1 => v \in 0..255)
  BY SMT DEF Characters, LastCharacter

\* Hexadecimal digits are bytes, all different.
LEMMA HexDigits ==
  ASSUME NEW d \in 0..15, NEW e \in 0..15
  PROVE  /\ HexDigit(d) \in 0..255
         /\ HexDigit(d) = HexDigit(e) => d = e
  BY DEF HexDigit

\* The two digits %02X prints.
LEMMA ByteDigits ==
  ASSUME NEW v \in 0..255
  PROVE  /\ Hex(v, 2) = <<HexDigit((v \div 16) % 16), HexDigit(v % 16)>>
         /\ v = 16 * ((v \div 16) % 16) + (v % 16)
         /\ (v \div 16) % 16 \in 0..15 /\ v % 16 \in 0..15
<1>1. v \div 1 = v
  OBVIOUS
<1>2. Hex(v, 2) = <<HexDigit((v \div 16) % 16), HexDigit((v \div 1) % 16)>>
  BY DEF Hex, PlaceValues
<1>3. /\ v = 16 * ((v \div 16) % 16) + (v % 16)
      /\ (v \div 16) % 16 \in 0..15 /\ v % 16 \in 0..15
  OBVIOUS
<1> QED
  BY <1>1, <1>2, <1>3

\* The hexadecimal digit at place p.
Digit(v, p) == (v \div PlaceValues[p + 1]) % 16

\* The eight digits %08X prints; the upper two of a character's are zero.
LEMMA WordDigits ==
  ASSUME NEW v \in Nat, v <= LastCharacter
  PROVE  /\ Hex(v, 8) = <<HexDigit(Digit(v, 7)), HexDigit(Digit(v, 6)),
                          HexDigit(Digit(v, 5)), HexDigit(Digit(v, 4)),
                          HexDigit(Digit(v, 3)), HexDigit(Digit(v, 2)),
                          HexDigit(Digit(v, 1)), HexDigit(Digit(v, 0))>>
         /\ \A p \in 0..7 : Digit(v, p) \in 0..15
         /\ v = Digit(v, 0) + 16 * Digit(v, 1) + 256 * Digit(v, 2)
                + 4096 * Digit(v, 3) + 65536 * Digit(v, 4) + 1048576 * Digit(v, 5)
<1>1. /\ v \div 1 = v /\ v \div 16 \in Nat /\ v \div 256 \in Nat /\ v \div 4096 \in Nat
      /\ v \div 65536 \in Nat /\ v \div 1048576 \in Nat
      /\ v \div 16777216 \in Nat /\ v \div 268435456 \in Nat
  BY SMT
<1>2. /\ PlaceValues[1] = 1 /\ PlaceValues[2] = 16 /\ PlaceValues[3] = 256
      /\ PlaceValues[4] = 4096 /\ PlaceValues[5] = 65536 /\ PlaceValues[6] = 1048576
      /\ PlaceValues[7] = 16777216 /\ PlaceValues[8] = 268435456
  BY SMT DEF PlaceValues
<1>3. Hex(v, 8) = <<HexDigit(Digit(v, 7)), HexDigit(Digit(v, 6)),
                    HexDigit(Digit(v, 5)), HexDigit(Digit(v, 4)),
                    HexDigit(Digit(v, 3)), HexDigit(Digit(v, 2)),
                    HexDigit(Digit(v, 1)), HexDigit(Digit(v, 0))>>
  BY SMT DEF Hex, Digit
<1>4. /\ Digit(v, 0) = v % 16 /\ Digit(v, 1) = (v \div 16) % 16
      /\ Digit(v, 2) = (v \div 256) % 16 /\ Digit(v, 3) = (v \div 4096) % 16
      /\ Digit(v, 4) = (v \div 65536) % 16 /\ Digit(v, 5) = (v \div 1048576) % 16
      /\ Digit(v, 6) = (v \div 16777216) % 16 /\ Digit(v, 7) = (v \div 268435456) % 16
  BY SMT, <1>1, <1>2 DEF Digit
<1>5. \A x \in Nat : x % 16 \in 0..15 /\ x = 16 * (x \div 16) + (x % 16)
  BY SMT
<1>6. \A p \in 0..7 : Digit(v, p) \in 0..15
  <2>1. \A p \in 0..7 : p \in {0, 1, 2, 3, 4, 5, 6, 7}
    BY SMT
  <2> QED
    BY SMT, <1>1, <1>4, <1>5, <2>1
<1>7. /\ v \div 256 = (v \div 16) \div 16 /\ v \div 4096 = (v \div 256) \div 16
      /\ v \div 65536 = (v \div 4096) \div 16
      /\ v \div 1048576 = (v \div 65536) \div 16
      /\ (v \div 1048576) \div 16 = 0
  <2>1. v \div 256 = (v \div 16) \div 16
    BY SMT
  <2>2. v \div 4096 = (v \div 256) \div 16
    BY SMT
  <2>3. v \div 65536 = (v \div 4096) \div 16
    BY SMT
  <2>4. v \div 1048576 = (v \div 65536) \div 16
    BY SMT
  <2>5. (v \div 1048576) \div 16 = 0
    BY SMT DEF LastCharacter
  <2> QED
    BY ONLY SMT, <2>1, <2>2, <2>3, <2>4, <2>5
<1>8. v = Digit(v, 0) + 16 * Digit(v, 1) + 256 * Digit(v, 2)
          + 4096 * Digit(v, 3) + 65536 * Digit(v, 4) + 1048576 * Digit(v, 5)
  <2>1. PICK a \in Nat, b \in Nat, c \in Nat, d \in Nat, e \in Nat :
          /\ a = v \div 16 /\ b = v \div 256 /\ c = v \div 4096
          /\ d = v \div 65536 /\ e = v \div 1048576
    BY <1>1, SMT
  <2>2. /\ v = 16 * a + Digit(v, 0) /\ a = 16 * b + Digit(v, 1)
        /\ b = 16 * c + Digit(v, 2) /\ c = 16 * d + Digit(v, 3)
        /\ d = 16 * e + Digit(v, 4) /\ e = Digit(v, 5)
    <3>1. /\ a \div 16 = b /\ b \div 16 = c /\ c \div 16 = d
          /\ d \div 16 = e /\ e \div 16 = 0
      BY SMT, <1>7, <2>1
    <3>2. /\ Digit(v, 0) = v % 16 /\ Digit(v, 1) = a % 16
          /\ Digit(v, 2) = b % 16 /\ Digit(v, 3) = c % 16
          /\ Digit(v, 4) = d % 16 /\ Digit(v, 5) = e % 16
      BY SMT, <1>4, <2>1
    <3>3. /\ v = 16 * a + (v % 16) /\ a = 16 * b + (a % 16)
          /\ b = 16 * c + (b % 16) /\ c = 16 * d + (c % 16)
          /\ d = 16 * e + (d % 16) /\ e = e % 16
      BY ONLY SMT, <1>5, <2>1, <3>1, v \in Nat
    <3> QED
      BY ONLY SMT, <3>2, <3>3
  <2>3. /\ Digit(v, 0) \in Int /\ Digit(v, 1) \in Int /\ Digit(v, 2) \in Int
        /\ Digit(v, 3) \in Int /\ Digit(v, 4) \in Int /\ Digit(v, 5) \in Int
    BY SMT, <1>6
  <2> QED
    BY ONLY SMT, <2>1, <2>2, <2>3, v \in Nat
<1> QED
  BY SMT, <1>3, <1>6, <1>8

\* The ways Escaped goes.
LEMMA EscapedCases ==
  ASSUME NEW w, NEW v \in Characters(w), NEW q \in {Quote, DoubleQuote}
  PROVE  LET c == Escaped(v, w, q)
         IN  \/ v = 9 /\ c = <<92, 116>>
             \/ v = 10 /\ c = <<92, 110>>
             \/ v = 13 /\ c = <<92, 114>>
             \/ v = 92 /\ c = <<92, 92>>
             \/ v = q /\ c = <<92, q>>
             \/ v # q /\ v # 92 /\ c = <<v>> /\ v \in 0..255
             \/ v \in 0..255 /\ w = 1 /\ c = <<92, 120>> \o Hex(v, 2)
             \/ w # 1 /\ c = <<92, 85>> \o Hex(v, 8)
<1>1. /\ DOMAIN Escapes = {9, 10, 13, 92}
      /\ Escapes[9] = 116 /\ Escapes[10] = 110 /\ Escapes[13] = 114 /\ Escapes[92] = 92
  <2>1. DOMAIN Escapes = {9, 10, 13, 92}
    BY DEF Escapes, Backslash
  <2>2. \A c \in {9, 10, 13, 92} :
          Escapes[c] = CASE c = 9 -> 116 [] c = 10 -> 110 [] c = 13 -> 114 [] OTHER -> 92
    BY DEF Escapes, Backslash
  <2>3. Escapes[9] = 116
    BY <2>2
  <2>4. Escapes[10] = 110
    BY <2>2
  <2>5. Escapes[13] = 114
    BY <2>2
  <2>6. Escapes[92] = 92
    BY <2>2
  <2> QED
    BY <2>1, <2>3, <2>4, <2>5, <2>6
<1>2. q = 39 \/ q = 34
  BY DEF Quote, DoubleQuote
<1>3. v \in Nat /\ (w = 1 => v \in 0..255)
  BY CharacterFacts
<1>4. CASE v \in DOMAIN Escapes
  BY <1>1, <1>4 DEF Escaped, Backslash
<1>5. CASE v \notin DOMAIN Escapes /\ v = q
  BY <1>1, <1>5 DEF Escaped, Backslash
<1>6. CASE v \notin DOMAIN Escapes /\ v # q /\ v \in Printable
  <2>1. v \in 32..126
    BY <1>6 DEF Printable
  <2>2. v \in 0..255 /\ v # 92
    BY <1>1, <1>6, <2>1
  <2> QED
    BY <1>6, <2>2 DEF Escaped
<1>7. CASE v \notin DOMAIN Escapes /\ v # q /\ v \notin Printable
  BY <1>3, <1>7 DEF Escaped, Backslash
<1> QED
  BY <1>4, <1>5, <1>6, <1>7

\* Two digits tell a byte.
LEMMA ByteApart ==
  ASSUME NEW v \in 0..255, NEW u \in 0..255,
         \A k \in 1..2 : Hex(v, 2)[k] = Hex(u, 2)[k]
  PROVE  v = u
<1>1. /\ Hex(v, 2) = <<HexDigit((v \div 16) % 16), HexDigit(v % 16)>>
      /\ v = 16 * ((v \div 16) % 16) + (v % 16)
      /\ (v \div 16) % 16 \in 0..15 /\ v % 16 \in 0..15
  BY ByteDigits
<1>2. /\ Hex(u, 2) = <<HexDigit((u \div 16) % 16), HexDigit(u % 16)>>
      /\ u = 16 * ((u \div 16) % 16) + (u % 16)
      /\ (u \div 16) % 16 \in 0..15 /\ u % 16 \in 0..15
  BY ByteDigits
<1>3. PICK a \in 0..15, b \in 0..15, c \in 0..15, d \in 0..15 :
        /\ a = (v \div 16) % 16 /\ b = v % 16
        /\ c = (u \div 16) % 16 /\ d = u % 16
  BY <1>1, <1>2
<1>4. Hex(v, 2) = <<HexDigit(a), HexDigit(b)>> /\ Hex(u, 2) = <<HexDigit(c), HexDigit(d)>>
  BY <1>1, <1>2, <1>3
<1>5. HexDigit(a) = HexDigit(c) /\ HexDigit(b) = HexDigit(d)
  <2>1. 1 \in 1..2 /\ 2 \in 1..2
    OBVIOUS
  <2>2. Hex(v, 2)[1] = Hex(u, 2)[1] /\ Hex(v, 2)[2] = Hex(u, 2)[2]
    BY <2>1
  <2> QED
    BY <1>4, <2>2
<1>6. a = c /\ b = d
  BY <1>5, HexDigits
<1> QED
  BY <1>1, <1>2, <1>3, <1>6

\* Eight digits tell a character.
LEMMA WordApart ==
  ASSUME NEW v \in Nat, v <= LastCharacter, NEW u \in Nat, u <= LastCharacter,
         \A k \in 1..8 : Hex(v, 8)[k] = Hex(u, 8)[k]
  PROVE  v = u
<1>1. /\ Hex(v, 8) = <<HexDigit(Digit(v, 7)), HexDigit(Digit(v, 6)),
                       HexDigit(Digit(v, 5)), HexDigit(Digit(v, 4)),
                       HexDigit(Digit(v, 3)), HexDigit(Digit(v, 2)),
                       HexDigit(Digit(v, 1)), HexDigit(Digit(v, 0))>>
      /\ \A p \in 0..7 : Digit(v, p) \in 0..15
      /\ v = Digit(v, 0) + 16 * Digit(v, 1) + 256 * Digit(v, 2)
             + 4096 * Digit(v, 3) + 65536 * Digit(v, 4) + 1048576 * Digit(v, 5)
  BY SMT, WordDigits
<1>2. /\ Hex(u, 8) = <<HexDigit(Digit(u, 7)), HexDigit(Digit(u, 6)),
                       HexDigit(Digit(u, 5)), HexDigit(Digit(u, 4)),
                       HexDigit(Digit(u, 3)), HexDigit(Digit(u, 2)),
                       HexDigit(Digit(u, 1)), HexDigit(Digit(u, 0))>>
      /\ \A p \in 0..7 : Digit(u, p) \in 0..15
      /\ u = Digit(u, 0) + 16 * Digit(u, 1) + 256 * Digit(u, 2)
             + 4096 * Digit(u, 3) + 65536 * Digit(u, 4) + 1048576 * Digit(u, 5)
  BY SMT, WordDigits
<1>3. /\ HexDigit(Digit(v, 0)) = HexDigit(Digit(u, 0))
      /\ HexDigit(Digit(v, 1)) = HexDigit(Digit(u, 1))
      /\ HexDigit(Digit(v, 2)) = HexDigit(Digit(u, 2))
      /\ HexDigit(Digit(v, 3)) = HexDigit(Digit(u, 3))
      /\ HexDigit(Digit(v, 4)) = HexDigit(Digit(u, 4))
      /\ HexDigit(Digit(v, 5)) = HexDigit(Digit(u, 5))
  BY SMT, <1>1, <1>2
<1>4. /\ Digit(v, 0) = Digit(u, 0) /\ Digit(v, 1) = Digit(u, 1)
      /\ Digit(v, 2) = Digit(u, 2) /\ Digit(v, 3) = Digit(u, 3)
      /\ Digit(v, 4) = Digit(u, 4) /\ Digit(v, 5) = Digit(u, 5)
  <2>1. \A p \in 0..7 : Digit(v, p) \in 0..15 /\ Digit(u, p) \in 0..15
    BY SMT, <1>1, <1>2
  <2>2. \A d, e \in 0..15 : HexDigit(d) = HexDigit(e) => d = e
    BY HexDigits
  <2> QED
    BY ONLY SMT, <1>3, <2>1, <2>2
<1> QED
  BY SMT, <1>1, <1>2, <1>4

\* Digits are a string.
LEMMA HexTyped ==
  ASSUME NEW v \in Nat, NEW n \in 1..8
  PROVE  Hex(v, n) \in Seq(0..255) /\ Len(Hex(v, n)) = n
<1>1. \A p \in 1..8 : PlaceValues[p] \in Nat /\ PlaceValues[p] > 0
  <2>1. \A p \in 1..8 : p \in {1, 2, 3, 4, 5, 6, 7, 8}
    BY SMT
  <2>2. /\ PlaceValues[1] = 1 /\ PlaceValues[2] = 16 /\ PlaceValues[3] = 256
        /\ PlaceValues[4] = 4096 /\ PlaceValues[5] = 65536 /\ PlaceValues[6] = 1048576
        /\ PlaceValues[7] = 16777216 /\ PlaceValues[8] = 268435456
    BY SMT DEF PlaceValues
  <2> QED
    BY SMT, <2>1, <2>2
<1>2. ASSUME NEW k \in 1..n
      PROVE  HexDigit((v \div PlaceValues[n - k + 1]) % 16) \in 0..255
  <2>1. n - k + 1 \in 1..8
    OBVIOUS
  <2>2. PICK p \in Nat : p = PlaceValues[n - k + 1] /\ p > 0
    BY <1>1, <2>1
  <2>3. PICK x \in Nat : x = v \div p
    BY <2>2
  <2>4. x % 16 \in 0..15
    OBVIOUS
  <2>5. HexDigit(x % 16) \in 0..255
    BY <2>4, HexDigits
  <2> QED
    BY <2>2, <2>3, <2>5
<1>3. Hex(v, n) \in [1..n -> 0..255] /\ n \in Nat
  BY <1>2 DEF Hex
<1> QED
  BY <1>3, SeqDef, LenProperties

\* The escape c of v: itself, a letter, or its digits.
EscapedAs(c, v, w, q) ==
  \/ Len(c) = 1 /\ c[1] = v /\ v # 92 /\ v # q
  \/ /\ Len(c) = 2 /\ c[1] = 92
     /\ \/ v = 9 /\ c[2] = 116
        \/ v = 10 /\ c[2] = 110
        \/ v = 13 /\ c[2] = 114
        \/ v = 92 /\ c[2] = 92
        \/ v = q /\ c[2] = q
  \/ /\ Len(c) = 4 /\ c[1] = 92 /\ c[2] = 120 /\ v \in 0..255 /\ w = 1
     /\ \A k \in 1..2 : c[2 + k] = Hex(v, 2)[k]
  \/ /\ Len(c) = 10 /\ c[1] = 92 /\ c[2] = 85 /\ w # 1
     /\ \A k \in 1..8 : c[2 + k] = Hex(v, 8)[k]

\* What Escaped gives is a string, one of these (escape_char_for_expected).
LEMMA EscapedParts ==
  ASSUME NEW w, NEW v \in Characters(w), NEW q \in {Quote, DoubleQuote}
  PROVE  /\ Escaped(v, w, q) \in Seq(0..255)
         /\ EscapedAs(Escaped(v, w, q), v, w, q)
<1>1. v \in Nat /\ v <= LastCharacter
  BY CharacterFacts
<1>2. q = 39 \/ q = 34
  BY DEF Quote, DoubleQuote
<1> DEFINE c == Escaped(v, w, q)
<1>3. \/ v = 9 /\ c = <<92, 116>>
      \/ v = 10 /\ c = <<92, 110>>
      \/ v = 13 /\ c = <<92, 114>>
      \/ v = 92 /\ c = <<92, 92>>
      \/ v = q /\ c = <<92, q>>
      \/ v # q /\ v # 92 /\ c = <<v>> /\ v \in 0..255
      \/ v \in 0..255 /\ w = 1 /\ c = <<92, 120>> \o Hex(v, 2)
      \/ w # 1 /\ c = <<92, 85>> \o Hex(v, 8)
  BY EscapedCases
<1> HIDE DEF c, EscapedAs
<1>4. CASE \/ v = 9 /\ c = <<92, 116>>
           \/ v = 10 /\ c = <<92, 110>>
           \/ v = 13 /\ c = <<92, 114>>
           \/ v = 92 /\ c = <<92, 92>>
           \/ v = q /\ c = <<92, q>>
  <2>1. PICK x \in 0..255 : c = <<92, x>>
    BY <1>2, <1>4
  <2>2. c \in Seq(0..255) /\ Len(c) = 2 /\ c[1] = 92 /\ c[2] = x
    BY <2>1
  <2> QED
    BY <1>2, <1>4, <2>1, <2>2 DEF c, EscapedAs
<1>5. CASE v # q /\ v # 92 /\ c = <<v>> /\ v \in 0..255
  <2>1. c \in Seq(0..255) /\ Len(c) = 1 /\ c[1] = v
    BY <1>5
  <2> QED
    BY <1>5, <2>1 DEF c, EscapedAs
<1>6. CASE v \in 0..255 /\ w = 1 /\ c = <<92, 120>> \o Hex(v, 2)
  <2>1. PICK h : h = Hex(v, 2)
    OBVIOUS
  <2>2. h \in Seq(0..255) /\ Len(h) = 2
    BY <1>1, <1>6, <2>1, HexTyped
  <2>3. c = <<92, 120>> \o h
    BY <1>6, <2>1
  <2>4. c \in Seq(0..255) /\ Len(c) = 4 /\ c[1] = 92 /\ c[2] = 120
        /\ \A k \in 1..2 : c[2 + k] = h[k]
    <3>1. PICK e : e = <<92, 120>>
      OBVIOUS
    <3>2. e \in Seq(0..255) /\ Len(e) = 2 /\ e[1] = 92 /\ e[2] = 120
      BY <3>1
    <3>3. Extends(0..255, e, h, c)
      BY <2>2, <2>3, <3>1, <3>2 DEF Extends
    <3>4. /\ c \in Seq(0..255) /\ Len(c) = Len(e) + Len(h)
          /\ \A k \in 1..Len(e) : c[k] = e[k]
          /\ \A k \in 1..Len(h) : c[Len(e) + k] = h[k]
      BY <3>3, ExtendsFacts
    <3>5. 1 \in 1..2 /\ 2 \in 1..2
      OBVIOUS
    <3> QED
      BY <2>2, <3>2, <3>4, <3>5
  <2> QED
    BY <1>6, <2>1, <2>4 DEF c, EscapedAs
<1>7. CASE w # 1 /\ c = <<92, 85>> \o Hex(v, 8)
  <2>1. PICK h : h = Hex(v, 8)
    OBVIOUS
  <2>2. h \in Seq(0..255) /\ Len(h) = 8
    BY <1>1, <2>1, HexTyped
  <2>3. c = <<92, 85>> \o h
    BY <1>7, <2>1
  <2>4. c \in Seq(0..255) /\ Len(c) = 10 /\ c[1] = 92 /\ c[2] = 85
        /\ \A k \in 1..8 : c[2 + k] = h[k]
    <3>1. PICK e : e = <<92, 85>>
      OBVIOUS
    <3>2. e \in Seq(0..255) /\ Len(e) = 2 /\ e[1] = 92 /\ e[2] = 85
      BY <3>1
    <3>3. Extends(0..255, e, h, c)
      BY <2>2, <2>3, <3>1, <3>2 DEF Extends
    <3>4. /\ c \in Seq(0..255) /\ Len(c) = Len(e) + Len(h)
          /\ \A k \in 1..Len(e) : c[k] = e[k]
          /\ \A k \in 1..Len(h) : c[Len(e) + k] = h[k]
      BY <3>3, ExtendsFacts
    <3>5. 1 \in 1..2 /\ 2 \in 1..2
      OBVIOUS
    <3> QED
      BY <2>2, <3>2, <3>4, <3>5
  <2> QED
    BY <1>7, <2>1, <2>4 DEF c, EscapedAs
<1> QED
  BY <1>3, <1>4, <1>5, <1>6, <1>7

\* Two escapes that go together as far as the shorter goes are of one character.
LEMMA EscapedApart ==
  ASSUME NEW w, NEW v \in Characters(w), NEW u \in Characters(w),
         NEW q \in {Quote, DoubleQuote}, Alike(Escaped(v, w, q), Escaped(u, w, q))
  PROVE  v = u
<1>1. PICK c, d : c = Escaped(v, w, q) /\ d = Escaped(u, w, q)
  OBVIOUS
<1>2. EscapedAs(c, v, w, q)
  BY <1>1, EscapedParts
<1>3. EscapedAs(d, u, w, q)
  BY <1>1, EscapedParts
<1>4. q = 39 \/ q = 34
  BY DEF Quote, DoubleQuote
<1>5. \A k \in 1..Len(c) : k <= Len(d) => c[k] = d[k]
  BY <1>1 DEF Alike
<1>6. c[1] = d[1] /\ (Len(c) > 1 /\ Len(d) > 1 => c[2] = d[2])
  <2>1. Len(c) \in {1, 2, 4, 10} /\ Len(d) \in {1, 2, 4, 10}
    BY <1>2, <1>3 DEF EscapedAs
  <2> QED
    BY <1>5, <2>1
<1>7. CASE Len(c) = 1 \/ Len(c) = 2 \/ Len(d) = 1 \/ Len(d) = 2
  <2>1. \/ Len(c) = 1 /\ c[1] = v /\ v # 92 /\ v # q
        \/ /\ Len(c) = 2 /\ c[1] = 92
           /\ \/ v = 9 /\ c[2] = 116
              \/ v = 10 /\ c[2] = 110
              \/ v = 13 /\ c[2] = 114
              \/ v = 92 /\ c[2] = 92
              \/ v = q /\ c[2] = q
        \/ Len(c) \in {4, 10} /\ c[1] = 92 /\ c[2] \in {120, 85}
    BY <1>2 DEF EscapedAs
  <2>2. \/ Len(d) = 1 /\ d[1] = u /\ u # 92 /\ u # q
        \/ /\ Len(d) = 2 /\ d[1] = 92
           /\ \/ u = 9 /\ d[2] = 116
              \/ u = 10 /\ d[2] = 110
              \/ u = 13 /\ d[2] = 114
              \/ u = 92 /\ d[2] = 92
              \/ u = q /\ d[2] = q
        \/ Len(d) \in {4, 10} /\ d[1] = 92 /\ d[2] \in {120, 85}
    BY <1>3 DEF EscapedAs
  <2>3. CASE Len(c) = 1 \/ Len(d) = 1
    BY <1>6, <2>1, <2>2, <2>3
  <2>4. CASE Len(c) # 1 /\ Len(d) # 1
    <3>1. c[2] = d[2]
      BY <1>6, <2>1, <2>2, <2>4
    <3>2. c[2] \notin {120, 85} \/ d[2] \notin {120, 85}
      BY <1>4, <1>7, <2>1, <2>2, <2>4
    <3> QED
      BY <1>4, <2>1, <2>2, <2>4, <3>1, <3>2
  <2> QED
    BY <2>3, <2>4
<1>8. CASE Len(c) = 4 /\ Len(d) = 4
  <2>1. \A k \in 1..2 : c[2 + k] = d[2 + k]
    BY <1>5, <1>8
  <2>2. v \in 0..255 /\ u \in 0..255 /\ \A k \in 1..2 : Hex(v, 2)[k] = Hex(u, 2)[k]
    BY <1>2, <1>3, <1>8, <2>1 DEF EscapedAs
  <2> QED
    BY <2>2, ByteApart
<1>9. CASE Len(c) = 10 /\ Len(d) = 10
  <2>1. \A k \in 1..8 : c[2 + k] = d[2 + k]
    BY <1>5, <1>9
  <2>2. \A k \in 1..8 : Hex(v, 8)[k] = Hex(u, 8)[k]
    BY <1>2, <1>3, <1>9, <2>1 DEF EscapedAs
  <2> QED
    BY <2>2, CharacterFacts, WordApart
<1> QED
  BY <1>2, <1>3, <1>7, <1>8, <1>9 DEF EscapedAs

\* A text in quotes: <<q>> \o x \o <<q>>.
Quoted(x, q) == <<q>> \o x \o <<q>>

\* d is x in quotes.
QuotedAs(T, x, q, d) ==
  /\ d \in Seq(T) /\ d # <<>> /\ d[1] = q /\ Len(d) = Len(x) + 2
  /\ Len(x) \in Nat /\ Len(d) \in Nat
  /\ \A k \in 1..Len(x) : d[k + 1] = x[k]

\* The places of a quoted text.
LEMMA QuotedFacts ==
  ASSUME NEW T, NEW x \in Seq(T), NEW q \in T
  PROVE  QuotedAs(T, x, q, Quoted(x, q))
<1>1. PICK e : e = <<q>>
  OBVIOUS
<1>2. e \in Seq(T) /\ Len(e) = 1 /\ e[1] = q
  BY <1>1
<1>3. PICK y : y = e \o x
  OBVIOUS
<1>4. PICK d : d = y \o e
  OBVIOUS
<1>5. Extends(T, e, x, y)
  BY <1>2, <1>3 DEF Extends
<1>6. /\ y \in Seq(T) /\ Len(y) = Len(e) + Len(x) /\ Len(x) \in Nat /\ Len(y) \in Nat
      /\ \A k \in 1..Len(e) : y[k] = e[k]
      /\ \A k \in 1..Len(x) : y[Len(e) + k] = x[k]
  BY <1>5, ExtendsFacts
<1>7. Extends(T, y, e, d)
  BY <1>2, <1>4, <1>6 DEF Extends
<1>8. /\ d \in Seq(T) /\ Len(d) = Len(y) + Len(e) /\ Len(d) \in Nat
      /\ \A k \in 1..Len(y) : d[k] = y[k]
  BY <1>7, ExtendsFacts
<1>9. Quoted(x, q) = d
  BY <1>1, <1>3, <1>4 DEF Quoted
<1>10. d[1] = q
  <2>1. 1 \in 1..Len(e) /\ 1 \in 1..Len(y)
    BY <1>2, <1>6
  <2> QED
    BY <1>2, <1>6, <1>8, <2>1
<1>11. \A k \in 1..Len(x) : d[k + 1] = x[k]
  <2> SUFFICES ASSUME NEW k \in 1..Len(x) PROVE d[k + 1] = x[k]
    OBVIOUS
  <2>1. k + 1 \in 1..Len(y) /\ k + 1 = Len(e) + k
    BY <1>2, <1>6
  <2> QED
    BY <1>6, <1>8, <2>1
<1>12. Len(d) = Len(x) + 2 /\ d # <<>>
  <2>1. Len(d) = Len(x) + 2
    BY <1>2, <1>6, <1>8
  <2> QED
    BY <1>6, <1>8, <2>1, EmptySeq
<1> QED
  BY <1>6, <1>8, <1>9, <1>10, <1>11, <1>12 DEF QuotedAs

\* Quotes keep texts apart.
LEMMA QuotedSame ==
  ASSUME NEW T, NEW x \in Seq(T), NEW y \in Seq(T), NEW q \in T
  PROVE  /\ Quoted(x, q) = Quoted(y, q) => x = y
         /\ Alike(Quoted(x, q), Quoted(y, q)) => Alike(x, y)
<1>1. PICK c, d : c = Quoted(x, q) /\ d = Quoted(y, q)
  OBVIOUS
<1>2. Len(c) = Len(x) + 2 /\ Len(x) \in Nat /\ \A k \in 1..Len(x) : c[k + 1] = x[k]
  <2>1. QuotedAs(T, x, q, c)
    BY <1>1, QuotedFacts
  <2> QED
    BY <2>1 DEF QuotedAs
<1>3. Len(d) = Len(y) + 2 /\ Len(y) \in Nat /\ \A k \in 1..Len(y) : d[k + 1] = y[k]
  <2>1. QuotedAs(T, y, q, d)
    BY <1>1, QuotedFacts
  <2> QED
    BY <2>1 DEF QuotedAs
<1>4. ASSUME c = d PROVE x = y
  <2>1. Len(x) = Len(y) /\ \A k \in 1..Len(x) : x[k] = y[k]
    BY <1>2, <1>3, <1>4
  <2> QED
    BY <2>1, SeqEqual
<1>5. ASSUME Alike(c, d) PROVE Alike(x, y)
  <2> SUFFICES ASSUME NEW k \in 1..Len(x), k <= Len(y) PROVE x[k] = y[k]
    BY DEF Alike
  <2>1. k + 1 \in 1..Len(c) /\ k + 1 <= Len(d) /\ k \in 1..Len(y)
    BY <1>2, <1>3
  <2>2. c[k + 1] = d[k + 1]
    BY <1>5, <2>1 DEF Alike
  <2> QED
    BY <1>2, <1>3, <2>1, <2>2
<1> QED
  BY <1>1, <1>4, <1>5

\* A character in quotes.
LEMMA CharApart ==
  ASSUME NEW w, NEW v \in Characters(w), NEW u \in Characters(w)
  PROVE  /\ escape_char_for_expected(v, w) \in Seq(0..255)
         /\ escape_char_for_expected(v, w) # <<>>
         /\ escape_char_for_expected(v, w)[1] = 39
         /\ Alike(escape_char_for_expected(v, w), escape_char_for_expected(u, w)) => v = u
<1>1. /\ escape_char_for_expected(v, w) = Quoted(Escaped(v, w, Quote), Quote)
      /\ escape_char_for_expected(u, w) = Quoted(Escaped(u, w, Quote), Quote)
  BY DEF escape_char_for_expected, Quoted
<1>2. Escaped(v, w, Quote) \in Seq(0..255) /\ Escaped(u, w, Quote) \in Seq(0..255)
  BY EscapedParts
<1>3. Quote \in 0..255 /\ Quote = 39
  BY DEF Quote
<1>4. /\ Quoted(Escaped(v, w, Quote), Quote) \in Seq(0..255)
      /\ Quoted(Escaped(v, w, Quote), Quote) # <<>>
      /\ Quoted(Escaped(v, w, Quote), Quote)[1] = 39
  BY <1>2, <1>3, QuotedFacts DEF QuotedAs
<1>5. ASSUME Alike(Quoted(Escaped(v, w, Quote), Quote), Quoted(Escaped(u, w, Quote), Quote))
      PROVE  v = u
  <2>1. Alike(Escaped(v, w, Quote), Escaped(u, w, Quote))
    BY <1>2, <1>3, <1>5, QuotedSame
  <2> QED
    BY <2>1, EscapedApart
<1> QED
  BY <1>1, <1>4, <1>5

\* The bytes c of v: itself, or a lead byte and six bits in each further one.
DisplayAs(c, v, w) ==
  \/ Len(c) = 1 /\ c[1] = v /\ (w = 1 \/ v <= 127)
  \/ /\ w # 1 /\ Len(c) = 2 /\ c[1] \in 192..223
     /\ v = 64 * (c[1] - 192) + (c[2] - 128)
  \/ /\ w # 1 /\ Len(c) = 3 /\ c[1] \in 224..239
     /\ v = 4096 * (c[1] - 224) + 64 * (c[2] - 128) + (c[3] - 128)
  \/ /\ w # 1 /\ Len(c) = 4 /\ c[1] \in 240..244
     /\ v = 262144 * (c[1] - 240) + 4096 * (c[2] - 128) + 64 * (c[3] - 128)
            + (c[4] - 128)

\* Six bits and the rest.
LEMMA SixtyFour ==
  ASSUME NEW v \in Nat
  PROVE  v \div 64 \in Nat /\ v % 64 \in 0..63 /\ v = 64 * (v \div 64) + (v % 64)
  BY SMT

\* What to_display gives is a string, one of these.
LEMMA DisplayParts ==
  ASSUME NEW w, NEW v \in Characters(w)
  PROVE  /\ to_display(v, w) \in Seq(0..255)
         /\ DisplayAs(to_display(v, w), v, w)
<1> DEFINE c == to_display(v, w)
<1>1. v \in Nat /\ v <= LastCharacter /\ (w = 1 => v \in 0..255)
  BY CharacterFacts
<1>2. CASE w = 1 \/ v <= 127
  <2>1. v \in 0..255 /\ c = <<v>>
    BY <1>1, <1>2 DEF to_display
  <2> HIDE DEF c
  <2>2. c \in Seq(0..255) /\ Len(c) = 1 /\ c[1] = v
    BY <2>1
  <2> QED
    BY <1>2, <2>2 DEF c, DisplayAs
<1>3. PICK a \in Nat, z \in 0..63 : a = v \div 64 /\ z = v % 64 /\ v = 64 * a + z
  BY <1>1, SixtyFour
<1>4. CASE ~ (w = 1 \/ v <= 127) /\ v <= 2047
  <2>1. c = <<192 + a, 128 + z>>
    BY <1>3, <1>4 DEF to_display
  <2>2. 192 + a \in 192..223 /\ 128 + z \in 0..255 /\ 192 + a \in 0..255
    BY <1>1, <1>3, <1>4
  <2> HIDE DEF c
  <2>3. c \in Seq(0..255) /\ Len(c) = 2 /\ c[1] = 192 + a /\ c[2] = 128 + z
    BY <2>1, <2>2
  <2>4. v = 64 * (c[1] - 192) + (c[2] - 128)
    BY <1>3, <2>3
  <2> QED
    BY <1>4, <2>2, <2>3, <2>4 DEF c, DisplayAs
<1>5. PICK b \in Nat, y \in 0..63 :
        /\ b = v \div 4096 /\ y = (v \div 64) % 64 /\ a = 64 * b + y
  <2>1. a \div 64 \in Nat /\ a % 64 \in 0..63 /\ a = 64 * (a \div 64) + (a % 64)
    BY SixtyFour
  <2>2. v \div 4096 = (v \div 64) \div 64
    BY SMT, <1>1
  <2> QED
    BY <1>3, <2>1, <2>2, SMT
<1>6. CASE ~ (w = 1 \/ v <= 127) /\ ~ (v <= 2047) /\ v <= 65535
  <2>1. c = <<224 + b, 128 + y, 128 + z>>
    BY SMT, <1>3, <1>5, <1>6 DEF to_display
  <2>2. 224 + b \in 224..239
    BY SMT, <1>1, <1>3, <1>5, <1>6
  <2>3. 128 + y \in 0..255 /\ 128 + z \in 0..255 /\ 224 + b \in 0..255
    BY SMT, <2>2
  <2> HIDE DEF c
  <2>4. c \in Seq(0..255) /\ Len(c) = 3 /\ c[1] = 224 + b /\ c[2] = 128 + y /\ c[3] = 128 + z
    BY SMT, <2>1, <2>3
  <2>5. v = 4096 * (c[1] - 224) + 64 * (c[2] - 128) + (c[3] - 128)
    BY SMT, <1>3, <1>5, <2>4
  <2> QED
    BY SMT, <1>6, <2>2, <2>4, <2>5 DEF c, DisplayAs
<1>7. PICK d \in Nat, x \in 0..63 :
        /\ d = v \div 262144 /\ x = (v \div 4096) % 64 /\ b = 64 * d + x
  <2>1. b \div 64 \in Nat /\ b % 64 \in 0..63 /\ b = 64 * (b \div 64) + (b % 64)
    BY SixtyFour
  <2>2. v \div 262144 = (v \div 4096) \div 64
    BY SMT, <1>1
  <2> QED
    BY SMT, <1>5, <2>1, <2>2
<1>8. CASE ~ (w = 1 \/ v <= 127) /\ ~ (v <= 2047) /\ ~ (v <= 65535)
  <2>1. d <= 4
    BY SMT, <1>1, <1>3, <1>5, <1>7 DEF LastCharacter
  <2>2. (240 + d) % 256 = 240 + d /\ 240 + d \in 240..244
    BY SMT, <2>1
  <2>3. c = <<240 + d, 128 + x, 128 + y, 128 + z>>
    BY SMT, <1>3, <1>5, <1>7, <1>8, <2>2 DEF to_display
  <2>4. /\ 240 + d \in 0..255 /\ 128 + x \in 0..255
        /\ 128 + y \in 0..255 /\ 128 + z \in 0..255
    BY SMT, <2>2
  <2> HIDE DEF c
  <2>5. /\ c \in Seq(0..255) /\ Len(c) = 4 /\ c[1] = 240 + d
        /\ c[2] = 128 + x /\ c[3] = 128 + y /\ c[4] = 128 + z
    BY SMT, <2>3, <2>4
  <2>6. v = 262144 * (c[1] - 240) + 4096 * (c[2] - 128) + 64 * (c[3] - 128)
            + (c[4] - 128)
    BY SMT, <1>3, <1>5, <1>7, <2>5
  <2> QED
    BY SMT, <1>8, <2>2, <2>5, <2>6 DEF c, DisplayAs
<1> QED
  BY <1>2, <1>4, <1>6, <1>8

\* No character's UTF-8 begins another's.
LEMMA DisplayApart ==
  ASSUME NEW w, NEW v \in Characters(w), NEW u \in Characters(w),
         Alike(to_display(v, w), to_display(u, w))
  PROVE  v = u
<1>1. PICK c, d : c = to_display(v, w) /\ d = to_display(u, w)
  OBVIOUS
<1>2. DisplayAs(c, v, w) /\ DisplayAs(d, u, w)
  BY <1>1, DisplayParts
<1>3. \A k \in 1..Len(c) : k <= Len(d) => c[k] = d[k]
  BY <1>1 DEF Alike
<1>4. Len(c) \in 1..4 /\ Len(d) \in 1..4
  BY SMT, <1>2 DEF DisplayAs
<1>5. v \in Nat /\ u \in Nat
  BY CharacterFacts
<1>6. c[1] = d[1]
  BY <1>3, <1>4
<1>7. Len(c) = Len(d)
  <2>1. CASE w = 1
    BY SMT, <1>2, <2>1 DEF DisplayAs
  <2>2. CASE w # 1
    <3>1. \/ Len(c) = 1 /\ c[1] \in Nat /\ c[1] <= 127
          \/ Len(c) = 2 /\ c[1] \in 192..223
          \/ Len(c) = 3 /\ c[1] \in 224..239
          \/ Len(c) = 4 /\ c[1] \in 240..244
      BY SMT, <1>2, <1>5, <2>2 DEF DisplayAs
    <3>2. \/ Len(d) = 1 /\ d[1] \in Nat /\ d[1] <= 127
          \/ Len(d) = 2 /\ d[1] \in 192..223
          \/ Len(d) = 3 /\ d[1] \in 224..239
          \/ Len(d) = 4 /\ d[1] \in 240..244
      BY SMT, <1>2, <1>5, <2>2 DEF DisplayAs
    <3>3. PICK x, m, n : x = c[1] /\ x = d[1] /\ m = Len(c) /\ n = Len(d)
      BY <1>6
    <3>4. \/ m = 1 /\ x \in Nat /\ x <= 127
          \/ m = 2 /\ x \in 192..223
          \/ m = 3 /\ x \in 224..239
          \/ m = 4 /\ x \in 240..244
      BY ONLY SMT, <3>1, <3>3
    <3>5. \/ n = 1 /\ x \in Nat /\ x <= 127
          \/ n = 2 /\ x \in 192..223
          \/ n = 3 /\ x \in 224..239
          \/ n = 4 /\ x \in 240..244
      BY ONLY SMT, <3>2, <3>3
    <3>6. m = n
      BY ONLY SMT, <3>4, <3>5
    <3> QED
      BY <3>3, <3>6
  <2> QED
    BY <2>1, <2>2
<1>8. /\ Len(c) > 1 => c[2] = d[2]
      /\ Len(c) > 2 => c[3] = d[3]
      /\ Len(c) > 3 => c[4] = d[4]
  BY <1>3, <1>4, <1>7
<1>9. CASE Len(c) = 1
  BY SMT, <1>2, <1>6, <1>7, <1>9 DEF DisplayAs
<1>10. CASE Len(c) = 2
  BY SMT, <1>2, <1>6, <1>7, <1>8, <1>10 DEF DisplayAs
<1>11. CASE Len(c) = 3
  BY SMT, <1>2, <1>6, <1>7, <1>8, <1>11 DEF DisplayAs
<1>12. CASE Len(c) = 4
  BY SMT, <1>2, <1>6, <1>7, <1>8, <1>12 DEF DisplayAs
<1> QED
  BY <1>4, <1>9, <1>10, <1>11, <1>12

\* A function on the first places is a sequence.
LEMMA WordsTyped ==
  ASSUME NEW S, NEW n \in Nat, NEW V \in [1..n -> S]
  PROVE  V \in Seq(S) /\ Len(V) = n
  BY SeqDef, LenProperties

\* Strings put together are a string.
LEMMA FlattenTyped ==
  ASSUME NEW T, NEW W \in Seq(Seq(T))
  PROVE  FlattenSeq(W) \in Seq(T)
<1>1. PICK f : Heads(T, W, f)
  BY FlattenSteps
<1>2. Len(W) \in 0..Len(W)
  BY LenProperties
<1> QED
  BY <1>1, <1>2 DEF Heads

\* A word for each place of s ...
WordsOf(T, s, V) ==
  V \in [1..Len(s) -> Seq(T)] /\ \A k \in 1..Len(s) : V[k] # <<>>

\* ... they are a sequence of words ...
LEMMA WordsOfTyped ==
  ASSUME NEW S, NEW T, NEW s \in Seq(S), NEW V, WordsOf(T, s, V)
  PROVE  V \in Seq(Seq(T)) /\ Len(V) = Len(s)
<1>1. PICK n : n = Len(s) /\ n \in Nat
  BY LenProperties
<1>2. V \in [1..n -> Seq(T)]
  BY <1>1 DEF WordsOf
<1> QED
  BY <1>1, <1>2, WordsTyped

\* ... that tells what is there.
TellApart(s, V, t, W) ==
  \A k \in 1..Len(s) :
    k <= Len(t) /\ Alike(V[k], W[k]) => s[k] = t[k] /\ V[k] = W[k]

\* Where each word tells what it stands for the texts do.
LEMMA SameTexts ==
  ASSUME NEW S, NEW T, NEW s \in Seq(S), NEW t \in Seq(S), NEW V, NEW W,
         WordsOf(T, s, V), WordsOf(T, t, W), TellApart(s, V, t, W),
         FlattenSeq(V) = FlattenSeq(W)
  PROVE  s = t
<1> USE DEF WordsOf, TellApart
<1>1. Len(s) \in Nat /\ Len(t) \in Nat
  BY LenProperties
<1>2. V \in Seq(Seq(T)) /\ Len(V) = Len(s)
  BY <1>1, WordsTyped
<1>3. W \in Seq(Seq(T)) /\ Len(W) = Len(t)
  BY <1>1, WordsTyped
<1>4. V = W
  <2>1. \A i \in 1..Len(V) : i <= Len(W) /\ Alike(V[i], W[i]) => V[i] = W[i]
    BY <1>2, <1>3
  <2>2. /\ \A i \in 1..Len(V) : V[i] # <<>>
        /\ \A i \in 1..Len(W) : W[i] # <<>>
    BY <1>2, <1>3
  <2> QED
    BY <1>2, <1>3, <2>1, <2>2, FlattenApart
<1>5. Len(s) = Len(t)
  BY <1>2, <1>3, <1>4
<1>6. ASSUME NEW k \in 1..Len(s) PROVE s[k] = t[k]
  <2>1. k <= Len(t)
    BY <1>1, <1>5
  <2>2. Alike(V[k], W[k])
    BY <1>4 DEF Alike
  <2> QED
    BY <2>1, <2>2
<1> QED
  BY <1>5, <1>6, SeqEqual

\* A literal's text, as yet without escapes.
Displayed(s, w) == FlattenSeq([k \in 1..Len(s) |-> to_display(s[k], w)])

\* UTF-8 keeps literals apart (to_display).
LEMMA DisplayedApart ==
  ASSUME NEW w, NEW s \in Seq(Characters(w)), NEW t \in Seq(Characters(w))
  PROVE  /\ Displayed(s, w) \in Seq(0..255)
         /\ Displayed(s, w) = Displayed(t, w) => s = t
<1> DEFINE V == [k \in 1..Len(s) |-> to_display(s[k], w)]
           W == [k \in 1..Len(t) |-> to_display(t[k], w)]
<1>1. /\ Len(s) \in Nat /\ Len(t) \in Nat
      /\ \A k \in 1..Len(s) : s[k] \in Characters(w)
      /\ \A k \in 1..Len(t) : t[k] \in Characters(w)
  BY LenProperties, ElementOfSeq
<1>2. ASSUME NEW v \in Characters(w)
      PROVE  to_display(v, w) \in Seq(0..255) /\ to_display(v, w) # <<>>
  <2>1. to_display(v, w) \in Seq(0..255) /\ DisplayAs(to_display(v, w), v, w)
    BY DisplayParts
  <2>2. Len(to_display(v, w)) # 0
    BY SMT, <2>1 DEF DisplayAs
  <2> QED
    BY <2>1, <2>2
<1>3. WordsOf(0..255, s, V)
  BY <1>1, <1>2 DEF WordsOf
<1>4. WordsOf(0..255, t, W)
  BY <1>1, <1>2 DEF WordsOf
<1>5. TellApart(s, V, t, W)
  <2> SUFFICES ASSUME NEW k \in 1..Len(s), k <= Len(t), Alike(V[k], W[k])
               PROVE  s[k] = t[k] /\ V[k] = W[k]
    BY DEF TellApart
  <2>1. k \in 1..Len(t)
    BY <1>1
  <2>2. V[k] = to_display(s[k], w) /\ W[k] = to_display(t[k], w)
    BY <2>1
  <2> HIDE DEF V, W
  <2>3. s[k] = t[k]
    BY <1>1, <2>1, <2>2, DisplayApart
  <2> QED
    BY <2>2, <2>3
<1>6. Displayed(s, w) = FlattenSeq(V) /\ Displayed(t, w) = FlattenSeq(W)
  BY DEF Displayed
<1> HIDE DEF V, W
<1>7. FlattenSeq(V) = FlattenSeq(W) => s = t
  BY <1>3, <1>4, <1>5, SameTexts
<1>8. V \in Seq(Seq(0..255))
  BY <1>3, WordsOfTyped
<1> QED
  BY <1>6, <1>7, <1>8, FlattenTyped

\* The bytes are the characters of char.
LEMMA BytesAreCharacters == 0..255 = Characters(1)
  BY SMT DEF Characters

\* Escapes keep strings apart (escape_string_for_expected).
LEMMA StringApart ==
  ASSUME NEW s \in Seq(0..255), NEW t \in Seq(0..255)
  PROVE  /\ escape_string_for_expected(s) \in Seq(0..255)
         /\ escape_string_for_expected(s)[1] = 34
         /\ escape_string_for_expected(s) = escape_string_for_expected(t) => s = t
<1> DEFINE V == [k \in 1..Len(s) |-> Escaped(s[k], 1, DoubleQuote)]
           W == [k \in 1..Len(t) |-> Escaped(t[k], 1, DoubleQuote)]
<1>1. /\ Len(s) \in Nat /\ Len(t) \in Nat
      /\ \A k \in 1..Len(s) : s[k] \in Characters(1)
      /\ \A k \in 1..Len(t) : t[k] \in Characters(1)
  BY LenProperties, ElementOfSeq, BytesAreCharacters
<1>2. ASSUME NEW v \in Characters(1)
      PROVE  Escaped(v, 1, DoubleQuote) \in Seq(0..255) /\ Escaped(v, 1, DoubleQuote) # <<>>
  <2>1. /\ Escaped(v, 1, DoubleQuote) \in Seq(0..255)
        /\ EscapedAs(Escaped(v, 1, DoubleQuote), v, 1, DoubleQuote)
    BY EscapedParts
  <2>2. Len(Escaped(v, 1, DoubleQuote)) # 0
    BY SMT, <2>1 DEF EscapedAs
  <2> QED
    BY <2>1, <2>2
<1>3. WordsOf(0..255, s, V)
  BY <1>1, <1>2 DEF WordsOf
<1>4. WordsOf(0..255, t, W)
  BY <1>1, <1>2 DEF WordsOf
<1>5. TellApart(s, V, t, W)
  <2> SUFFICES ASSUME NEW k \in 1..Len(s), k <= Len(t), Alike(V[k], W[k])
               PROVE  s[k] = t[k] /\ V[k] = W[k]
    BY DEF TellApart
  <2>1. k \in 1..Len(t)
    BY <1>1
  <2>2. V[k] = Escaped(s[k], 1, DoubleQuote) /\ W[k] = Escaped(t[k], 1, DoubleQuote)
    BY <2>1
  <2> HIDE DEF V, W
  <2>3. s[k] = t[k]
    BY <1>1, <2>1, <2>2, EscapedApart
  <2> QED
    BY <2>2, <2>3
<1>6. /\ escape_string_for_expected(s) = Quoted(FlattenSeq(V), DoubleQuote)
      /\ escape_string_for_expected(t) = Quoted(FlattenSeq(W), DoubleQuote)
  BY DEF escape_string_for_expected, Quoted
<1> HIDE DEF V, W
<1>7. FlattenSeq(V) = FlattenSeq(W) => s = t
  BY <1>3, <1>4, <1>5, SameTexts
<1>8. V \in Seq(Seq(0..255)) /\ W \in Seq(Seq(0..255))
  BY <1>3, <1>4, WordsOfTyped
<1>9. FlattenSeq(V) \in Seq(0..255) /\ FlattenSeq(W) \in Seq(0..255)
  BY <1>8, FlattenTyped
<1>10. DoubleQuote \in 0..255 /\ DoubleQuote = 34
  BY DEF DoubleQuote
<1>11. QuotedAs(0..255, FlattenSeq(V), DoubleQuote, Quoted(FlattenSeq(V), DoubleQuote))
  BY <1>9, <1>10, QuotedFacts
<1>12. Quoted(FlattenSeq(V), DoubleQuote) = Quoted(FlattenSeq(W), DoubleQuote)
       => FlattenSeq(V) = FlattenSeq(W)
  BY <1>9, <1>10, QuotedSame
<1> QED
  BY <1>6, <1>7, <1>10, <1>11, <1>12 DEF QuotedAs

\* Texts that go together do so in what they begin with, and where they begin
\* with the same in what follows.
LEMMA AlikeParts ==
  ASSUME NEW T, NEW u, NEW x, NEW c, NEW v, NEW y, NEW d,
         Extends(T, u, x, c), Extends(T, v, y, d), Alike(c, d)
  PROVE  Alike(u, v) /\ (u = v => Alike(x, y))
<1>1. /\ Len(c) = Len(u) + Len(x)
      /\ Len(c) \in Nat /\ Len(u) \in Nat /\ Len(x) \in Nat
      /\ \A k \in 1..Len(u) : c[k] = u[k]
      /\ \A k \in 1..Len(x) : c[Len(u) + k] = x[k]
  BY ExtendsFacts
<1>2. /\ Len(d) = Len(v) + Len(y)
      /\ Len(d) \in Nat /\ Len(v) \in Nat /\ Len(y) \in Nat
      /\ \A k \in 1..Len(v) : d[k] = v[k]
      /\ \A k \in 1..Len(y) : d[Len(v) + k] = y[k]
  BY ExtendsFacts
<1>3. ASSUME NEW k \in 1..Len(u), k <= Len(v) PROVE u[k] = v[k]
  <2>1. k \in 1..Len(c) /\ k <= Len(d) /\ k \in 1..Len(v)
    BY <1>1, <1>2, <1>3
  <2>2. c[k] = d[k]
    BY <2>1 DEF Alike
  <2> QED
    BY <1>1, <1>2, <2>1, <2>2
<1>4. ASSUME u = v, NEW k \in 1..Len(x), k <= Len(y) PROVE x[k] = y[k]
  <2>1. /\ Len(u) + k \in 1..Len(c) /\ Len(u) + k <= Len(d)
        /\ k \in 1..Len(y) /\ Len(u) = Len(v)
    BY <1>1, <1>2, <1>4
  <2>2. c[Len(u) + k] = d[Len(u) + k]
    BY <2>1 DEF Alike
  <2>3. c[Len(u) + k] = x[k]
    BY <1>1
  <2>4. d[Len(u) + k] = y[k]
    BY <1>2, <2>1
  <2> QED
    BY <2>2, <2>3, <2>4
<1> QED
  BY <1>3, <1>4 DEF Alike

\* A text goes together with itself.
LEMMA AlikeSame == ASSUME NEW c PROVE Alike(c, c)
  BY DEF Alike

\* A character in quotes.
Shows(c, w) == escape_char_for_expected(c, w)

\* A set's words, the later ones with their commas.
Members(s, w) ==
  [k \in 1..Len(s) |-> IF k = 1 THEN Shows(s[k], w) ELSE CommaSpace \o Shows(s[k], w)]

\* A character in quotes is a string that starts with one.
LEMMA ShowsTyped ==
  ASSUME NEW w, NEW v \in Characters(w)
  PROVE  /\ Shows(v, w) \in Seq(0..255) /\ Len(Shows(v, w)) \in Nat
         /\ Len(Shows(v, w)) # 0 /\ Shows(v, w)[1] = 39
<1>1. /\ Shows(v, w) \in Seq(0..255) /\ Shows(v, w) # <<>>
      /\ Shows(v, w)[1] = 39
  BY CharApart DEF Shows
<1> QED
  BY <1>1, EmptySeq, LenProperties

\* ... and tells the character.
LEMMA ShowsApart ==
  ASSUME NEW w, NEW v \in Characters(w), NEW u \in Characters(w),
         Alike(Shows(v, w), Shows(u, w))
  PROVE  v = u
  BY CharApart DEF Shows

\* A later member of a set starts with a comma.
LEMMA CommaTyped ==
  ASSUME NEW x \in Seq(0..255)
  PROVE  /\ Extends(0..255, CommaSpace, x, CommaSpace \o x)
         /\ CommaSpace \o x \in Seq(0..255) /\ CommaSpace \o x # <<>>
         /\ (CommaSpace \o x)[1] = 44 /\ Len(CommaSpace \o x) \in Nat
         /\ Len(CommaSpace \o x) >= 2
<1>1. PICK e : e = CommaSpace
  OBVIOUS
<1>2. e \in Seq(0..255) /\ Len(e) = 2 /\ e[1] = 44
  BY <1>1 DEF CommaSpace
<1>3. PICK d : d = e \o x
  OBVIOUS
<1>4. Extends(0..255, e, x, d)
  BY <1>2, <1>3 DEF Extends
<1>5. /\ d \in Seq(0..255) /\ Len(d) = Len(e) + Len(x) /\ Len(x) \in Nat
      /\ \A k \in 1..Len(e) : d[k] = e[k]
  BY <1>4, ExtendsFacts
<1>6. d[1] = 44 /\ Len(d) \in Nat /\ Len(d) >= 2
  BY <1>2, <1>5
<1>7. d # <<>>
  BY <1>6, EmptySeq
<1> QED
  BY <1>1, <1>3, <1>4, <1>5, <1>6, <1>7

\* Each member of a set has its word.
LEMMA MemberWords ==
  ASSUME NEW w, NEW s \in Seq(Characters(w))
  PROVE  /\ WordsOf(0..255, s, Members(s, w))
         /\ Members(s, w) \in Seq(Seq(0..255)) /\ Len(Members(s, w)) = Len(s)
<1>1. \A k \in 1..Len(s) : s[k] \in Characters(w)
  BY ElementOfSeq
<1>2. ASSUME NEW v \in Characters(w)
      PROVE  /\ Shows(v, w) \in Seq(0..255) /\ Shows(v, w) # <<>>
             /\ CommaSpace \o Shows(v, w) \in Seq(0..255)
             /\ CommaSpace \o Shows(v, w) # <<>>
  BY ShowsTyped, CommaTyped, EmptySeq
<1>3. WordsOf(0..255, s, Members(s, w))
  BY <1>1, <1>2 DEF WordsOf, Members
<1>4. PICK W : W = Members(s, w)
  OBVIOUS
<1>5. WordsOf(0..255, s, W)
  BY <1>3, <1>4
<1>6. W \in Seq(Seq(0..255)) /\ Len(W) = Len(s)
  BY <1>5, WordsOfTyped
<1> QED
  BY <1>3, <1>4, <1>6

\* The text of a set tells its members.
LEMMA JoinedApart ==
  ASSUME NEW w, NEW s \in Seq(Characters(w)), NEW t \in Seq(Characters(w)),
         FlattenSeq(Members(s, w)) = FlattenSeq(Members(t, w))
  PROVE  s = t
<1>1. TellApart(s, Members(s, w), t, Members(t, w))
  <2> SUFFICES ASSUME NEW k \in 1..Len(s), k <= Len(t),
                      Alike(Members(s, w)[k], Members(t, w)[k])
               PROVE  s[k] = t[k] /\ Members(s, w)[k] = Members(t, w)[k]
    BY DEF TellApart
  <2>1. k \in 1..Len(t) /\ s[k] \in Characters(w) /\ t[k] \in Characters(w)
    BY LenProperties, ElementOfSeq
  <2>2. PICK x, y : x = Shows(s[k], w) /\ y = Shows(t[k], w)
    OBVIOUS
  <2>3. /\ Members(s, w)[k] = IF k = 1 THEN x ELSE CommaSpace \o x
        /\ Members(t, w)[k] = IF k = 1 THEN y ELSE CommaSpace \o y
    BY <2>1, <2>2 DEF Members
  <2>4. x \in Seq(0..255) /\ y \in Seq(0..255)
    BY <2>1, <2>2, ShowsTyped
  <2>5. Alike(x, y)
    <3>1. CASE k = 1
      BY <2>3, <3>1
    <3>2. CASE k # 1
      <4>1. Alike(CommaSpace \o x, CommaSpace \o y)
        BY <2>3, <3>2
      <4>2. /\ Extends(0..255, CommaSpace, x, CommaSpace \o x)
            /\ Extends(0..255, CommaSpace, y, CommaSpace \o y)
        BY <2>4, CommaTyped
      <4> QED
        BY <4>1, <4>2, AlikeParts
    <3> QED
      BY <3>1, <3>2
  <2>6. s[k] = t[k]
    BY <2>1, <2>2, <2>5, ShowsApart
  <2> QED
    BY <2>2, <2>3, <2>6
<1> QED
  BY <1>1, MemberWords, SameTexts

\* The text of a range.
RangeText(a, b, w) == Shows(a, w) \o DotDot \o Shows(b, w)

\* The text of a range, piece by piece.
LEMMA RangeParts ==
  ASSUME NEW w, NEW a \in Characters(w), NEW b \in Characters(w)
  PROVE  \E e : /\ Extends(0..255, Shows(a, w), DotDot, e)
                /\ Extends(0..255, e, Shows(b, w), RangeText(a, b, w))
<1>1. PICK x, y, d : x = Shows(a, w) /\ y = Shows(b, w) /\ d = DotDot
  OBVIOUS
<1>2. x \in Seq(0..255) /\ y \in Seq(0..255) /\ d \in Seq(0..255)
  BY <1>1, ShowsTyped DEF DotDot
<1>3. PICK e : e = x \o d
  OBVIOUS
<1>4. Extends(0..255, x, d, e) /\ e \in Seq(0..255)
  BY <1>2, <1>3 DEF Extends
<1>5. PICK f : f = e \o y
  OBVIOUS
<1>6. Extends(0..255, e, y, f)
  BY <1>2, <1>4, <1>5 DEF Extends
<1> QED
  BY <1>1, <1>3, <1>4, <1>5, <1>6 DEF RangeText

\* The text of a range tells its ends.
LEMMA RangeApart ==
  ASSUME NEW w, NEW a \in Characters(w), NEW b \in Characters(w),
         NEW c \in Characters(w), NEW d \in Characters(w),
         RangeText(a, b, w) = RangeText(c, d, w)
  PROVE  a = c /\ b = d
<1>1. PICK e : /\ Extends(0..255, Shows(a, w), DotDot, e)
               /\ Extends(0..255, e, Shows(b, w), RangeText(a, b, w))
  BY RangeParts
<1>2. PICK f : /\ Extends(0..255, Shows(c, w), DotDot, f)
               /\ Extends(0..255, f, Shows(d, w), RangeText(a, b, w))
  BY RangeParts
<1>3. Alike(e, f) /\ (e = f => Alike(Shows(b, w), Shows(d, w)))
  BY <1>1, <1>2, AlikeSame, AlikeParts
<1>4. a = c
  BY <1>1, <1>2, <1>3, AlikeParts, ShowsApart
<1>5. e = f
  BY <1>1, <1>2, <1>4 DEF Extends
<1> QED
  BY <1>3, <1>4, <1>5, ShowsApart

\* A set's text is its first member, and a comma if there are more.
LEMMA FirstMember ==
  ASSUME NEW w, NEW s \in Seq(Characters(w)), Len(s) # 0,
         NEW d, d = FlattenSeq(Members(s, w))
  PROVE  /\ Len(s) = 1 => d = Shows(s[1], w)
         /\ Len(s) # 1 => /\ Starts(Shows(s[1], w), d)
                          /\ Len(d) > Len(Shows(s[1], w))
                          /\ d[Len(Shows(s[1], w)) + 1] = 44
<1> DEFINE W == Members(s, w)
           x == Shows(s[1], w)
<1>0. /\ Len(s) \in Nat /\ 1 \in 1..Len(s)
      /\ \A k \in 1..Len(s) : s[k] \in Characters(w)
  BY LenProperties, ElementOfSeq
<1>1. W \in Seq(Seq(0..255)) /\ Len(W) = Len(s)
  BY MemberWords
<1>2. W[1] = x /\ \A k \in 2..Len(s) : W[k] = CommaSpace \o Shows(s[k], w)
  BY <1>0 DEF Members
<1>3. x \in Seq(0..255) /\ Len(x) \in Nat
  BY <1>0, ShowsTyped
<1> HIDE DEF W, x
<1>4. PICK f : Heads(0..255, W, f)
  BY <1>1, FlattenSteps
<1>5. f[1] = x
  <2>1. f[0] = <<>> /\ f[1] = f[0] \o W[1]
    <3>1. 1 \in 1..Len(W) /\ 1 - 1 = 0
      BY <1>0, <1>1
    <3> QED
      BY <1>4, <3>1 DEF Heads
  <2>2. <<>> \o x = x
    BY <1>3
  <2> QED
    BY <1>2, <2>1, <2>2
<1>6. ASSUME Len(s) = 1 PROVE d = x
  BY <1>1, <1>4, <1>5, <1>6 DEF Heads, W
<1>7. ASSUME Len(s) # 1 PROVE Starts(x, d) /\ Len(d) > Len(x) /\ d[Len(x) + 1] = 44
  <2>0. 1 \in 1..Len(W) /\ 2 \in 1..Len(W) /\ 2 - 1 = 1 /\ 2 \in 2..Len(s)
    BY <1>0, <1>1, <1>7
  <2>1. d = FlattenSeq(W)
    BY DEF W
  <2>2. Starts(x, d)
    BY <1>1, <1>4, <1>5, <2>0, <2>1, PlaceAt
  <2>3. PICK y, u : y = W[2] /\ u = f[2]
    OBVIOUS
  <2>4. Extends(0..255, x, y, u) /\ Starts(u, d)
    BY <1>1, <1>4, <1>5, <2>0, <2>1, <2>3, PlaceAt, PrefixAt
  <2>5. y[1] = 44 /\ Len(y) >= 2
    <3>1. s[2] \in Characters(w) /\ y = CommaSpace \o Shows(s[2], w)
      BY <1>0, <1>2, <2>0, <2>3
    <3>2. Shows(s[2], w) \in Seq(0..255)
      BY <3>1, ShowsTyped
    <3> QED
      BY <3>1, <3>2, CommaTyped
  <2>6. /\ Len(u) = Len(x) + Len(y) /\ Len(u) \in Nat /\ Len(y) \in Nat
        /\ \A k \in 1..Len(y) : u[Len(x) + k] = y[k]
    BY <2>4, ExtendsFacts
  <2>7. Len(u) <= Len(d) /\ \A k \in 1..Len(u) : d[k] = u[k]
    BY <2>4 DEF Starts
  <2>8. 1 \in 1..Len(y) /\ Len(x) + 1 \in 1..Len(u)
    BY <1>3, <2>5, <2>6
  <2>9. d[Len(x) + 1] = 44
    BY <2>5, <2>6, <2>7, <2>8
  <2>10. Len(d) > Len(x)
    <3>1. PICK W2 : W2 = W
      OBVIOUS
    <3>2. d \in Seq(0..255) /\ Len(d) \in Nat
      BY <1>1, <2>1, FlattenTyped, LenProperties
    <3> QED
      BY <1>3, <2>5, <2>6, <2>7, <3>2
  <2> QED
    BY <2>2, <2>9, <2>10
<1> QED
  BY <1>6, <1>7 DEF x

\* No range is shown like a set.
LEMMA RangeNoSet ==
  ASSUME NEW w, NEW a \in Characters(w), NEW b \in Characters(w),
         NEW s \in Seq(Characters(w))
  PROVE  RangeText(a, b, w) # FlattenSeq(Members(s, w))
<1> SUFFICES ASSUME RangeText(a, b, w) = FlattenSeq(Members(s, w)) PROVE FALSE
  OBVIOUS
<1>1. PICK d : d = RangeText(a, b, w) /\ d = FlattenSeq(Members(s, w))
  OBVIOUS
<1>2. PICK e : Extends(0..255, Shows(a, w), DotDot, e) /\ Extends(0..255, e, Shows(b, w), d)
  BY <1>1, RangeParts
<1>3. PICK x, y, p : x = Shows(a, w) /\ y = Shows(b, w) /\ p = DotDot
  OBVIOUS
<1>4. /\ Len(x) \in Nat /\ Len(x) # 0 /\ Len(y) \in Nat /\ Len(p) = 2 /\ p[1] = 46
  BY <1>3, ShowsTyped DEF DotDot
<1>5. /\ Len(e) = Len(x) + Len(p)
      /\ \A k \in 1..Len(x) : e[k] = x[k]
      /\ \A k \in 1..Len(p) : e[Len(x) + k] = p[k]
  <2>1. Extends(0..255, x, p, e)
    BY <1>2, <1>3
  <2> QED
    BY <2>1, ExtendsFacts
<1>6. /\ Len(d) = Len(e) + Len(y) /\ \A k \in 1..Len(e) : d[k] = e[k]
  <2>1. Extends(0..255, e, y, d)
    BY <1>2, <1>3
  <2> QED
    BY <2>1, ExtendsFacts
<1>7. Len(d) > Len(x) /\ d[Len(x) + 1] = 46 /\ \A k \in 1..Len(x) : d[k] = x[k]
  <2>1. 1 \in 1..Len(p) /\ Len(x) + 1 \in 1..Len(e)
    BY <1>4, <1>5
  <2>2. \A k \in 1..Len(x) : k \in 1..Len(e)
    BY <1>4, <1>5
  <2> QED
    BY <1>4, <1>5, <1>6, <2>1, <2>2
<1>8. Len(s) # 0
  <2> SUFFICES ASSUME Len(s) = 0 PROVE FALSE
    OBVIOUS
  <2>1. Len(Members(s, w)) = 0
    BY MemberWords
  <2>2. Len(d) = 0
    BY <1>1, <2>1 DEF FlattenSeq
  <2> QED
    BY <1>4, <1>7, <2>2
<1>9. PICK z : z = Shows(s[1], w)
  OBVIOUS
<1>10. s[1] \in Characters(w)
  BY <1>8, LenProperties, ElementOfSeq
<1>11. CASE Len(s) = 1
  <2>1. d = z
    BY <1>1, <1>8, <1>9, <1>11, FirstMember
  <2>2. Alike(x, z)
    BY <1>7, <2>1 DEF Alike
  <2>3. x = z
    BY <1>3, <1>9, <1>10, <2>2, ShowsApart
  <2> QED
    BY <1>4, <1>7, <2>1, <2>3
<1>12. CASE Len(s) # 1
  <2>1. Starts(z, d) /\ d[Len(z) + 1] = 44
    BY <1>1, <1>8, <1>9, <1>12, FirstMember
  <2>2. Len(z) \in Nat
    BY <1>9, <1>10, ShowsTyped
  <2>3. Alike(x, z)
    BY <1>4, <1>7, <2>1, <2>2 DEF Alike, Starts
  <2>4. x = z
    BY <1>3, <1>9, <1>10, <2>3, ShowsApart
  <2> QED
    BY <1>7, <2>1, <2>4
<1> QED
  BY <1>11, <1>12

\* The text of a set is its members put together.
LEMMA SetText ==
  ASSUME NEW w, NEW s, Len(s) \in Nat
  PROVE  Joined([k \in 1..Len(s) |-> escape_char_for_expected(s[k], w)])
         = FlattenSeq(Members(s, w))
<1> DEFINE t == [k \in 1..Len(s) |-> escape_char_for_expected(s[k], w)]
<1>1. Len(t) = Len(s) /\ \A k \in 1..Len(s) : t[k] = Shows(s[k], w)
  BY DEF Shows
<1> HIDE DEF t
<1>2. [k \in 1..Len(t) |-> IF k = 1 THEN t[k] ELSE CommaSpace \o t[k]] = Members(s, w)
  BY <1>1 DEF Members
<1>3. Joined(t) = FlattenSeq(Members(s, w))
  BY <1>2 DEF Joined
<1> QED
  BY <1>3 DEF t

\* A failure's item, by its shape.
ShownAs(f, w, i) ==
  \/ /\ f.shape = "value" /\ i.kind = Literal
     /\ f.arg \in Seq(Characters(w)) /\ Len(f.arg) = 1
     /\ i.text = Shows(f.arg[1], w) /\ i.text[1] = 39
  \/ /\ f.shape = "range" /\ i.kind = Range_
     /\ f.arg \in Seq(Characters(w)) /\ Len(f.arg) = 2
     /\ i.text = RangeText(f.arg[1], f.arg[2], w)
  \/ /\ f.shape = "set" /\ i.kind = Range_
     /\ f.arg \in Seq(Characters(w))
     /\ i.text = FlattenSeq(Members(f.arg, w))
  \/ /\ f.shape = "literal" /\ i.kind = Literal
     /\ f.arg \in Seq(Characters(w))
     /\ i.text = escape_string_for_expected(Displayed(f.arg, w)) /\ i.text[1] = 34
  \/ f.shape = "predicate" /\ i.kind = Literal /\ i.text = f.arg /\ i.text[1] = 60
  \/ f.shape = "name" /\ i.kind = RuleName /\ i.text = f.arg
  \/ f.shape = "label" /\ i.kind = RuleLabel /\ i.text = f.arg

\* What can fail is shown as an item, one of these.
LEMMA ItemParts ==
  ASSUME NEW w, NEW f, Displayable(f, w)
  PROVE  /\ Item(f, w) \in Items /\ ShownAs(f, w, Item(f, w))
         /\ f = [shape |-> f.shape, arg |-> f.arg]
<1> DEFINE shown == [k \in 1..Len(f.arg) |-> escape_char_for_expected(f.arg[k], w)]
<1>0. f = [shape |-> f.shape, arg |-> f.arg]
  BY DEF Displayable
<1> DEFINE Kinds == {RuleLabel, RuleName, Literal, Range_}
<1>10. ASSUME NEW k \in Kinds, NEW x \in Seq(0..255)
       PROVE  [kind |-> k, text |-> x] \in Items
  BY DEF Items, RuleLabel, RuleName, Literal, Range_
<1>1. CASE f \in [shape : {"value"}, arg : Seq(Characters(w))] /\ Len(f.arg) = 1
  <2>1. shown[1] = Shows(f.arg[1], w) /\ f.arg[1] \in Characters(w)
    BY <1>1, ElementOfSeq DEF Shows
  <2>2. Item(f, w) = [kind |-> Literal, text |-> shown[1]]
    BY <1>1 DEF Item
  <2>3. Shows(f.arg[1], w)[1] = 39 /\ Shows(f.arg[1], w) \in Seq(0..255)
    BY <2>1, ShowsTyped
  <2> HIDE DEF shown
  <2>4. Item(f, w) \in Items
    BY <1>10, <2>1, <2>2, <2>3
  <2> QED
    BY <1>1, <2>1, <2>2, <2>3, <2>4 DEF ShownAs
<1>2. CASE f \in [shape : {"range"}, arg : Seq(Characters(w))] /\ Len(f.arg) = 2
  <2>1. shown[1] = Shows(f.arg[1], w) /\ shown[2] = Shows(f.arg[2], w)
    BY <1>2 DEF Shows
  <2>2. Item(f, w) = [kind |-> Range_, text |-> shown[1] \o DotDot \o shown[2]]
    BY <1>2 DEF Item
  <2> HIDE DEF shown
  <2>3. shown[1] \o DotDot \o shown[2] = RangeText(f.arg[1], f.arg[2], w)
    BY <2>1 DEF RangeText
  <2>4. f.arg[1] \in Characters(w) /\ f.arg[2] \in Characters(w)
    BY <1>2, ElementOfSeq
  <2>5. RangeText(f.arg[1], f.arg[2], w) \in Seq(0..255)
    BY <2>4, RangeParts, ExtendsFacts
  <2>6. Item(f, w) \in Items
    BY <1>10, <2>2, <2>3, <2>5
  <2> QED
    BY <1>2, <2>2, <2>3, <2>6 DEF ShownAs
<1>3. CASE f \in [shape : {"set"}, arg : Seq(Characters(w))]
  <2>1. Joined(shown) = FlattenSeq(Members(f.arg, w))
    BY <1>3, SetText, LenProperties
  <2>2. Item(f, w) = [kind |-> Range_, text |-> Joined(shown)]
    BY <1>3 DEF Item
  <2> HIDE DEF shown
  <2>3. Members(f.arg, w) \in Seq(Seq(0..255))
    BY <1>3, MemberWords
  <2>4. Item(f, w) \in Items
    BY <1>10, <2>1, <2>2, <2>3, FlattenTyped
  <2> QED
    BY <1>3, <2>1, <2>2, <2>4 DEF ShownAs
<1>4. CASE f \in [shape : {"literal"}, arg : Seq(Characters(w))]
  <2>1. Item(f, w) = [kind |-> Literal,
                      text |-> escape_string_for_expected(Displayed(f.arg, w))]
    BY <1>4 DEF Item, Displayed
  <2>2. /\ escape_string_for_expected(Displayed(f.arg, w))[1] = 34
        /\ escape_string_for_expected(Displayed(f.arg, w)) \in Seq(0..255)
    BY <1>4, DisplayedApart, StringApart
  <2>3. Item(f, w) \in Items
    BY <1>10, <2>1, <2>2
  <2> QED
    BY <1>4, <2>1, <2>2, <2>3 DEF ShownAs
<1>5. CASE /\ f \in [shape : {"predicate"}, arg : Seq(0..255)]
           /\ f.arg # <<>> /\ f.arg[1] = 60
  <2>1. Item(f, w) = [kind |-> Literal, text |-> f.arg]
    BY <1>5 DEF Item
  <2>2. Item(f, w) \in Items
    BY <1>5, <1>10, <2>1
  <2> QED
    BY <1>5, <2>1, <2>2 DEF ShownAs
<1>6. CASE f \in [shape : {"name"}, arg : Seq(0..255)]
  <2>1. Item(f, w) = [kind |-> RuleName, text |-> f.arg]
    BY <1>6 DEF Item
  <2>2. Item(f, w) \in Items
    BY <1>6, <1>10, <2>1
  <2> QED
    BY <1>6, <2>1, <2>2 DEF ShownAs
<1>7. CASE f \in [shape : {"label"}, arg : Seq(0..255)]
  <2>1. Item(f, w) = [kind |-> RuleLabel, text |-> f.arg]
    BY <1>7 DEF Item
  <2>2. Item(f, w) \in Items
    BY <1>7, <1>10, <2>1
  <2> QED
    BY <1>7, <2>1, <2>2 DEF ShownAs
<1>8. \/ f \in [shape : {"set"}, arg : Seq(Characters(w))]
      \/ f \in [shape : {"literal"}, arg : Seq(Characters(w))]
      \/ ~ f \in [shape : {"set", "literal"}, arg : Seq(Characters(w))]
  OBVIOUS
<1>9. \/ f \in [shape : {"name"}, arg : Seq(0..255)]
      \/ f \in [shape : {"label"}, arg : Seq(0..255)]
      \/ ~ f \in [shape : {"name", "label"}, arg : Seq(0..255)]
  OBVIOUS
<1> QED
  BY <1>0, <1>1, <1>2, <1>3, <1>4, <1>5, <1>6, <1>7, <1>8, <1>9 DEF Displayable

\* What looks the same is the same.
LEMMA ItemApart ==
  ASSUME NEW w, NEW f, NEW g, Displayable(f, w), Displayable(g, w),
         Item(f, w) = Item(g, w)
  PROVE  f = g
<1>1. PICK i : i = Item(f, w) /\ i = Item(g, w)
  OBVIOUS
<1>2. ShownAs(f, w, i) /\ ShownAs(g, w, i)
  BY <1>1, ItemParts
<1> USE DEF RuleLabel, RuleName, Literal, Range_
<1>3. f.shape = g.shape
  <2>1. ~ (f.shape = "range" /\ g.shape = "set")
    <3> SUFFICES ASSUME f.shape = "range", g.shape = "set" PROVE FALSE
      OBVIOUS
    <3>1. /\ f.arg \in Seq(Characters(w)) /\ Len(f.arg) = 2
          /\ i.text = RangeText(f.arg[1], f.arg[2], w)
          /\ g.arg \in Seq(Characters(w)) /\ i.text = FlattenSeq(Members(g.arg, w))
      BY <1>2 DEF ShownAs
    <3>2. f.arg[1] \in Characters(w) /\ f.arg[2] \in Characters(w)
      BY <3>1, ElementOfSeq
    <3> QED
      BY <3>1, <3>2, RangeNoSet
  <2>2. ~ (g.shape = "range" /\ f.shape = "set")
    <3> SUFFICES ASSUME g.shape = "range", f.shape = "set" PROVE FALSE
      OBVIOUS
    <3>1. /\ g.arg \in Seq(Characters(w)) /\ Len(g.arg) = 2
          /\ i.text = RangeText(g.arg[1], g.arg[2], w)
          /\ f.arg \in Seq(Characters(w)) /\ i.text = FlattenSeq(Members(f.arg, w))
      BY <1>2 DEF ShownAs
    <3>2. g.arg[1] \in Characters(w) /\ g.arg[2] \in Characters(w)
      BY <3>1, ElementOfSeq
    <3> QED
      BY <3>1, <3>2, RangeNoSet
  <2>3. \/ f.shape = "value" /\ i.kind = Literal /\ i.text[1] = 39
        \/ f.shape \in {"range", "set"} /\ i.kind = Range_
        \/ f.shape = "literal" /\ i.kind = Literal /\ i.text[1] = 34
        \/ f.shape = "predicate" /\ i.kind = Literal /\ i.text[1] = 60
        \/ f.shape = "name" /\ i.kind = RuleName
        \/ f.shape = "label" /\ i.kind = RuleLabel
    BY <1>2 DEF ShownAs
  <2>4. \/ g.shape = "value" /\ i.kind = Literal /\ i.text[1] = 39
        \/ g.shape \in {"range", "set"} /\ i.kind = Range_
        \/ g.shape = "literal" /\ i.kind = Literal /\ i.text[1] = 34
        \/ g.shape = "predicate" /\ i.kind = Literal /\ i.text[1] = 60
        \/ g.shape = "name" /\ i.kind = RuleName
        \/ g.shape = "label" /\ i.kind = RuleLabel
    BY <1>2 DEF ShownAs
  <2> QED
    BY <2>1, <2>2, <2>3, <2>4
<1>4. f.arg = g.arg
  <2>1. CASE f.shape = "value"
    <3>1. /\ f.arg \in Seq(Characters(w)) /\ Len(f.arg) = 1 /\ i.text = Shows(f.arg[1], w)
          /\ g.arg \in Seq(Characters(w)) /\ Len(g.arg) = 1 /\ i.text = Shows(g.arg[1], w)
      BY <1>2, <1>3, <2>1 DEF ShownAs
    <3>2. f.arg[1] \in Characters(w) /\ g.arg[1] \in Characters(w)
      BY <3>1, ElementOfSeq
    <3>3. f.arg[1] = g.arg[1]
      BY <3>1, <3>2, AlikeSame, ShowsApart
    <3> QED
      BY <3>1, <3>3, SeqEqual
  <2>2. CASE f.shape = "range"
    <3>1. /\ f.arg \in Seq(Characters(w)) /\ Len(f.arg) = 2
          /\ i.text = RangeText(f.arg[1], f.arg[2], w)
          /\ g.arg \in Seq(Characters(w)) /\ Len(g.arg) = 2
          /\ i.text = RangeText(g.arg[1], g.arg[2], w)
      BY <1>2, <1>3, <2>2 DEF ShownAs
    <3>2. /\ f.arg[1] \in Characters(w) /\ g.arg[1] \in Characters(w)
          /\ f.arg[2] \in Characters(w) /\ g.arg[2] \in Characters(w)
      BY <3>1, ElementOfSeq
    <3>3. f.arg[1] = g.arg[1] /\ f.arg[2] = g.arg[2]
      <4>1. PICK a \in Characters(w), b \in Characters(w),
                 c \in Characters(w), d \in Characters(w) :
              a = f.arg[1] /\ b = f.arg[2] /\ c = g.arg[1] /\ d = g.arg[2]
        BY <3>2
      <4>2. RangeText(a, b, w) = RangeText(c, d, w)
        BY <3>1, <4>1
      <4>3. a = c /\ b = d
        BY ONLY <4>2, RangeApart, a \in Characters(w), b \in Characters(w),
                c \in Characters(w), d \in Characters(w)
      <4> QED
        BY <4>1, <4>3
    <3> QED
      BY <3>1, <3>3, SeqEqual
  <2>3. CASE f.shape = "set"
    <3>1. /\ f.arg \in Seq(Characters(w)) /\ i.text = FlattenSeq(Members(f.arg, w))
          /\ g.arg \in Seq(Characters(w)) /\ i.text = FlattenSeq(Members(g.arg, w))
      BY <1>2, <1>3, <2>3 DEF ShownAs
    <3> QED
      BY <3>1, JoinedApart
  <2>4. CASE f.shape = "literal"
    <3>1. /\ f.arg \in Seq(Characters(w)) /\ g.arg \in Seq(Characters(w))
          /\ i.text = escape_string_for_expected(Displayed(f.arg, w))
          /\ i.text = escape_string_for_expected(Displayed(g.arg, w))
      BY <1>2, <1>3, <2>4 DEF ShownAs
    <3>2. Displayed(f.arg, w) \in Seq(0..255) /\ Displayed(g.arg, w) \in Seq(0..255)
      BY <3>1, DisplayedApart
    <3>3. Displayed(f.arg, w) = Displayed(g.arg, w)
      BY <3>1, <3>2, StringApart
    <3> QED
      BY <3>1, <3>3, DisplayedApart
  <2>5. CASE f.shape \in {"predicate", "name", "label"}
    BY <1>2, <1>3, <2>5 DEF ShownAs
  <2> QED
    BY <1>2, <2>1, <2>2, <2>3, <2>4, <2>5 DEF ShownAs
<1> QED
  BY <1>3, <1>4, ItemParts

\* What a failure is shown as is an item.
LEMMA ShownAreItems == \A c \in Failing \X CharSizes : Shown[c] \in Items
  BY FailingAssumption, ItemParts DEF Shown

-----------------------------------------------------------------------------
(* The order of the vector.                                                *)

\* Of two texts one comes first.
LEMMA TextTotal ==
  ASSUME NEW s \in Seq(0..255), NEW t \in Seq(0..255), s # t
  PROVE  TextBefore(s, t) \/ TextBefore(t, s)
<1> DEFINE P == {k \in 1..Len(s) : k <= Len(t) /\ \A j \in 1..k : s[j] = t[j]}
<1>1. /\ Len(s) \in Nat /\ Len(t) \in Nat
      /\ \A k \in 1..Len(s) : s[k] \in 0..255
      /\ \A k \in 1..Len(t) : t[k] \in 0..255
  BY LenProperties, ElementOfSeq
<1>2. \A k \in P : \A j \in 1..k : j \in P
  BY <1>1
<1>3. PICK c \in 0..Len(s) : P = 1..c
  <2>1. P \in SUBSET (1..Len(s))
    OBVIOUS
  <2> HIDE DEF P
  <2> QED
    BY <2>1, <1>1, <1>2, Initial
<1>4. c <= Len(t) /\ \A j \in 1..c : s[j] = t[j]
  <2>1. c = 0 \/ c \in P
    BY <1>3
  <2> QED
    BY <2>1, <1>1, <1>3
<1>5. c + 1 \notin P
  BY <1>3
<1>6. CASE c = Len(s)
  <2>1. Len(t) # c
    <3>1. ASSUME Len(t) = c PROVE FALSE
      <4>1. \A k \in 1..Len(s) : s[k] = t[k]
        BY <1>4, <1>6
      <4>2. s = t
        BY <4>1, <1>6, <3>1, SeqEqual
      <4> QED
        BY <4>2
    <3> QED
      BY <3>1
  <2> QED
    BY <2>1, <1>1, <1>4, <1>6 DEF TextBefore
<1>7. CASE c < Len(s) /\ c = Len(t)
  BY <1>1, <1>4, <1>7 DEF TextBefore
<1>8. CASE c < Len(s) /\ c < Len(t)
  <2>1. c + 1 \in 1..Len(s) /\ c + 1 \in 1..Len(t)
    BY <1>1, <1>3, <1>8
  <2>2. s[c + 1] # t[c + 1]
    <3>1. ASSUME s[c + 1] = t[c + 1] PROVE \A j \in 1..(c + 1) : s[j] = t[j]
      BY <1>3, <1>4, <3>1
    <3> QED
      BY <3>1, <2>1, <1>5
  <2>3. s[c + 1] < t[c + 1] \/ t[c + 1] < s[c + 1]
    <3>1. PICK a \in 0..255 : a = s[c + 1]
      BY <2>1, <1>1
    <3>2. PICK b \in 0..255 : b = t[c + 1]
      BY <2>1, <1>1
    <3>3. a < b \/ b < a
      BY <2>2, <3>1, <3>2
    <3> QED
      BY <3>1, <3>2, <3>3
  <2> QED
    BY <2>3, <1>1, <1>3, <1>4, <1>8 DEF TextBefore
<1> QED
  BY <1>1, <1>3, <1>4, <1>6, <1>7, <1>8

\* The order is transitive.
LEMMA TextTransitive ==
  ASSUME NEW s \in Seq(0..255), NEW t \in Seq(0..255), NEW u \in Seq(0..255),
         TextBefore(s, t), TextBefore(t, u)
  PROVE  TextBefore(s, u)
<1>1. /\ Len(s) \in Nat /\ Len(t) \in Nat /\ Len(u) \in Nat
      /\ \A k \in 1..Len(s) : s[k] \in 0..255
      /\ \A k \in 1..Len(t) : t[k] \in 0..255
      /\ \A k \in 1..Len(u) : u[k] \in 0..255
  BY SMTT(60), LenProperties, ElementOfSeq
<1>2. PICK n \in 0..Len(s) : /\ n < Len(t)
                             /\ \A k \in 1..n : s[k] = t[k]
                             /\ n = Len(s) \/ s[n + 1] < t[n + 1]
  BY DEF TextBefore
<1>3. PICK m \in 0..Len(t) : /\ m < Len(u)
                             /\ \A k \in 1..m : t[k] = u[k]
                             /\ m = Len(t) \/ t[m + 1] < u[m + 1]
  BY DEF TextBefore
<1>4. CASE n <= m
  <2>1. n < Len(u) /\ \A k \in 1..n : s[k] = u[k]
    BY <1>1, <1>2, <1>3, <1>4
  <2>2. n = Len(s) \/ s[n + 1] < u[n + 1]
    <3> SUFFICES ASSUME n # Len(s) PROVE s[n + 1] < u[n + 1]
      OBVIOUS
    <3>1. /\ n + 1 \in 1..Len(s) /\ n + 1 \in 1..Len(t) /\ n + 1 \in 1..Len(u)
      BY <1>1, <1>2, <2>1
    <3>2. PICK a \in 0..255 : a = s[n + 1]
      BY <3>1, <1>1
    <3>3. PICK b \in 0..255 : b = t[n + 1]
      BY <3>1, <1>1
    <3>4. PICK c \in 0..255 : c = u[n + 1]
      BY <3>1, <1>1
    <3>5. a < b
      BY <1>2, <3>2, <3>3
    <3>6. CASE n = m
      <4>1. b < c
        BY <1>2, <1>3, <3>3, <3>4, <3>6
      <4> QED
        BY <4>1, <3>2, <3>4, <3>5
    <3>7. CASE n < m
      <4>1. n + 1 \in 1..m
        BY <1>2, <1>3, <3>7
      <4>2. b = c
        BY <4>1, <1>3, <3>3, <3>4
      <4> QED
        BY <4>2, <3>2, <3>4, <3>5
    <3> QED
      BY <1>2, <1>3, <1>4, <3>6, <3>7
  <2> QED
    BY <2>1, <2>2 DEF TextBefore
<1>5. CASE m < n
  <2>1. m \in 0..Len(s) /\ \A k \in 1..m : s[k] = u[k]
    BY <1>1, <1>2, <1>3, <1>5
  <2>2. s[m + 1] < u[m + 1]
    BY <1>1, <1>2, <1>3, <1>5
  <2> QED
    BY <2>1, <2>2, <1>3 DEF TextBefore
<1> QED
  BY <1>1, <1>2, <1>3, <1>4, <1>5

\* Items are ordered as their kinds, then as their texts.
LEMMA ItemOrder ==
  /\ \A x \in Items : ~ Before(x, x)
  /\ \A x, y \in Items : x # y => Before(x, y) \/ Before(y, x)
  /\ \A x, y, z \in Items : Before(x, y) /\ Before(y, z) => Before(x, z)
<1>1. \A x \in Items : x.kind \in Int /\ x.text \in Seq(0..255)
  BY DEF Items, RuleLabel, Range_
<1>2. \A x, y \in Items : x.kind = y.kind /\ x.text = y.text => x = y
  BY DEF Items
<1>3. ASSUME NEW x \in Items PROVE ~ Before(x, x)
  <2>1. ASSUME TextBefore(x.text, x.text) PROVE FALSE
    <3>1. PICK n \in 0..Len(x.text) : /\ n < Len(x.text)
                                      /\ x.text[n + 1] < x.text[n + 1]
      BY <2>1 DEF TextBefore
    <3>2. n + 1 \in 1..Len(x.text) /\ x.text \in Seq(0..255)
      BY <3>1, <1>1, LenProperties
    <3>3. PICK a \in 0..255 : a = x.text[n + 1]
      BY <3>2, ElementOfSeq
    <3> QED
      BY <3>1, <3>3
  <2> QED
    BY <2>1, <1>1 DEF Before
<1>4. ASSUME NEW x \in Items, NEW y \in Items, x # y
      PROVE  Before(x, y) \/ Before(y, x)
  <2>1. CASE x.kind = y.kind
    <3>1. TextBefore(x.text, y.text) \/ TextBefore(y.text, x.text)
      BY <1>1, <1>2, <1>4, <2>1, TextTotal
    <3> QED
      BY <2>1, <3>1 DEF Before
  <2>2. CASE x.kind # y.kind
    BY <1>1, <2>2 DEF Before
  <2> QED
    BY <2>1, <2>2
<1>5. ASSUME NEW x \in Items, NEW y \in Items, NEW z \in Items,
             Before(x, y), Before(y, z)
      PROVE  Before(x, z)
  <2>1. CASE x.kind = y.kind /\ y.kind = z.kind
    <3>1. TextBefore(x.text, y.text) /\ TextBefore(y.text, z.text)
      BY <1>1, <1>5, <2>1 DEF Before
    <3>2. TextBefore(x.text, z.text)
      BY <1>1, <3>1, TextTransitive
    <3> QED
      BY <2>1, <3>2 DEF Before
  <2>2. CASE ~ (x.kind = y.kind /\ y.kind = z.kind)
    BY <1>1, <1>5, <2>2 DEF Before
  <2> QED
    BY <2>1, <2>2
<1> QED
  BY <1>3, <1>4, <1>5

Ascending(s) == \A j, k \in 1..Len(s) : j < k => Before(s[j], s[k])

\* insert keeps the vector in strictly ascending order.
LEMMA InsertAscends ==
  ASSUME NEW s \in Seq(Items), NEW x \in Items, Ascending(s)
  PROVE  Ascending(insert(s, x))
<1> DEFINE less == {k \in 1..Len(s) : Before(s[k], x)}
           c == Cardinality(less)
           i == lower_bound(s, x)
<1>1. Len(s) \in Nat /\ \A k \in 1..Len(s) : s[k] \in Items
  BY LenProperties, ElementOfSeq
<1>2. c \in 0..Len(s) /\ less = 1..c
  <2>1. \A k \in less : \A j \in 1..k : j \in less
    <3> SUFFICES ASSUME NEW k \in less, NEW j \in 1..k PROVE j \in less
      OBVIOUS
    <3>1. k \in 1..Len(s) /\ j \in 1..Len(s) /\ (j = k \/ j < k) /\ Before(s[k], x)
      BY <1>1
    <3>2. j < k => Before(s[j], s[k])
      BY <3>1 DEF Ascending
    <3>3. Before(s[j], x)
      BY <1>1, <3>1, <3>2, ItemOrder
    <3> QED
      BY <3>1, <3>3
  <2>2. less \in SUBSET (1..Len(s))
    OBVIOUS
  <2> HIDE DEF less
  <2> QED
    BY <1>1, <2>1, <2>2, Initial
<1>3. i = c + 1
  BY <1>1, <1>2 DEF lower_bound
<1>4. /\ \A k \in 1..(i - 1) : Before(s[k], x)
      /\ \A k \in i..Len(s) : ~ Before(s[k], x)
  <2>1. \A k \in 1..Len(s) : Before(s[k], x) <=> k \in 1..c
    BY <1>2
  <2>2. c \in Nat /\ c <= Len(s) /\ Len(s) \in Nat
    BY <1>1, <1>2
  <2> HIDE DEF c, i
  <2>3. \A k \in 1..(i - 1) : k \in 1..Len(s) /\ k \in 1..c
    BY <1>3, <2>2
  <2>4. \A k \in i..Len(s) : k \in 1..Len(s) /\ k \notin 1..c
    BY <1>3, <2>2
  <2> QED
    BY <2>1, <2>3, <2>4
<1>5. i \in 1..(Len(s) + 1)
  BY <1>1, <1>2, <1>3
<1> HIDE DEF i, c, less
<1>6. CASE i <= Len(s) /\ s[i] = x
  BY <1>6 DEF insert, i
<1>7. CASE ~ (i <= Len(s) /\ s[i] = x)
  <2> DEFINE d == InsertAt(s, i, x)
  <2>1. insert(s, x) = d
    BY <1>7 DEF insert, i
  <2> HIDE DEF d
  <2>2. /\ Len(d) = Len(s) + 1
        /\ \A k \in 1..(i - 1) : d[k] = s[k]
        /\ d[i] = x
        /\ \A k \in (i + 1)..(Len(s) + 1) : d[k] = s[k - 1]
    BY <1>5, InsertAtPlaces DEF d
  <2>3. ASSUME NEW k \in i..Len(s) PROVE Before(x, s[k])
    <3>1. k \in 1..Len(s) /\ i \in 1..Len(s) /\ (i = k \/ i < k)
      BY <1>1, <1>5
    <3>2. s[k] # x
      <4>1. CASE i = k
        BY <4>1, <3>1, <1>7
      <4>2. CASE i < k
        <5>1. Before(s[i], s[k])
          BY <4>2, <3>1 DEF Ascending
        <5>2. ~ Before(s[i], x)
          BY <1>4, <3>1
        <5> QED
          BY <5>1, <5>2
      <4> QED
        BY <3>1, <4>1, <4>2
    <3> QED
      BY <3>1, <3>2, <1>1, <1>4, ItemOrder
  <2>4. ASSUME NEW j \in 1..(Len(s) + 1), NEW k \in 1..(Len(s) + 1), j < k
        PROVE  Before(d[j], d[k])
    <3>1. CASE k < i
      <4>1. /\ j \in 1..(i - 1) /\ k \in 1..(i - 1)
            /\ j \in 1..Len(s) /\ k \in 1..Len(s)
        BY <1>1, <1>5, <2>4, <3>1
      <4>2. Before(s[j], s[k])
        BY <2>4, <4>1 DEF Ascending
      <4> QED
        BY <2>2, <4>1, <4>2
    <3>2. CASE k = i
      <4>1. j \in 1..(i - 1)
        BY <1>5, <2>4, <3>2
      <4> QED
        BY <1>4, <2>2, <3>2, <4>1
    <3>3. CASE k > i /\ j = i
      <4>1. k \in (i + 1)..(Len(s) + 1) /\ k - 1 \in i..Len(s)
        BY <1>1, <1>5, <3>3
      <4> QED
        BY <2>2, <2>3, <3>3, <4>1
    <3>4. CASE k > i /\ j < i
      <4>1. /\ k \in (i + 1)..(Len(s) + 1) /\ k - 1 \in 1..Len(s)
            /\ j \in 1..(i - 1) /\ j \in 1..Len(s) /\ j < k - 1
        BY <1>1, <1>5, <3>4
      <4>2. Before(s[j], s[k - 1])
        BY <4>1 DEF Ascending
      <4> QED
        BY <2>2, <4>1, <4>2
    <3>5. CASE k > i /\ j > i
      <4>1. /\ k \in (i + 1)..(Len(s) + 1) /\ k - 1 \in 1..Len(s)
            /\ j \in (i + 1)..(Len(s) + 1) /\ j - 1 \in 1..Len(s) /\ j - 1 < k - 1
        BY <1>1, <1>5, <2>4, <3>5
      <4>2. Before(s[j - 1], s[k - 1])
        BY <4>1 DEF Ascending
      <4> QED
        BY <2>2, <4>1, <4>2
    <3> QED
      BY <1>1, <1>5, <3>1, <3>2, <3>3, <3>4, <3>5
  <2> QED
    BY <2>1, <2>2, <2>4 DEF Ascending
<1> QED
  BY <1>6, <1>7

\* Every step keeps the vector in strictly ascending order.
LEMMA SortedNext == Inv /\ StrictlySorted /\ [Next]_vars => StrictlySorted'
<1>0. AllItems \subseteq Items
  BY ShownAreItems DEF AllItems, Range, Shown
<1> SUFFICES ASSUME Inv, StrictlySorted, [Next]_vars PROVE StrictlySorted'
  OBVIOUS
<1>1. StrictlySorted' <=> Ascending(m_expected')
  BY DEF StrictlySorted, Ascending
<1>2. Ascending(m_expected) /\ Ascending(<<>>)
  BY DEF StrictlySorted, Ascending
<1>3. ASSUME NEW pos \in Inputs, NEW f \in Failing, record_failure(pos, f)
      PROVE  Ascending(m_expected')
  <2> DEFINE x == Shown[<<f, charSize>>]
  <2>1. x \in Items
    BY <1>0, ShownItems
  <2>2. m_expected \in Seq(Items) /\ <<>> \in Seq(Items)
    BY <1>0, SeqMonotonic, EmptySeq DEF Inv
  <2>3. m_expected' \in {m_expected, insert(m_expected, x), insert(<<>>, x)}
    BY <1>3 DEF record_failure, Keep, members
  <2> HIDE DEF x
  <2> QED
    BY <1>2, <2>1, <2>2, <2>3, InsertAscends
<1>4. ASSUME take_error PROVE Ascending(m_expected')
  <2>1. m_expected' = <<>>
    BY <1>4 DEF take_error
  <2> QED
    BY <2>1 DEF Ascending
<1>5. ASSUME UNCHANGED vars PROVE Ascending(m_expected')
  <2>1. m_expected' = m_expected
    BY <1>5 DEF vars, members
  <2> QED
    BY <1>2, <2>1 DEF Ascending
<1> QED
  BY <1>1, <1>3, <1>4, <1>5 DEF Next

\* The expected items of a diagnostic are in strictly ascending order, so none
\* is in it twice (ExpectedSet::insert).
THEOREM StrictlySortedOK == Spec => []StrictlySorted
<1>1. Init => StrictlySorted
  BY DEF Init, StrictlySorted
<1> QED
  BY <1>1, SortedNext, InitInv, NextInv, PTL DEF Spec

-----------------------------------------------------------------------------
(* What is left out.                                                       *)

\* The failures at the furthest position.
Far(F) == {f \in F : \A g \in F : g.pos <= f.pos}

\* Nothing that can fail looks like something else that can.
ShownApart ==
  \A w \in CharSizes : \A f, g \in Failing :
    Shown[<<f, w>>] = Shown[<<g, w>>] => f = g

\* The items are what the furthest failures are shown as.
FarInv ==
  /\ IsFiniteSet(failed)
  /\ failed \subseteq [pos : Nat, failing : Failing]
  /\ m_has_error <=> failed # {}
  /\ \A f \in failed : f.pos <= m_furthest_failure_pos
  /\ m_has_error => \E f \in failed : f.pos = m_furthest_failure_pos
  /\ ToSet(m_expected) = {Shown[<<f.failing, charSize>>] : f \in Far(failed)}

\* One more failure is the furthest, one of the furthest, or neither.
LEMMA OneMoreFar ==
  ASSUME NEW F, NEW p \in Nat, NEW n, n.pos \in Nat,
         \A f \in F : f.pos \in Nat /\ f.pos <= p,
         F # {} => \E f \in F : f.pos = p
  PROVE  /\ F = {} \/ n.pos > p => Far(F \cup {n}) = {n}
         /\ F # {} /\ n.pos = p => Far(F \cup {n}) = Far(F) \cup {n}
         /\ F # {} /\ n.pos < p => Far(F \cup {n}) = Far(F)
<1>1. \A f \in F : f \in Far(F) <=> f.pos = p
  <2>1. CASE F = {}
    BY <2>1
  <2>2. CASE F # {}
    <3>1. PICK g \in F : g.pos = p
      BY <2>2
    <3> QED
      BY <3>1 DEF Far
  <2> QED
    BY <2>1, <2>2
<1>2. ASSUME F = {} \/ n.pos > p PROVE Far(F \cup {n}) = {n}
  <2>1. n \in Far(F \cup {n})
    BY <1>2 DEF Far
  <2>2. ASSUME NEW f \in F PROVE f \notin Far(F \cup {n}) \/ f = n
    BY <1>2 DEF Far
  <2> QED
    BY <2>1, <2>2 DEF Far
<1>3. ASSUME F # {}, n.pos = p PROVE Far(F \cup {n}) = Far(F) \cup {n}
  BY <1>3 DEF Far
<1>4. ASSUME F # {}, n.pos < p PROVE Far(F \cup {n}) = Far(F)
  <2>1. PICK g \in F : g.pos = p
    BY <1>4
  <2>2. n \notin Far(F \cup {n})
    BY <1>4, <2>1 DEF Far
  <2>3. ASSUME NEW f \in F PROVE f \in Far(F \cup {n}) <=> f \in Far(F)
    <3>1. f \in Far(F \cup {n}) => f \in Far(F)
      BY DEF Far
    <3>2. f \in Far(F) => f.pos = p
      BY <1>1
    <3> QED
      BY <1>4, <3>1, <3>2 DEF Far
  <2>4. Far(F) \subseteq F /\ Far(F \cup {n}) \subseteq F \cup {n}
    BY DEF Far
  <2>5. n \notin Far(F)
    <3>1. n.pos # p
      BY <1>4
    <3> QED
      BY <1>1, <2>4, <3>1
  <2> QED
    BY <2>2, <2>3, <2>4, <2>5
<1> QED
  BY <1>2, <1>3, <1>4

\* record_failure keeps the items those of the furthest failures.
LEMMA RecordFar ==
  ASSUME Inv, FarInv, NEW pos \in Inputs, NEW f \in Failing, record_failure(pos, f)
  PROVE  FarInv'
<1> DEFINE n == [pos |-> pos, failing |-> f]
           x == Shown[<<f, charSize>>]
           F == failed
           p == m_furthest_failure_pos
           G == F \cup {n}
           Texts(S) == {Shown[<<g.failing, charSize>>] : g \in S}
<1>1. /\ Keep(pos, x) /\ failed' = G /\ charSize' = charSize
      /\ pos \in Nat /\ p \in Nat /\ x \in AllItems
  BY ShownItems, TrackerAssumption DEF record_failure, Inv
<1>2. n.pos = pos /\ n.failing = f
  OBVIOUS
<1>3. /\ F = {} \/ pos > p => Far(G) = {n}
      /\ F # {} /\ pos = p => Far(G) = Far(F) \cup {n}
      /\ F # {} /\ pos < p => Far(G) = Far(F)
  <2>1. PICK m : m = n
    OBVIOUS
  <2>2. m.pos = pos
    BY <2>1
  <2>3. \A h \in F : h.pos \in Nat /\ h.pos <= p
    BY DEF FarInv
  <2>4. F # {} => \E h \in F : h.pos = p
    BY DEF FarInv
  <2>5. p \in Nat /\ pos \in Nat /\ G = F \cup {m}
    BY <1>1, <2>1
  <2> HIDE DEF n, F, p, G
  <2>6. m.pos \in Nat
    BY <2>2, <2>5
  <2>7. /\ F = {} \/ m.pos > p => Far(F \cup {m}) = {m}
        /\ F # {} /\ m.pos = p => Far(F \cup {m}) = Far(F) \cup {m}
        /\ F # {} /\ m.pos < p => Far(F \cup {m}) = Far(F)
    BY <2>3, <2>4, <2>5, <2>6, OneMoreFar
  <2> QED
    BY <2>1, <2>2, <2>5, <2>7
<1>4. ToSet(m_expected) = Texts(Far(F)) /\ (m_has_error <=> F # {})
  BY DEF FarInv
<1>5. Texts({n}) = {x} /\ Texts(Far(F) \cup {n}) = Texts(Far(F)) \cup {x}
  BY <1>2
<1>6. IsFiniteSet(G)
  BY FS_AddElement DEF FarInv
<1>7. G \subseteq [pos : Nat, failing : Failing]
  BY <1>1 DEF FarInv
<1>8. /\ \A g \in F : g.pos \in Nat /\ g.pos <= p
      /\ F # {} => \E g \in F : g.pos = p
  BY DEF FarInv
<1> HIDE DEF n, x, F, p, Texts
<1>9. /\ m_has_error' /\ G # {}
      /\ \A g \in G : g.pos <= m_furthest_failure_pos'
      /\ \E g \in G : g.pos = m_furthest_failure_pos'
      /\ ToSet(m_expected') = Texts(Far(G))
  <2>1. CASE /\ ~ m_has_error \/ pos > p
             /\ m_furthest_failure_pos' = pos
             /\ m_expected' = insert(<<>>, x)
             /\ m_has_error' = TRUE
    <3>1. ToSet(m_expected') = {x}
      BY <1>1, <2>1, EmptyInsert
    <3>2. Far(G) = {n}
      BY <1>3, <1>4, <2>1
    <3>3. \A g \in G : g.pos <= pos
      BY <1>1, <1>2, <1>4, <1>8, <2>1
    <3> QED
      BY <1>2, <1>5, <2>1, <3>1, <3>2, <3>3
  <2>2. CASE /\ m_has_error /\ pos = p
             /\ m_expected' = insert(m_expected, x)
             /\ UNCHANGED <<m_furthest_failure_pos, m_has_error>>
    <3>1. m_expected \in Seq(AllItems)
      BY DEF Inv
    <3>2. ToSet(m_expected') = ToSet(m_expected) \cup {x}
      <4>1. m_expected' = insert(m_expected, x) /\ x \in AllItems
        BY <1>1, <2>2
      <4>2. ASSUME NEW s \in Seq(AllItems), NEW y \in AllItems
            PROVE  ToSet(insert(s, y)) = ToSet(s) \cup {y}
        BY InsertItems
      <4> QED
        BY <3>1, <4>1, <4>2
    <3>3. Far(G) = Far(F) \cup {n}
      BY <1>3, <1>4, <2>2
    <3>4. m_furthest_failure_pos' = p
      BY <2>2 DEF p
    <3> QED
      BY <1>1, <1>2, <1>4, <1>5, <1>8, <2>2, <3>2, <3>3, <3>4
  <2>3. CASE /\ m_has_error /\ pos < p /\ UNCHANGED members
    <3>1. m_furthest_failure_pos' = p /\ m_expected' = m_expected /\ m_has_error'
      BY <2>3 DEF members, p
    <3>2. Far(G) = Far(F)
      BY <1>3, <1>4, <2>3
    <3> QED
      BY <1>1, <1>2, <1>4, <1>8, <2>3, <3>1, <3>2
  <2> QED
    BY <1>1, <2>1, <2>2, <2>3 DEF Keep, p
<1>10. Texts(Far(G)) = {Shown[<<g.failing, charSize'>>] : g \in Far(failed')}
  BY <1>1 DEF Texts
<1> QED
  BY <1>1, <1>6, <1>7, <1>9, <1>10 DEF FarInv

\* Every step keeps the items those of the furthest failures.
LEMMA FarNext == Inv /\ FarInv /\ [Next]_vars => FarInv'
<1> SUFFICES ASSUME Inv, FarInv, [Next]_vars PROVE FarInv'
  OBVIOUS
<1>1. CASE take_error
  <2>1. m_expected' = <<>> /\ failed' = {} /\ ~ m_has_error'
    BY <1>1 DEF take_error
  <2>2. ToSet(<<>>) = {} /\ Far({}) = {}
    BY DEF ToSet, Far
  <2> QED
    BY <2>1, <2>2, FS_EmptySet DEF FarInv
<1>2. CASE UNCHANGED vars
  BY <1>2 DEF vars, members, FarInv
<1> QED
  BY <1>1, <1>2, RecordFar DEF Next

\* A new Context has no failures and no items.
LEMMA FarInit == Init => FarInv
<1>1. ToSet(<<>>) = {} /\ Far({}) = {}
  BY DEF ToSet, Far
<1> QED
  BY <1>1, FS_EmptySet DEF Init, FarInv

\* A sequence in strictly ascending order has as many items as its set.
LEMMA AscendingCounts ==
  ASSUME NEW s \in Seq(Items), Ascending(s)
  PROVE  IsFiniteSet(ToSet(s)) /\ Cardinality(ToSet(s)) = Len(s)
<1>1. Len(s) \in Nat /\ \A k \in 1..Len(s) : s[k] \in Items
  BY LenProperties, ElementOfSeq
<1>2. DOMAIN s = 1..Len(s) /\ ToSet(s) = {s[k] : k \in 1..Len(s)}
  BY LenProperties DEF ToSet
<1>3. \A j, k \in 1..Len(s) : s[j] = s[k] => j = k
  BY <1>1, ItemOrder DEF Ascending
<1> DEFINE D == 1..Len(s)
           g == [k \in D |-> s[k]]
<1>4. /\ g \in [D -> ToSet(s)] /\ DOMAIN g = D
      /\ \A t \in ToSet(s) : \E k \in D : g[k] = t
      /\ \A j, k \in D : g[j] = g[k] => j = k
  BY <1>2, <1>3
<1> HIDE DEF g
<1>5. g \in Bijection(D, ToSet(s))
  BY <1>4, Zenon DEF Bijection, Injection, Surjection, IsInjective
<1>6. IsFiniteSet(D) /\ Cardinality(D) = Len(s)
  <2>1. PICK n \in Nat : n = Len(s)
    BY <1>1
  <2>2. IsFiniteSet(1..n) /\ Cardinality(1..n) = n
    BY FS_Interval
  <2> QED
    BY <2>1, <2>2
<1> QED
  BY <1>5, <1>6, FS_Bijection DEF ExistsBijection

\* Where nothing looks like something else there is an item for each of the
\* furthest failures.
LEMMA FarCounts ==
  ASSUME Inv, StrictlySorted, FarInv, ShownApart
  PROVE  NothingMerged
<1> DEFINE S == Far(failed)
           T == {Shown[<<f.failing, charSize>>] : f \in S}
           g == [f \in S |-> Shown[<<f.failing, charSize>>]]
<1>1. S \subseteq failed /\ IsFiniteSet(S)
  BY FS_Subset DEF FarInv, Far
<1>2. ASSUME NEW f \in S, NEW h \in S, g[f] = g[h] PROVE f = h
  <2>1. f.failing = h.failing
    BY <1>1, <1>2 DEF ShownApart, FarInv, Inv
  <2>2. f.pos = h.pos
    <3>1. f.pos <= h.pos /\ h.pos <= f.pos /\ f.pos \in Nat /\ h.pos \in Nat
      BY <1>1 DEF Far, FarInv
    <3> QED
      BY <3>1
  <2> QED
    BY <1>1, <2>1, <2>2 DEF FarInv
<1>3. g \in [S -> T] /\ DOMAIN g = S /\ \A t \in T : \E f \in S : g[f] = t
  OBVIOUS
<1> HIDE DEF g, S, T
<1>4. g \in Bijection(S, T)
  BY <1>2, <1>3, Zenon DEF Bijection, Injection, Surjection, IsInjective
<1>5. Cardinality(T) = Cardinality(S)
  BY <1>1, <1>4, FS_Bijection DEF ExistsBijection
<1>6. T = ToSet(m_expected)
  BY DEF FarInv, T, S
<1>7. Cardinality(ToSet(m_expected)) = Len(m_expected)
  <2>1. AllItems \subseteq Items
    BY ShownAreItems DEF AllItems, Range, Shown
  <2>2. m_expected \in Seq(Items)
    BY <2>1, SeqMonotonic DEF Inv
  <2>3. Ascending(m_expected)
    BY DEF StrictlySorted, Ascending
  <2> QED
    BY <2>2, <2>3, AscendingCounts
<1>8. S = {f \in failed : \A h \in failed : h.pos <= f.pos}
  BY DEF S, Far
<1> QED
  BY <1>5, <1>6, <1>7, <1>8 DEF NothingMerged

\* Nothing that can fail looks like something else that can.
LEMMA ShownAreApart == ShownApart
<1> SUFFICES ASSUME NEW w \in CharSizes, NEW f \in Failing, NEW g \in Failing,
                    Shown[<<f, w>>] = Shown[<<g, w>>]
             PROVE  f = g
  BY DEF ShownApart
<1>1. Item(f, w) = Item(g, w)
  BY DEF Shown
<1> QED
  BY <1>1, FailingAssumption, ItemApart

\* The diagnostic lists as many items as different failures were recorded at
\* the furthest position, whatever characters they are of and in whatever order
\* they came: neither the escapes, the digits of a control character, UTF-8, the
\* quotes and commas, nor insert's search makes two of them one
\* (escape_char_for_expected, escape_string_for_expected, to_display,
\* record_failure, ExpectedSet::insert).
THEOREM NothingMergedOK == Spec => []NothingMerged
<1>1. Init => StrictlySorted
  BY DEF Init, StrictlySorted
<1>2. Inv /\ StrictlySorted /\ [Next]_vars => StrictlySorted'
  BY SortedNext
<1>3. Inv /\ StrictlySorted /\ FarInv => NothingMerged
  BY ShownAreApart, FarCounts
<1> QED
  BY <1>1, <1>2, <1>3, InitInv, NextInv, FarInit, FarNext, PTL DEF Spec
=============================================================================
