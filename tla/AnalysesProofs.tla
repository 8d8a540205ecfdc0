--------------------------- MODULE AnalysesProofs ---------------------------
(***************************************************************************)
(* Theorems about Lineup and Trades, for all rosters, forms and slots.     *)
(***************************************************************************)
EXTENDS Lineup, Trades, FiniteSetTheorems, WellFoundedInduction, TLAPS

\* A set of naturals that is not empty has a least element.
LEMMA Least ==
  ASSUME NEW T \in SUBSET Nat, T # {}
  PROVE  \E n \in T : \A m \in T : n <= m
<1> DEFINE R == OpToRel(<, Nat)
<1>1. IsWellFoundedOn(R, Nat)
  BY NatLessThanWellFounded
<1>2. PICK n \in T : \A m \in T : <<m, n>> \notin R
  <2> HIDE DEF R
  <2> QED  BY <1>1, WFMin
<1>3. \A m \in T : ~(m < n)
  BY <1>2 DEF OpToRel
<1> QED  BY <1>3

\* What holds at the start, and of the next number if of this one, holds of all.
LEMMA Upwards ==
  ASSUME NEW n \in Nat, NEW G, 0 \in G, \A m \in 0..(n - 1) : m \in G => m + 1 \in G
  PROVE  0..n \subseteq G
<1> DEFINE T == (0..n) \ G
<1>1. CASE T # {}
  <2>1. PICK m \in T : \A l \in T : m <= l
    <3>1. T \in SUBSET Nat
      OBVIOUS
    <3> HIDE DEF T
    <3> QED  BY <1>1, <3>1, Least
  <2>2. m # 0 /\ m - 1 \in 0..(n - 1)
    OBVIOUS
  <2>3. m - 1 \in G
    BY <2>1, <2>2
  <2> QED  BY <2>2, <2>3
<1> QED  BY <1>1

\* A finite set of integers that is not empty has a greatest element.
LEMMA Greatest ==
  ASSUME NEW S \in SUBSET Int, IsFiniteSet(S), S # {}
  PROVE  \E x \in S : \A y \in S : y <= x
<1> DEFINE Bad(X) == IsFiniteSet(X) /\ X # {} /\ ~\E x \in X : \A y \in X : y <= x
           T == {n \in Nat : \E X \in SUBSET Int : Bad(X) /\ Cardinality(X) = n}
<1>1. CASE T = {}
  BY <1>1, FS_CardinalityType
<1>2. CASE T # {}
  <2>1. PICK n \in T : \A m \in T : n <= m
    <3> HIDE DEF T
    <3>1. T \in SUBSET Nat
      BY DEF T
    <3> QED  BY <1>2, <3>1, Least
  <2>2. PICK X \in SUBSET Int : Bad(X) /\ Cardinality(X) = n
    BY <2>1
  <2>3. PICK x \in X : TRUE
    BY <2>2
  <2>4. IsFiniteSet(X \ {x}) /\ Cardinality(X \ {x}) = n - 1 /\ n - 1 \in Nat
    <3>1. IsFiniteSet(X) /\ X # {} /\ Cardinality(X) = n /\ n \in Nat
      BY <2>2
    <3>2. Cardinality(X) # 0
      BY <3>1, FS_EmptySet
    <3>3. IsFiniteSet(X \ {x}) /\ Cardinality(X \ {x}) = n - 1
      BY <2>3, <3>1, FS_RemoveElement
    <3> QED  BY <3>1, <3>2, <3>3
  <2>5. ~Bad(X \ {x})
    BY <2>1, <2>4
  <2>6. CASE X \ {x} = {}
    BY <2>2, <2>3, <2>6
  <2>7. CASE X \ {x} # {}
    <3>1. PICK y \in X \ {x} : \A z \in X \ {x} : z <= y
      BY <2>4, <2>5, <2>7
    <3>2. \E m \in X : \A z \in X : z <= m
      <4>1. CASE x <= y
        BY <3>1, <4>1
      <4>2. CASE ~(x <= y)
        BY <2>2, <3>1, <4>2
      <4> QED  BY <4>1, <4>2
    <3> QED  BY <2>2, <3>2
  <2> QED  BY <2>6, <2>7
<1> QED  BY <1>1, <1>2

\* Of a finite set of players there is a first one of the greatest value.
LEMMA FirstOfBest ==
  ASSUME NEW S \in SUBSET Nat, IsFiniteSet(S), S # {}, NEW v \in [S -> Int]
  PROVE  \E p \in S : \A q \in S \ {p} : v[q] < v[p] \/ (v[q] = v[p] /\ p < q)
<1> DEFINE values == {v[p] : p \in S}
<1>1. values \in SUBSET Int /\ IsFiniteSet(values) /\ values # {}
  <2>1. IsFiniteSet(values)
    <3>1. v \in Surjection(S, values)
      BY DEF Surjection
    <3> HIDE DEF values
    <3> QED  BY <3>1, FS_Surjection
  <2> QED  BY <2>1
<1>2. PICK best \in values : \A x \in values : x <= best
  <2> HIDE DEF values
  <2> QED  BY <1>1, Greatest
<1> DEFINE top == {p \in S : v[p] = best}
<1>3. PICK p \in top : \A q \in top : p <= q
  <2>1. top \in SUBSET Nat /\ top # {}
    BY <1>2
  <2> HIDE DEF top
  <2> QED  BY <2>1, Least
<1>4. ASSUME NEW q \in S \ {p}
      PROVE  v[q] < v[p] \/ (v[q] = v[p] /\ p < q)
  <2>1. p \in S /\ v[p] = best /\ v[q] \in values /\ v[q] \in Int /\ best \in Int
    OBVIOUS
  <2>2. v[q] <= best
    BY <1>2, <2>1
  <2>3. CASE v[q] = best
    <3>1. p <= q /\ p \in Nat /\ q \in Nat
      BY <1>3, <2>1, <2>3
    <3> QED  BY <2>1, <2>3, <3>1
  <2> QED  BY <2>1, <2>2, <2>3
<1> QED  BY <1>4

-----------------------------------------------------------------------------
(* Sequences of players and what they are worth. *)

Everyone == DOMAIN Position
Pickable == Everyone \cup {Nobody}

LEMMA Numbers ==
  /\ Everyone \subseteq Nat \ {0} /\ IsFiniteSet(Everyone) /\ Players \subseteq Everyone
  /\ Nobody \notin Everyone /\ Pickable \subseteq Nat
<1>1. Position \in Seq(STRING) /\ Len(Position) \in Nat /\ Everyone = 1..Len(Position)
  BY LineupAssumption DEF Everyone
<1>2. IsFiniteSet(Everyone)
  BY <1>1, FS_Interval
<1> QED  BY <1>1, <1>2 DEF Everyone, Pickable, Nobody, Players

FormOK == form \in [Players -> Form]

\* No player is worth less than an empty slot, and only who is inactive is worth as little.
LEMMA Values ==
  ASSUME FormOK, NEW p \in Everyone
  PROVE  /\ PlayerValue(p) \in Int /\ PlayerValue(p) >= -EmptyCost
         /\ PlayerValue(p) = -EmptyCost <=> FormOf(p)[2] \in Inactive
<1> DEFINE points == FormOf(p)[1]
           status == FormOf(p)[2]
<1>1. points \in Int /\ points > -EmptyCost /\ EmptyCost \in Nat \ {0}
  BY LineupAssumption DEF FormOf, FormOK, Players, Everyone
<1>2. PlayerValue(p) = CASE status \in Inactive       -> -EmptyCost
                         [] status = "DOUBTFUL"       -> (points * 13) \div 20
                         [] status = "QUESTIONABLE"   -> (points * 18) \div 20
                         [] OTHER                     -> points
  BY DEF PlayerValue
<1> HIDE DEF points, status
<1>3. /\ (points * 13) \div 20 \in Int /\ (points * 13) \div 20 > -EmptyCost
      /\ (points * 18) \div 20 \in Int /\ (points * 18) \div 20 > -EmptyCost
  <2>1. points * 13 >= 20 * (1 - EmptyCost) /\ points * 18 >= 20 * (1 - EmptyCost)
    BY <1>1
  <2>2. \A x, y \in Int : x >= 20 * y => x \div 20 >= y /\ x \div 20 \in Int
    OBVIOUS
  <2>3. (points * 13) \div 20 >= 1 - EmptyCost /\ (points * 18) \div 20 >= 1 - EmptyCost
    BY <1>1, <2>1, <2>2
  <2> QED  BY <1>1, <2>3
<1>4. status \in Inactive => status # "DOUBTFUL" /\ status # "QUESTIONABLE"
  BY DEF Inactive
<1> QED  BY <1>1, <1>2, <1>3, <1>4 DEF status

LEMMA PickWorths ==
  ASSUME FormOK, NEW p \in Pickable
  PROVE  WorthOf(p) \in Int /\ WorthOf(p) >= -EmptyCost
BY Values, LineupAssumption DEF WorthOf, Pickable

\* Running sums exist.
LEMMA RunningSums ==
  ASSUME NEW n \in Nat, NEW w \in [1..n -> Int]
  PROVE  \E g \in [0..n -> Int] : g = [k \in 0..n |-> IF k = 0 THEN 0 ELSE g[k - 1] + w[k]]
<1> DEFINE Adds(g, m) == g[0] = 0 /\ \A k \in 1..m : g[k] = g[k - 1] + w[k]
           Good(m) == \E g \in [0..m -> Int] : Adds(g, m)
           G == {m \in Nat : Good(m)}
<1>1. Good(0)
  <2>1. [k \in 0..0 |-> 0] \in [0..0 -> Int] /\ Adds([k \in 0..0 |-> 0], 0)
    OBVIOUS
  <2> QED  BY <2>1
<1>2. ASSUME NEW m \in 0..(n - 1), Good(m)
      PROVE  Good(m + 1)
  <2>1. PICK g \in [0..m -> Int] : Adds(g, m)
    BY <1>2
  <2> DEFINE h == [k \in 0..(m + 1) |-> IF k = m + 1 THEN g[m] + w[m + 1] ELSE g[k]]
  <2>2. m \in Nat /\ m + 1 \in 1..n /\ w[m + 1] \in Int
    OBVIOUS
  <2>3. h \in [0..(m + 1) -> Int] /\ h[m + 1] = g[m] + w[m + 1] /\ \A k \in 0..m : h[k] = g[k]
    BY <2>2
  <2> HIDE DEF h
  <2>4. Adds(h, m + 1)
    <3>1. h[0] = 0
      BY <2>1, <2>2, <2>3
    <3>2. ASSUME NEW k \in 1..(m + 1) PROVE h[k] = h[k - 1] + w[k]
      <4>1. CASE k = m + 1
        BY <2>2, <2>3, <4>1
      <4>2. CASE k # m + 1
        <5>1. k \in 1..m /\ k \in 0..m /\ k - 1 \in 0..m
          BY <2>2, <4>2
        <5> QED  BY <2>1, <2>3, <5>1
      <4> QED  BY <4>1, <4>2
    <3> QED  BY <3>1, <3>2
  <2> QED  BY <2>3, <2>4
<1>3. 0..n \subseteq G
  <2> HIDE DEF Good
  <2>1. 0 \in G /\ \A m \in 0..(n - 1) : m \in G => m + 1 \in G
    BY <1>1, <1>2
  <2> HIDE DEF G
  <2> QED  BY <2>1, Upwards
<1>4. Good(n)
  <2> HIDE DEF Good
  <2> QED  BY <1>3
<1>5. PICK g \in [0..n -> Int] : Adds(g, n)
  BY <1>4
<1>6. g = [k \in 0..n |-> IF k = 0 THEN 0 ELSE g[k - 1] + w[k]]
  BY <1>5
<1> QED  BY <1>6

LEMMA SumsAdd ==
  ASSUME FormOK, NEW n \in Nat, NEW s \in [1..n -> Pickable]
  PROVE  /\ Len(s) = n /\ Sums(s) \in [0..n -> Int] /\ Sums(s)[0] = 0
         /\ \A k \in 1..n : Sums(s)[k] = Sums(s)[k - 1] + WorthOf(s[k])
         /\ Total(s) = Sums(s)[n] /\ Total(s) \in Int
<1>1. Len(s) = n
  OBVIOUS
<1> DEFINE w == [k \in 1..n |-> WorthOf(s[k])]
<1>2. w \in [1..n -> Int]
  BY PickWorths
<1>3. PICK g \in [0..n -> Int] : g = [k \in 0..n |-> IF k = 0 THEN 0 ELSE g[k - 1] + w[k]]
  <2> HIDE DEF w
  <2> QED  BY <1>2, RunningSums
<1>4. g = [k \in 0..n |-> IF k = 0 THEN 0 ELSE g[k - 1] + WorthOf(s[k])]
  <2>1. \A k \in 0..n : k # 0 => w[k] = WorthOf(s[k])
    OBVIOUS
  <2> HIDE DEF w
  <2> QED  BY <1>3, <2>1
<1> DEFINE sums == Sums(s)
<1>5. sums = [k \in 0..n |-> IF k = 0 THEN 0 ELSE sums[k - 1] + WorthOf(s[k])]
  BY <1>1, <1>4 DEF Sums
<1> HIDE DEF sums
<1>6. sums = g
  <2> DEFINE G == {k \in Nat : sums[k] = g[k]}
  <2>1. 0 \in G
    BY <1>4, <1>5
  <2>2. ASSUME NEW m \in 0..(n - 1), m \in G PROVE m + 1 \in G
    <3>1. sums[m + 1] = sums[m] + WorthOf(s[m + 1]) /\ g[m + 1] = g[m] + WorthOf(s[m + 1])
      <4>1. m + 1 \in 0..n /\ m + 1 # 0 /\ (m + 1) - 1 = m
        OBVIOUS
      <4> QED  BY <1>4, <1>5, <4>1
    <3> QED  BY <2>2, <3>1
  <2>3. 0..n \subseteq G
    <3> HIDE DEF G
    <3> QED  BY <2>1, <2>2, Upwards
  <2> QED  BY <1>5, <2>3
<1>7. sums \in [0..n -> Int] /\ sums[0] = 0 /\ \A k \in 1..n : sums[k] = sums[k - 1] + WorthOf(s[k])
  BY <1>4, <1>6
<1> QED  BY <1>1, <1>7 DEF sums, Total

\* A player in front of others.
Follows(c, x, s, n, X) ==
    c \in [1..(n + 1) -> X] /\ c[1] = x /\ \A k \in 1..n : c[k + 1] = s[k]

LEMMA Ahead ==
  ASSUME NEW X, NEW n \in Nat, NEW s \in [1..n -> X], NEW x \in X
  PROVE  Follows(<<x>> \o s, x, s, n, X)
<1>1. Len(s) = n /\ s \in Seq(X) /\ <<x>> \in Seq(X) /\ Len(<<x>>) = 1
  OBVIOUS
<1>2. <<x>> \o s \in Seq(X) /\ Len(<<x>> \o s) = n + 1
  BY <1>1
<1>3. \A k \in 1..(n + 1) : (<<x>> \o s)[k] = IF k <= 1 THEN <<x>>[k] ELSE s[k - 1]
  BY <1>1
<1> DEFINE c == <<x>> \o s
<1> HIDE DEF c
<1>4. c \in [1..(n + 1) -> X]
  <2>1. c \in Seq(X) /\ Len(c) = n + 1
    BY <1>2 DEF c
  <2> QED  BY <2>1
<1>5. c[1] = x
  BY <1>3 DEF c
<1>6. \A k \in 1..n : c[k + 1] = s[k]
  BY <1>3 DEF c
<1> QED  BY <1>4, <1>5, <1>6 DEF c, Follows

Splits(s, n, X) ==
    \E t \in [1..n -> X] : s[1] \in X /\ s = <<s[1]>> \o t /\ \A k \in 1..n : t[k] = s[k + 1]

LEMMA AheadOfRest ==
  ASSUME NEW X, NEW n \in Nat, NEW s \in [1..(n + 1) -> X]
  PROVE  Splits(s, n, X)
<1>1. PICK t \in [1..n -> X] : s[1] \in X /\ \A k \in 1..n : t[k] = s[k + 1]
  <2> DEFINE t == [k \in 1..n |-> s[k + 1]]
  <2>1. t \in [1..n -> X] /\ s[1] \in X /\ \A k \in 1..n : t[k] = s[k + 1]
    OBVIOUS
  <2> HIDE DEF t
  <2> QED  BY <2>1
<1>2. Follows(<<s[1]>> \o t, s[1], t, n, X)
  BY <1>1, Ahead
<1> DEFINE c == <<s[1]>> \o t
<1>3. c \in [1..(n + 1) -> X] /\ c[1] = s[1] /\ \A k \in 1..n : c[k + 1] = t[k]
  BY <1>2 DEF Follows
<1> HIDE DEF c
<1>4. ASSUME NEW k \in 1..(n + 1) PROVE c[k] = s[k]
  <2>1. CASE k = 1
    BY <1>3, <2>1
  <2>2. CASE k # 1
    <3>1. k - 1 \in 1..n /\ (k - 1) + 1 = k
      BY <2>2
    <3>2. c[(k - 1) + 1] = t[k - 1] /\ t[k - 1] = s[(k - 1) + 1]
      BY <1>1, <1>3, <3>1
    <3> QED  BY <3>1, <3>2
  <2> QED  BY <2>1, <2>2
<1>5. s = c
  BY <1>3, <1>4
<1> QED  BY <1>1, <1>5 DEF c, Splits

LEMMA TotalOfAhead ==
  ASSUME FormOK, NEW n \in Nat, NEW s \in [1..n -> Pickable], NEW p \in Pickable
  PROVE  Total(<<p>> \o s) = WorthOf(p) + Total(s)
<1> DEFINE c == <<p>> \o s
<1>1. c \in [1..(n + 1) -> Pickable] /\ c[1] = p /\ \A k \in 1..n : c[k + 1] = s[k]
  BY Ahead DEF Follows
<1> HIDE DEF c
<1>2. /\ Sums(c) \in [0..(n + 1) -> Int] /\ Sums(c)[0] = 0
      /\ \A k \in 1..(n + 1) : Sums(c)[k] = Sums(c)[k - 1] + WorthOf(c[k])
      /\ Total(c) = Sums(c)[n + 1]
  <2>1. n + 1 \in Nat
    OBVIOUS
  <2> QED  BY <1>1, <2>1, SumsAdd
<1>3. /\ Sums(s) \in [0..n -> Int] /\ Sums(s)[0] = 0
      /\ \A k \in 1..n : Sums(s)[k] = Sums(s)[k - 1] + WorthOf(s[k])
      /\ Total(s) = Sums(s)[n]
  BY SumsAdd
<1>4. WorthOf(p) \in Int /\ \A k \in 1..n : WorthOf(s[k]) \in Int
  BY PickWorths
<1> DEFINE G == {k \in Nat : Sums(c)[k + 1] = WorthOf(p) + Sums(s)[k]}
<1>5. 0 \in G
  <2>1. Sums(c)[1] = Sums(c)[1 - 1] + WorthOf(c[1])
    BY <1>2
  <2> QED  BY <1>1, <1>2, <1>3, <1>4, <2>1
<1>6. ASSUME NEW m \in 0..(n - 1), m \in G PROVE m + 1 \in G
  <2>1. m + 1 \in 1..n /\ (m + 1) - 1 = m /\ m + 2 \in 1..(n + 1) /\ (m + 2) - 1 = m + 1
        /\ (m + 1) + 1 = m + 2 /\ m \in 0..n /\ m + 1 \in 0..(n + 1) /\ m + 1 \in Nat
    OBVIOUS
  <2>2. Sums(c)[m + 2] = Sums(c)[m + 1] + WorthOf(s[m + 1])
    BY <1>1, <1>2, <2>1
  <2>3. Sums(s)[m + 1] = Sums(s)[m] + WorthOf(s[m + 1])
    BY <1>3, <2>1
  <2>4. Sums(c)[m + 1] = WorthOf(p) + Sums(s)[m]
    BY <1>6
  <2>5. WorthOf(s[m + 1]) \in Int /\ Sums(s)[m] \in Int
    BY <1>3, <1>4, <2>1
  <2> QED  BY <1>4, <2>1, <2>2, <2>3, <2>4, <2>5
<1>7. 0..n \subseteq G
  <2> HIDE DEF G
  <2> QED  BY <1>5, <1>6, Upwards
<1>8. n \in G
  <2> HIDE DEF G
  <2> QED  BY <1>7
<1> QED  BY <1>2, <1>3, <1>8 DEF c

\* Somebody else in one of the slots.
LEMMA TotalOfOther ==
  ASSUME FormOK, NEW n \in Nat, NEW s \in [1..n -> Pickable], NEW j \in 1..n, NEW p \in Pickable
  PROVE  Total([s EXCEPT ![j] = p]) = Total(s) - WorthOf(s[j]) + WorthOf(p)
<1> DEFINE c == [s EXCEPT ![j] = p]
           change == WorthOf(p) - WorthOf(s[j])
<1>1. c \in [1..n -> Pickable] /\ c[j] = p /\ \A k \in 1..n : k # j => c[k] = s[k]
  OBVIOUS
<1> HIDE DEF c
<1>2. /\ Sums(c) \in [0..n -> Int] /\ Sums(c)[0] = 0
      /\ \A k \in 1..n : Sums(c)[k] = Sums(c)[k - 1] + WorthOf(c[k])
      /\ Total(c) = Sums(c)[n]
  BY <1>1, SumsAdd
<1>3. /\ Sums(s) \in [0..n -> Int] /\ Sums(s)[0] = 0
      /\ \A k \in 1..n : Sums(s)[k] = Sums(s)[k - 1] + WorthOf(s[k])
      /\ Total(s) = Sums(s)[n]
  BY SumsAdd
<1>4. WorthOf(p) \in Int /\ \A k \in 1..n : WorthOf(s[k]) \in Int
  BY PickWorths
<1>5. change \in Int
  BY <1>4
<1> DEFINE G == {k \in Nat : Sums(c)[k] = Sums(s)[k] + IF k < j THEN 0 ELSE change}
<1>6. 0 \in G
  BY <1>2, <1>3
<1>7. ASSUME NEW m \in 0..(n - 1), m \in G PROVE m + 1 \in G
  <2> DEFINE k == m + 1
  <2>1. k \in 1..n /\ k - 1 = m /\ k \in Nat /\ m \in 0..n
    OBVIOUS
  <2>2. Sums(c)[k] = Sums(c)[m] + WorthOf(c[k]) /\ Sums(s)[k] = Sums(s)[m] + WorthOf(s[k])
    BY <1>2, <1>3, <2>1
  <2>3. Sums(c)[m] = Sums(s)[m] + IF m < j THEN 0 ELSE change
    BY <1>7
  <2>4. WorthOf(s[k]) \in Int /\ Sums(s)[m] \in Int /\ WorthOf(s[j]) \in Int
    BY <1>3, <1>4, <2>1
  <2> HIDE DEF k
  <2>5. CASE k = j
    <3>1. m < j /\ ~(k < j) /\ WorthOf(c[k]) = WorthOf(s[k]) + change
      <4>1. c[k] = p /\ s[k] = s[j]
        BY <1>1, <2>5
      <4>2. m < j /\ ~(k < j)
        BY <2>5 DEF k
      <4>3. WorthOf(p) = WorthOf(s[j]) + change
        BY <1>4
      <4> QED  BY <4>1, <4>2, <4>3
    <3> HIDE DEF change
    <3>2. Sums(c)[k] = Sums(s)[k] + change
      BY <1>5, <2>2, <2>3, <2>4, <3>1
    <3> QED  BY <2>1, <3>1, <3>2 DEF k
  <2>6. CASE k # j
    <3>1. (m < j <=> k < j) /\ WorthOf(c[k]) = WorthOf(s[k])
      BY <1>1, <2>1, <2>6 DEF k
    <3> HIDE DEF change
    <3>2. Sums(c)[k] = Sums(s)[k] + IF k < j THEN 0 ELSE change
      BY <1>5, <2>2, <2>3, <2>4, <3>1
    <3> QED  BY <2>1, <3>2 DEF k
  <2> QED  BY <2>5, <2>6
<1>8. 0..n \subseteq G
  <2> HIDE DEF G
  <2> QED  BY <1>6, <1>7, Upwards
<1>9. n \in G
  <2> HIDE DEF G
  <2> QED  BY <1>8
<1> QED  BY <1>2, <1>3, <1>4, <1>9 DEF c

-----------------------------------------------------------------------------
(* The search. *)

\* The search is a function: every slot is solved from those that follow.
Levels(solve, roster, ordered) ==
    LET n == Len(ordered) IN
    /\ solve[n + 1] = [used \in SUBSET roster |-> [score |-> 0, picks |-> <<>>]]
    /\ \A i \in 1..n : solve[i] = Solved(roster, ordered[i], solve[i + 1])

LEMMA SearchLevels ==
  ASSUME NEW roster, NEW ordered, Len(ordered) \in Nat
  PROVE  Levels(Search(roster, ordered), roster, ordered)
<1> DEFINE n == Len(ordered)
           done == [used \in SUBSET roster |-> [score |-> 0, picks |-> <<>>]]
           Steps(g, m) == /\ g = [i \in m..(n + 1) |-> g[i]]
                          /\ g[n + 1] = done
                          /\ \A i \in m..n : g[i] = Solved(roster, ordered[i], g[i + 1])
           Good(m) == \E g : Steps(g, n + 1 - m)
           G == {m \in Nat : Good(m)}
<1> HIDE DEF n, done
<1>1. Good(0)
  <2> DEFINE g == [i \in (n + 1)..(n + 1) |-> done]
  <2>1. n + 1 \in (n + 1)..(n + 1) /\ (n + 1)..n = {} /\ n + 1 - 0 = n + 1
    BY DEF n
  <2>2. g[n + 1] = done
    BY <2>1
  <2>3. g = [i \in (n + 1)..(n + 1) |-> g[i]]
    OBVIOUS
  <2> HIDE DEF g
  <2>4. Steps(g, n + 1 - 0)
    BY <2>1, <2>2, <2>3
  <2> QED  BY <2>4
<1>2. ASSUME NEW m \in 0..(n - 1), Good(m)
      PROVE  Good(m + 1)
  <2> DEFINE lo == n + 1 - m
             k == n - m
  <2>1. /\ lo \in Nat /\ k \in Nat /\ lo = k + 1 /\ n + 1 - (m + 1) = k /\ lo \in lo..(n + 1) /\ k # lo
        /\ k \notin lo..(n + 1) /\ k..(n + 1) = (lo..(n + 1)) \cup {k} /\ k..n = (lo..n) \cup {k}
        /\ n + 1 \in lo..(n + 1) /\ \A i \in lo..n : i \in lo..(n + 1) /\ i + 1 \in lo..(n + 1)
    BY DEF n
  <2> HIDE DEF lo, k
  <2>2. PICK g : Steps(g, lo)
    BY <1>2 DEF lo
  <2> DEFINE next == Solved(roster, ordered[k], g[lo])
             h == [i \in (lo..(n + 1)) \cup {k} |-> IF i = k THEN next ELSE g[i]]
  <2> HIDE DEF next
  <2>3. h[k] = next /\ \A i \in lo..(n + 1) : h[i] = g[i]
    BY <2>1
  <2>4. h = [i \in k..(n + 1) |-> h[i]]
    BY <2>1
  <2> HIDE DEF h
  <2>5. h[n + 1] = done
    BY <2>1, <2>2, <2>3
  <2>6. ASSUME NEW i \in k..n PROVE h[i] = Solved(roster, ordered[i], h[i + 1])
    <3>1. CASE i = k
      BY <2>1, <2>3, <3>1 DEF next
    <3>2. CASE i # k
      <4>1. i \in lo..n
        BY <2>1, <3>2
      <4>2. g[i] = Solved(roster, ordered[i], g[i + 1]) /\ h[i] = g[i] /\ h[i + 1] = g[i + 1]
        BY <2>1, <2>2, <2>3, <4>1
      <4> QED  BY <4>2
    <3> QED  BY <3>1, <3>2
  <2>7. Steps(h, n + 1 - (m + 1))
    BY <2>1, <2>4, <2>5, <2>6
  <2> QED  BY <2>7
<1>3. n \in Nat
  BY DEF n
<1>4. 0..n \subseteq G
  <2> HIDE DEF Good
  <2>1. 0 \in G /\ \A m \in 0..(n - 1) : m \in G => m + 1 \in G
    BY <1>1, <1>2, <1>3
  <2> HIDE DEF G
  <2> QED  BY <1>3, <2>1, Upwards
<1>5. Good(n)
  <2> HIDE DEF Good
  <2>1. n \in G
    BY <1>3, <1>4
  <2> QED  BY <2>1
<1>6. PICK g : Steps(g, 1)
  <2>1. n + 1 - n = 1
    BY <1>3
  <2> QED  BY <1>5, <2>1
<1> DEFINE level(h, i) == IF i > n THEN done ELSE Solved(roster, ordered[i], h[i + 1])
<1>7. g = [i \in 1..(n + 1) |-> level(g, i)]
  <2>1. \A i \in 1..(n + 1) : i = n + 1 \/ i \in 1..n
    BY <1>3
  <2>2. ASSUME NEW i \in 1..(n + 1) PROVE g[i] = level(g, i)
    <3>1. CASE i = n + 1
      BY <1>3, <1>6, <3>1
    <3>2. CASE i \in 1..n
      <4>1. ~(i > n)
        BY <1>3, <3>2
      <4> QED  BY <1>6, <3>2, <4>1
    <3> QED  BY <2>1, <3>1, <3>2
  <2> HIDE DEF level
  <2> QED  BY <1>6, <2>2
<1> DEFINE solve == Search(roster, ordered)
<1>8. solve = [i \in 1..(n + 1) |-> level(solve, i)]
  BY <1>7 DEF Search, n, done
<1> HIDE DEF solve
<1>9. solve[n + 1] = done
  BY <1>3, <1>8
<1>10. ASSUME NEW i \in 1..n PROVE solve[i] = Solved(roster, ordered[i], solve[i + 1])
  <2>1. ~(i > n) /\ i \in 1..(n + 1)
    BY <1>3
  <2>2. solve[i] = level(solve, i)
    <3> HIDE DEF level
    <3> QED  BY <1>8, <2>1
  <2> QED  BY <2>1, <2>2
<1> QED  BY <1>9, <1>10 DEF solve, n, done, Levels

\* The slots from i on are filled with different players who may start there, none of them used.
Fits(picks, i, used, roster, ordered) ==
    /\ picks \in [1..(Len(ordered) + 1 - i) -> roster \cup {Nobody}]
    /\ \A k \in 1..(Len(ordered) + 1 - i) : picks[k] # Nobody =>
          picks[k] \notin used /\ Eligible(picks[k], ordered[(i - 1) + k])
    /\ \A k, l \in 1..(Len(ordered) + 1 - i) :
          k # l /\ picks[k] = picks[l] => picks[k] = Nobody

\* Who may start in slot i.
Free(i, used, roster, ordered) == {p \in roster \ used : Eligible(p, ordered[i])}

Instance(roster, ordered) ==
    roster \subseteq Everyone /\ Len(ordered) \in Nat

LEMMA FitsAhead ==
  ASSUME NEW roster, NEW ordered, Instance(roster, ordered), NEW i \in 1..Len(ordered),
         NEW used \in SUBSET roster, NEW t, Fits(t, i + 1, used, roster, ordered),
         NEW p, p = Nobody \/ (p \in Free(i, used, roster, ordered)
                               /\ Fits(t, i + 1, used \cup {p}, roster, ordered))
  PROVE  Fits(<<p>> \o t, i, used, roster, ordered)
<1> DEFINE n == Len(ordered) - i
           c == <<p>> \o t
<1>1. /\ n \in Nat /\ Len(ordered) + 1 - (i + 1) = n /\ Len(ordered) + 1 - i = n + 1
      /\ i \in Nat /\ (i + 1) - 1 = i
  BY DEF Instance
<1> HIDE DEF n
<1>2. t \in [1..n -> roster \cup {Nobody}] /\ p \in roster \cup {Nobody}
  BY <1>1 DEF Fits, Free
<1>3. c \in [1..(n + 1) -> roster \cup {Nobody}] /\ c[1] = p /\ \A k \in 1..n : c[k + 1] = t[k]
  <2> DEFINE X == roster \cup {Nobody}
  <2>1. t \in [1..n -> X] /\ p \in X
    BY <1>2
  <2> HIDE DEF X
  <2>2. Follows(c, p, t, n, X)
    BY <1>1, <2>1, Ahead
  <2> QED  BY <2>2 DEF Follows, X
<1> HIDE DEF c
<1>4. \A k \in 1..(n + 1) : k = 1 \/ \E l \in 1..n : k = l + 1
  <2> SUFFICES ASSUME NEW k \in 1..(n + 1), k # 1 PROVE \E l \in 1..n : k = l + 1
    OBVIOUS
  <2>1. k - 1 \in 1..n /\ k = (k - 1) + 1
    BY <1>1
  <2> QED  BY <2>1
<1>5. ASSUME NEW k \in 1..n
      PROVE  /\ t[k] # Nobody => /\ t[k] \notin used /\ Eligible(t[k], ordered[(i - 1) + (k + 1)])
                                 /\ p # Nobody => t[k] # p
             /\ \A l \in 1..n : k # l /\ t[k] = t[l] => t[k] = Nobody
  <2>1. ((i + 1) - 1) + k = (i - 1) + (k + 1)
    BY <1>1
  <2> QED  BY <1>1, <2>1 DEF Fits
<1>6. ASSUME NEW k \in 1..(n + 1), c[k] # Nobody
      PROVE  c[k] \notin used /\ Eligible(c[k], ordered[(i - 1) + k])
  <2>1. CASE k = 1
    <3>1. (i - 1) + k = i
      BY <1>1, <2>1
    <3> QED  BY <1>3, <1>6, <2>1, <3>1 DEF Free
  <2>2. CASE \E l \in 1..n : k = l + 1
    BY <1>3, <1>5, <1>6, <2>2
  <2> QED  BY <1>4, <2>1, <2>2
<1>7. ASSUME NEW k \in 1..(n + 1), NEW l \in 1..(n + 1), k # l, c[k] = c[l]
      PROVE  c[k] = Nobody
  <2>1. CASE k = 1
    BY <1>3, <1>4, <1>5, <1>7, <2>1
  <2>2. CASE l = 1
    BY <1>3, <1>4, <1>5, <1>7, <2>2
  <2>3. CASE k # 1 /\ l # 1
    BY <1>3, <1>4, <1>5, <1>7, <2>3
  <2> QED  BY <2>1, <2>2, <2>3
<1> QED  BY <1>1, <1>3, <1>6, <1>7 DEF Fits, c

LEMMA FitsRest ==
  ASSUME NEW roster, NEW ordered, Instance(roster, ordered), NEW i \in 1..Len(ordered),
         NEW used \in SUBSET roster, NEW c, Fits(c, i, used, roster, ordered)
  PROVE  \E t : /\ c = <<c[1]>> \o t /\ Fits(t, i + 1, used, roster, ordered)
                /\ \/ c[1] = Nobody
                   \/ /\ c[1] \in Free(i, used, roster, ordered)
                      /\ Fits(t, i + 1, used \cup {c[1]}, roster, ordered)
<1> DEFINE n == Len(ordered) - i
<1>1. /\ n \in Nat /\ Len(ordered) + 1 - (i + 1) = n /\ Len(ordered) + 1 - i = n + 1
      /\ i \in Nat /\ (i + 1) - 1 = i
  BY DEF Instance
<1> HIDE DEF n
<1>2. c \in [1..(n + 1) -> roster \cup {Nobody}]
  BY <1>1 DEF Fits
<1>3. PICK t \in [1..n -> roster \cup {Nobody}] :
          c = <<c[1]>> \o t /\ \A k \in 1..n : t[k] = c[k + 1]
  <2> DEFINE X == roster \cup {Nobody}
  <2>1. c \in [1..(n + 1) -> X]
    BY <1>2
  <2> HIDE DEF X
  <2>2. Splits(c, n, X)
    BY <1>1, <2>1, AheadOfRest
  <2> QED  BY <2>2 DEF X, Splits
<1>4. ASSUME NEW k \in 1..n
      PROVE  /\ k + 1 \in 1..(n + 1) /\ k + 1 # 1 /\ ((i + 1) - 1) + k = (i - 1) + (k + 1)
             /\ 1 \in 1..(n + 1)
  BY <1>1
<1>5. ASSUME NEW k \in 1..n, t[k] # Nobody
      PROVE  t[k] \notin used /\ t[k] # c[1] /\ Eligible(t[k], ordered[((i + 1) - 1) + k])
  <2>1. /\ \A l \in 1..(n + 1) : c[l] # Nobody => c[l] \notin used /\ Eligible(c[l], ordered[(i - 1) + l])
        /\ \A l, m \in 1..(n + 1) : l # m /\ c[l] = c[m] => c[l] = Nobody
    BY <1>1 DEF Fits
  <2>2. t[k] = c[k + 1] /\ c[k + 1] # c[1]
    BY <1>3, <1>4, <1>5, <2>1
  <2> QED  BY <1>4, <1>5, <2>1, <2>2
<1>6. ASSUME NEW k \in 1..n, NEW l \in 1..n, k # l, t[k] = t[l]
      PROVE  t[k] = Nobody
  <2>1. k + 1 # l + 1
    BY <1>6
  <2>2. t[k] = c[k + 1] /\ t[l] = c[l + 1] /\ c[k + 1] = c[l + 1]
    BY <1>3, <1>6
  <2>3. k + 1 \in 1..(n + 1) /\ l + 1 \in 1..(n + 1)
    BY <1>4
  <2>4. \A x, y \in 1..(n + 1) : x # y /\ c[x] = c[y] => c[x] = Nobody
    BY <1>1 DEF Fits
  <2> QED  BY <2>1, <2>2, <2>3, <2>4
<1>7. Fits(t, i + 1, used, roster, ordered)
  BY <1>1, <1>5, <1>6 DEF Fits
<1>8. Fits(t, i + 1, used \cup {c[1]}, roster, ordered)
  BY <1>1, <1>5, <1>6 DEF Fits
<1>9. c[1] # Nobody => c[1] \in Free(i, used, roster, ordered)
  <2>1. 1 \in 1..(n + 1) /\ (i - 1) + 1 = i
    BY <1>1
  <2> QED  BY <1>1, <1>2, <2>1 DEF Fits, Free
<1> QED  BY <1>3, <1>7, <1>8, <1>9

\* A player who is wanted in front can be spared behind, for an empty slot.
LEMMA FitsVacated ==
  ASSUME FormOK, NEW roster, NEW ordered, Instance(roster, ordered), NEW i \in 1..Len(ordered),
         NEW used \in SUBSET roster, NEW t, Fits(t, i + 1, used, roster, ordered),
         NEW p \in roster
  PROVE  \E s : /\ Fits(s, i + 1, used, roster, ordered)
                /\ Fits(s, i + 1, used \cup {p}, roster, ordered)
                /\ WorthOf(p) + Total(s) >= Total(t) - EmptyCost
<1> DEFINE n == Len(ordered) - i
<1>1. /\ n \in Nat /\ Len(ordered) + 1 - (i + 1) = n
  BY DEF Instance
<1> HIDE DEF n
<1>2. t \in [1..n -> roster \cup {Nobody}]
  BY <1>1 DEF Fits
<1>3. p \in Everyone /\ p # Nobody /\ p \in Pickable /\ roster \cup {Nobody} \subseteq Pickable
      /\ Nobody \in Pickable
  BY Numbers DEF Instance, Pickable
<1>4. t \in [1..n -> Pickable] /\ Total(t) \in Int
  <2>1. t \in [1..n -> Pickable]
    BY <1>2, <1>3
  <2> QED  BY <1>1, <2>1, SumsAdd
<1>5. WorthOf(p) \in Int /\ WorthOf(p) >= -EmptyCost /\ WorthOf(Nobody) = -EmptyCost
      /\ EmptyCost \in Nat
  BY <1>3, PickWorths, LineupAssumption DEF WorthOf
<1>6. CASE \A k \in 1..n : t[k] # p
  <2>1. Fits(t, i + 1, used \cup {p}, roster, ordered)
    BY <1>1, <1>6 DEF Fits
  <2> QED  BY <1>4, <1>5, <2>1
<1>7. ASSUME NEW j \in 1..n, t[j] = p
      PROVE  \E s : /\ Fits(s, i + 1, used, roster, ordered)
                    /\ Fits(s, i + 1, used \cup {p}, roster, ordered)
                    /\ WorthOf(p) + Total(s) >= Total(t) - EmptyCost
  <2> DEFINE s == [t EXCEPT ![j] = Nobody]
  <2>1. Total(s) = Total(t) - WorthOf(p) + WorthOf(Nobody)
    BY <1>1, <1>3, <1>4, <1>7, TotalOfOther
  <2>2. s \in [1..n -> roster \cup {Nobody}] /\ s[j] = Nobody /\ \A k \in 1..n : k # j => s[k] = t[k]
    BY <1>2
  <2> HIDE DEF s
  <2>3. \A k \in 1..n : k # j => t[k] # p
    BY <1>1, <1>3, <1>7 DEF Fits
  <2>4. Fits(s, i + 1, used, roster, ordered) /\ Fits(s, i + 1, used \cup {p}, roster, ordered)
    BY <1>1, <2>2, <2>3 DEF Fits
  <2>5. WorthOf(p) + Total(s) >= Total(t) - EmptyCost
    BY <1>4, <1>5, <2>1
  <2> QED  BY <2>4, <2>5
<1> QED  BY <1>6, <1>7

\* What m empty slots cost.
Cost(m) == m * EmptyCost

\* An answer of the search for the slots from i on: the best that fits.
IsBest(o, i, used, roster, ordered) ==
    /\ Fits(o.picks, i, used, roster, ordered)
    /\ o.score = Total(o.picks)
    /\ \A picks : Fits(picks, i, used, roster, ordered) => Total(picks) <= o.score
    /\ o.score >= -Cost(Len(ordered) + 1 - i)

AllBest(next, i, roster, ordered) ==
    \A used \in SUBSET roster : IsBest(next[used], i, used, roster, ordered)

\* The sentinel is below every score.
Affordable(ordered) == Cost(Len(ordered)) < Sentinel

LEMMA FitsTotal ==
  ASSUME FormOK, NEW roster, NEW ordered, Instance(roster, ordered), NEW i \in 1..(Len(ordered) + 1),
         NEW used, NEW t, Fits(t, i, used, roster, ordered)
  PROVE  /\ Total(t) \in Int
         /\ \A p \in roster \cup {Nobody} : Total(<<p>> \o t) = WorthOf(p) + Total(t)
<1> DEFINE n == Len(ordered) + 1 - i
<1>1. n \in Nat
  BY DEF Instance
<1>2. t \in [1..n -> Pickable] /\ roster \cup {Nobody} \subseteq Pickable
  BY Numbers DEF Fits, Instance, Pickable
<1> HIDE DEF n
<1> QED  BY <1>1, <1>2, SumsAdd, TotalOfAhead

\* A choice between the answers for the slots that follow is the answer for this one, too.
LEMMA ChoiceIsBest ==
  ASSUME FormOK, NEW roster, NEW ordered, Instance(roster, ordered), NEW i \in 1..Len(ordered),
         Affordable(ordered), NEW used \in SUBSET roster, NEW next,
         AllBest(next, i + 1, roster, ordered)
  PROVE  IsBest(Solved(roster, ordered[i], next)[used], i, used, roster, ordered)
<1> DEFINE free == Free(i, used, roster, ordered)
           rest == [p \in free |-> next[used \cup {p}]]
           option(p) == [score |-> Worth(p, rest[p].score), picks |-> <<p>> \o rest[p].picks]
           found == {o \in {option(p) : p \in DOMAIN rest} : o.score > -Sentinel}
           empty == next[used]
           answer == Choice(rest, empty)
           left == Len(ordered) - i
<1>1. Solved(roster, ordered[i], next)[used] = answer
  BY DEF Solved, Free
<1>2. /\ left \in Nat /\ i + 1 \in 1..(Len(ordered) + 1) /\ EmptyCost \in Nat /\ Sentinel \in Nat
      /\ Len(ordered) + 1 - (i + 1) = left /\ Len(ordered) + 1 - i = left + 1 /\ i \in 1..(Len(ordered) + 1)
      /\ Len(ordered) \in Nat /\ left + 1 <= Len(ordered)
  BY LineupAssumption DEF Instance
<1> HIDE DEF left
<1>3. /\ Cost(left + 1) = Cost(left) + EmptyCost /\ Cost(left) \in Nat /\ Cost(left + 1) \in Nat
      /\ Cost(left + 1) < Sentinel
  <2>1. \A m \in Nat : (m + 1) * EmptyCost = m * EmptyCost + EmptyCost /\ m * EmptyCost \in Nat
    BY <1>2
  <2>2. (left + 1) * EmptyCost <= Len(ordered) * EmptyCost
    BY <1>2
  <2>3. left + 1 \in Nat
    BY <1>2
  <2> QED  BY <1>2, <2>1, <2>2, <2>3 DEF Cost, Affordable
<1>4. free \in SUBSET Nat /\ IsFiniteSet(free) /\ free \subseteq roster /\ Nobody \notin free
      /\ free \subseteq Everyone
  <2>1. free \subseteq Everyone
    BY DEF Free, Instance
  <2>2. IsFiniteSet(free)
    BY <2>1, Numbers, FS_Subset
  <2> QED  BY <2>1, <2>2, Numbers DEF Free
<1>5. ASSUME NEW p \in free
      PROVE  /\ rest[p] = next[used \cup {p}] /\ used \cup {p} \in SUBSET roster
             /\ IsBest(rest[p], i + 1, used \cup {p}, roster, ordered)
             /\ rest[p].score \in Int /\ WorthOf(p) \in Int /\ WorthOf(p) >= -EmptyCost
             /\ Worth(p, rest[p].score) = WorthOf(p) + rest[p].score
  <2>1. rest[p] = next[used \cup {p}] /\ used \cup {p} \in SUBSET roster
    BY <1>4
  <2>2. IsBest(rest[p], i + 1, used \cup {p}, roster, ordered)
    BY <2>1 DEF AllBest
  <2>3. rest[p].score \in Int
    BY <1>2, <2>2, FitsTotal DEF IsBest
  <2>4. WorthOf(p) \in Int /\ WorthOf(p) >= -EmptyCost /\ WorthOf(p) = PlayerValue(p)
    BY <1>4, PickWorths, Numbers DEF Pickable, WorthOf
  <2> QED  BY <2>1, <2>2, <2>3, <2>4 DEF Worth
<1> HIDE DEF free, rest
<1>6. ASSUME NEW p \in free
      PROVE  LET o == option(p) IN
             /\ o.picks = <<p>> \o rest[p].picks /\ o.picks[1] = p
             /\ o.score = WorthOf(p) + rest[p].score /\ o.score \in Int
             /\ Fits(o.picks, i, used, roster, ordered) /\ o.score = Total(o.picks)
             /\ o.score >= -Cost(left + 1) /\ o.score > -Sentinel
  <2> DEFINE t == rest[p].picks
             score == rest[p].score
  <2>1. Fits(t, i + 1, used \cup {p}, roster, ordered) /\ score = Total(t) /\ score >= -Cost(left)
    BY <1>2, <1>5 DEF IsBest
  <2> HIDE DEF t, score
  <2>2. Fits(t, i + 1, used, roster, ordered)
    BY <2>1 DEF Fits
  <2>3. Fits(<<p>> \o t, i, used, roster, ordered)
    BY <2>1, <2>2, FitsAhead DEF free
  <2>4. Total(<<p>> \o t) = WorthOf(p) + Total(t)
    BY <1>2, <1>4, <2>1, <1>5, FitsTotal
  <2>5. (<<p>> \o t)[1] = p
    <3>1. t \in [1..left -> roster \cup {Nobody}] /\ p \in roster \cup {Nobody}
      BY <1>2, <1>4, <2>1 DEF Fits
    <3> DEFINE X == roster \cup {Nobody}
    <3> HIDE DEF X
    <3>2. t \in [1..left -> X] /\ p \in X
      BY <3>1 DEF X
    <3>3. Follows(<<p>> \o t, p, t, left, X)
      BY <1>2, <3>2, Ahead
    <3> QED  BY <3>3 DEF Follows
  <2>6. WorthOf(p) + score >= -Cost(left + 1) /\ WorthOf(p) + score > -Sentinel
        /\ WorthOf(p) + score \in Int
    <3>1. WorthOf(p) \in Int /\ WorthOf(p) >= -EmptyCost /\ score \in Int /\ score >= -Cost(left)
      BY <1>5, <2>1 DEF score
    <3>2. \A w, x, e, c, d, k \in Int : w >= -e /\ x >= -c /\ d = c + e /\ d < k =>
             w + x >= -d /\ w + x > -k /\ w + x \in Int
      OBVIOUS
    <3>3. EmptyCost \in Int /\ Sentinel \in Int /\ Cost(left) \in Int /\ Cost(left + 1) \in Int
      BY <1>2, <1>3
    <3> HIDE DEF score
    <3> QED  BY <1>3, <3>1, <3>2, <3>3
  <2>7. option(p).picks = <<p>> \o t /\ option(p).score = WorthOf(p) + score
    BY <1>5 DEF t, score
  <2> HIDE DEF option
  <2> QED  BY <2>1, <2>3, <2>4, <2>5, <2>6, <2>7 DEF t, score
<1>7. DOMAIN rest = free
  BY DEF rest
<1> HIDE DEF option
<1>8. found = {option(p) : p \in free}
  BY <1>6, <1>7
<1>9. IsBest(empty, i + 1, used, roster, ordered)
  BY DEF AllBest
<1>10. WorthOf(Nobody) = -EmptyCost /\ Total(empty.picks) \in Int /\ empty.score = Total(empty.picks)
       /\ Fits(empty.picks, i + 1, used, roster, ordered)
       /\ empty.score >= -Cost(left)
  BY <1>2, <1>9, FitsTotal DEF WorthOf, IsBest
<1> HIDE DEF found
<1>11. answer = IF found = {}
                THEN [score |-> empty.score - EmptyCost, picks |-> <<Nobody>> \o empty.picks]
                ELSE CHOOSE o \in found : \A q \in found \ {o} :
                        q.score < o.score \/ (q.score = o.score /\ o.picks[1] < q.picks[1])
  BY DEF Choice, found, option
<1> HIDE DEF empty
<1>12. CASE free = {}
  <2> DEFINE o == [score |-> empty.score - EmptyCost, picks |-> <<Nobody>> \o empty.picks]
  <2>1. answer = o
    BY <1>8, <1>11, <1>12
  <2>2. o.picks = <<Nobody>> \o empty.picks /\ o.score = empty.score - EmptyCost
    OBVIOUS
  <2> HIDE DEF o
  <2>3. Fits(o.picks, i, used, roster, ordered)
    BY <1>10, <2>2, FitsAhead
  <2>4. o.score = Total(o.picks)
    <3> DEFINE t == empty.picks
    <3>1. \A p \in roster \cup {Nobody} : Total(<<p>> \o t) = WorthOf(p) + Total(t)
      <4>1. Fits(t, i + 1, used, roster, ordered)
        BY <1>10
      <4> HIDE DEF t, o
      <4>2. i + 1 \in 1..(Len(ordered) + 1)
        BY <1>2
      <4> QED  BY <4>1, <4>2, FitsTotal
    <3>2. Total(o.picks) = WorthOf(Nobody) + Total(empty.picks)
      BY <2>2, <3>1
    <3> QED  BY <1>2, <1>10, <2>2, <3>2
  <2>5. ASSUME NEW picks, Fits(picks, i, used, roster, ordered)
        PROVE  Total(picks) <= o.score
    <3>1. PICK t : /\ picks = <<picks[1]>> \o t /\ Fits(t, i + 1, used, roster, ordered)
                   /\ picks[1] = Nobody
      BY <1>12, <2>5, FitsRest DEF free
    <3>2. Total(picks) = WorthOf(Nobody) + Total(t) /\ Total(t) \in Int
      <4>1. /\ \A p \in roster \cup {Nobody} : Total(<<p>> \o t) = WorthOf(p) + Total(t)
            /\ Total(t) \in Int
        <5>1. i + 1 \in 1..(Len(ordered) + 1) /\ Fits(t, i + 1, used, roster, ordered)
          BY <1>2, <3>1
        <5> QED  BY <5>1, FitsTotal
      <4> QED  BY <3>1, <4>1
    <3>3. Total(t) <= empty.score
      BY <1>9, <3>1 DEF IsBest
    <3>4. \A x, y, z, e \in Int : x = -e + y /\ y <= z => x <= z - e
      OBVIOUS
    <3>5. Total(picks) \in Int /\ empty.score \in Int /\ EmptyCost \in Int
      BY <1>2, <1>10, <3>2
    <3> QED  BY <1>10, <2>2, <3>2, <3>3, <3>4, <3>5
  <2>6. o.score >= -Cost(left + 1)
    <3>1. \A x, c \in Int : x >= -c => x - EmptyCost >= -(c + EmptyCost)
      BY <1>2
    <3>2. empty.score \in Int /\ Cost(left) \in Int /\ empty.score >= -Cost(left)
      BY <1>3, <1>10
    <3>3. empty.score - EmptyCost >= -(Cost(left) + EmptyCost)
      BY <3>1, <3>2
    <3> QED  BY <1>3, <2>2, <3>3
  <2> QED  BY <1>1, <1>2, <2>1, <2>3, <2>4, <2>5, <2>6 DEF IsBest
<1>13. CASE free # {}
  <2> DEFINE v == [p \in free |-> option(p).score]
             first(o) == \A q \in found \ {o} :
                           q.score < o.score \/ (q.score = o.score /\ o.picks[1] < q.picks[1])
  <2>1. v \in [free -> Int]
    BY <1>6
  <2>2. PICK p \in free : \A q \in free \ {p} : v[q] < v[p] \/ (v[q] = v[p] /\ p < q)
    <3> HIDE DEF v
    <3> QED  BY <1>4, <1>13, <2>1, FirstOfBest
  <2>3. option(p) \in found /\ first(option(p))
    <3>1. \A q \in free : v[q] = option(q).score /\ option(q).picks[1] = q
      BY <1>6
    <3> HIDE DEF v
    <3>2. ASSUME NEW q \in free, option(q) # option(p)
          PROVE  \/ option(q).score < option(p).score
                 \/ option(q).score = option(p).score /\ option(p).picks[1] < option(q).picks[1]
      <4>1. v[q] < v[p] \/ (v[q] = v[p] /\ p < q)
        BY <2>2, <3>2
      <4> QED  BY <3>1, <4>1
    <3> QED  BY <1>8, <3>2
  <2>4. answer \in found /\ first(answer)
    <3>1. found # {}
      BY <2>3
    <3>2. answer = CHOOSE o \in found : first(o)
      BY <1>11, <3>1
    <3> HIDE DEF first, answer
    <3> QED  BY <2>3, <3>2
  <2>5. PICK best \in free : answer = option(best)
    BY <1>8, <2>4
  <2> HIDE DEF answer
  <2>6. \A q \in free : option(q).score <= answer.score /\ option(q).score \in Int /\ answer.score \in Int
    <3> SUFFICES ASSUME NEW q \in free PROVE option(q).score <= answer.score
      BY <1>6, <2>5
    <3>1. option(q).score \in Int /\ answer.score \in Int
      BY <1>6, <2>5
    <3>2. option(q) = answer \/ option(q).score < answer.score \/ option(q).score = answer.score
      BY <1>8, <2>4
    <3> QED  BY <3>1, <3>2
  <2>7. ASSUME NEW q \in free, NEW t, Fits(t, i + 1, used \cup {q}, roster, ordered)
        PROVE  WorthOf(q) + Total(t) <= answer.score /\ Total(t) \in Int /\ WorthOf(q) \in Int
    <3>1. Total(t) <= rest[q].score /\ Total(t) \in Int
      BY <1>2, <1>5, <2>7, FitsTotal DEF IsBest
    <3>2. /\ rest[q].score \in Int /\ WorthOf(q) \in Int /\ answer.score \in Int
          /\ WorthOf(q) + rest[q].score <= answer.score
      BY <1>5, <1>6, <2>6
    <3> QED  BY <3>1, <3>2
  <2>8. ASSUME NEW picks, Fits(picks, i, used, roster, ordered)
        PROVE  Total(picks) <= answer.score
    <3>1. PICK t : /\ picks = <<picks[1]>> \o t /\ Fits(t, i + 1, used, roster, ordered)
                   /\ \/ picks[1] = Nobody
                      \/ /\ picks[1] \in free
                         /\ Fits(t, i + 1, used \cup {picks[1]}, roster, ordered)
      BY <2>8, FitsRest DEF free
    <3>2. Total(picks) = WorthOf(picks[1]) + Total(t) /\ Total(t) \in Int
      <4>1. /\ \A x \in roster \cup {Nobody} : Total(<<x>> \o t) = WorthOf(x) + Total(t)
            /\ Total(t) \in Int
        BY <1>2, <3>1, FitsTotal
      <4>2. picks[1] \in roster \cup {Nobody}
        BY <1>4, <3>1
      <4> QED  BY <3>1, <4>1, <4>2
    <3>3. CASE picks[1] \in free /\ Fits(t, i + 1, used \cup {picks[1]}, roster, ordered)
      BY <2>7, <3>2, <3>3
    <3>4. CASE picks[1] = Nobody
      <4>1. PICK q \in free : TRUE
        BY <1>13
      <4>2. PICK s : /\ Fits(s, i + 1, used \cup {q}, roster, ordered)
                     /\ WorthOf(q) + Total(s) >= Total(t) - EmptyCost
        BY <1>4, <3>1, FitsVacated
      <4>3. WorthOf(q) + Total(s) <= answer.score /\ Total(s) \in Int /\ WorthOf(q) \in Int
        BY <2>7, <4>2
      <4>4. \A x, y, z, e, w \in Int : x + y >= z - e /\ x + y <= w => -e + z <= w
        OBVIOUS
      <4>5. answer.score \in Int /\ EmptyCost \in Int /\ Total(picks) = -EmptyCost + Total(t)
        BY <1>2, <1>10, <2>5, <2>6, <3>2, <3>4
      <4> QED  BY <3>2, <4>2, <4>3, <4>4, <4>5
    <3> QED  BY <3>1, <3>3, <3>4
  <2>9. Fits(answer.picks, i, used, roster, ordered) /\ answer.score = Total(answer.picks)
        /\ answer.score >= -Cost(left + 1)
    BY <1>6, <2>5
  <2> QED  BY <1>1, <1>2, <2>8, <2>9 DEF IsBest, answer
<1> QED  BY <1>12, <1>13

\* The search finds the best of all ways to fill the slots, the first slot to the last.
LEMMA SearchIsBest ==
  ASSUME FormOK, NEW roster, NEW ordered, Instance(roster, ordered), Affordable(ordered)
  PROVE  IsBest(Search(roster, ordered)[1][{}], 1, {}, roster, ordered)
<1> DEFINE n == Len(ordered)
           solve == Search(roster, ordered)
           G == {m \in Nat : AllBest(solve[n + 1 - m], n + 1 - m, roster, ordered)}
<1>1. n \in Nat
  BY DEF Instance
<1>2. /\ solve[n + 1] = [used \in SUBSET roster |-> [score |-> 0, picks |-> <<>>]]
      /\ \A i \in 1..n : solve[i] = Solved(roster, ordered[i], solve[i + 1])
  <2>1. Levels(solve, roster, ordered)
    BY <1>1, SearchLevels
  <2> HIDE DEF solve
  <2> QED  BY <2>1 DEF Levels
<1> HIDE DEF solve
<1>3. 0 \in G
  <2>1. n + 1 - 0 = n + 1 /\ Len(ordered) + 1 - (n + 1) = 0
    BY <1>1
  <2>2. ASSUME NEW used \in SUBSET roster
        PROVE  IsBest(solve[n + 1][used], n + 1, used, roster, ordered)
    <3>1. solve[n + 1][used].score = 0 /\ solve[n + 1][used].picks = <<>>
      BY <1>2
    <3>2. <<>> \in [1..0 -> Pickable] /\ 0 \in Nat
      OBVIOUS
    <3>3. Total(<<>>) = 0
      BY <3>2, SumsAdd
    <3>4. ASSUME NEW t, Fits(t, n + 1, used, roster, ordered) PROVE t = <<>>
      BY <2>1, <3>4 DEF Fits
    <3>5. Fits(<<>>, n + 1, used, roster, ordered)
      BY <2>1 DEF Fits
    <3>6. Cost(0) = 0
      BY LineupAssumption DEF Cost
    <3> HIDE DEF n
    <3> QED  BY <2>1, <3>1, <3>3, <3>4, <3>5, <3>6 DEF IsBest
  <2> QED  BY <2>1, <2>2 DEF AllBest
<1>4. ASSUME NEW m \in 0..(n - 1), m \in G PROVE m + 1 \in G
  <2> DEFINE i == n - m
  <2>1. i \in 1..n /\ n + 1 - m = i + 1 /\ n + 1 - (m + 1) = i /\ m + 1 \in Nat
    BY <1>1
  <2> HIDE DEF i
  <2>2. AllBest(solve[i + 1], i + 1, roster, ordered)
    BY <1>4, <2>1
  <2>3. ASSUME NEW used \in SUBSET roster
        PROVE  IsBest(solve[i][used], i, used, roster, ordered)
    <3>1. solve[i] = Solved(roster, ordered[i], solve[i + 1])
      BY <1>2, <2>1
    <3> QED  BY <2>1, <2>2, <3>1, ChoiceIsBest
  <2> QED  BY <2>1, <2>3 DEF AllBest
<1>5. n \in G
  <2> HIDE DEF G
  <2>1. 0..n \subseteq G
    BY <1>1, <1>3, <1>4, Upwards
  <2> QED  BY <1>1, <2>1
<1>6. AllBest(solve[1], 1, roster, ordered)
  <2>1. n + 1 - n = 1
    BY <1>1
  <2> QED  BY <1>5, <2>1
<1> QED  BY <1>6 DEF AllBest, solve

-----------------------------------------------------------------------------
(* Sorting. *)

Precedes(key, x, y) == key[x] > key[y] \/ (key[x] = key[y] /\ x < y)

InOrder(s, n, key) == \A i, j \in 1..n : i < j => Precedes(key, s[i], s[j])

\* There is an order such as Sorted chooses, and it names every element once.
LEMMA SortedIs ==
  ASSUME NEW S \in SUBSET Nat, IsFiniteSet(S), NEW key, \A x \in S : key[x] \in Int
  PROVE  LET n == Cardinality(S)
             s == Sorted(S, key)
         IN  n \in Nat /\ s \in Bijection(1..n, S) /\ InOrder(s, n, key)
<1> DEFINE n == Cardinality(S)
           pred(x) == {y \in S : Precedes(key, y, x)}
           rank == [x \in S |-> Cardinality(pred(x)) + 1]
<1>1. n \in Nat /\ n = Cardinality(S) /\ IsFiniteSet(1..n) /\ Cardinality(1..n) = n
  BY FS_CardinalityType, FS_Interval
<1> HIDE DEF n
<1>2. \A x, y, z \in S : /\ ~Precedes(key, x, x)
                         /\ x # y => Precedes(key, x, y) \/ Precedes(key, y, x)
                         /\ Precedes(key, x, y) /\ Precedes(key, y, z) => Precedes(key, x, z)
  BY DEF Precedes
<1>3. ASSUME NEW x \in S
      PROVE  IsFiniteSet(pred(x)) /\ Cardinality(pred(x)) \in 0..(n - 1)
  <2>1. pred(x) \subseteq S /\ pred(x) # S
    BY <1>2
  <2> HIDE DEF pred
  <2>2. /\ IsFiniteSet(pred(x)) /\ Cardinality(pred(x)) <= n
        /\ Cardinality(pred(x)) = n => pred(x) = S
    BY <1>1, <2>1, FS_Subset
  <2>3. Cardinality(pred(x)) \in Nat
    BY <2>2, FS_CardinalityType
  <2> QED  BY <1>1, <2>1, <2>2, <2>3
<1>4. ASSUME NEW x \in S, NEW y \in S, Precedes(key, x, y)
      PROVE  rank[x] < rank[y]
  <2>1. pred(x) \subseteq pred(y) /\ pred(x) # pred(y)
    BY <1>2, <1>4
  <2>2. IsFiniteSet(pred(y)) /\ Cardinality(pred(x)) \in Nat /\ Cardinality(pred(y)) \in Nat
    <3> HIDE DEF pred
    <3>1. \A m \in 0..(n - 1) : m \in Nat
      BY <1>1
    <3> QED  BY <1>3, <3>1
  <2> DEFINE a == pred(x)
             b == pred(y)
  <2>3. rank[x] = Cardinality(a) + 1 /\ rank[y] = Cardinality(b) + 1
    OBVIOUS
  <2> HIDE DEF pred, rank, a, b
  <2>4. Cardinality(a) <= Cardinality(b) /\ (Cardinality(b) = Cardinality(a) => b = a)
    BY <2>1, <2>2, FS_Subset DEF a, b
  <2>5. Cardinality(a) < Cardinality(b)
    BY <2>1, <2>2, <2>4 DEF a, b
  <2> QED  BY <2>2, <2>3, <2>5 DEF a, b
<1>5. rank \in [S -> 1..n]
  <2>1. \A m \in 0..(n - 1) : m + 1 \in 1..n
    BY <1>1
  <2> HIDE DEF pred
  <2> QED  BY <1>3, <2>1
<1> HIDE DEF rank
<1>6. rank \in Injection(S, 1..n)
  <2>1. ASSUME NEW x \in S, NEW y \in S, rank[x] = rank[y] PROVE x = y
    BY <1>1, <1>2, <1>4, <1>5, <2>1
  <2> QED  BY <1>5, <2>1 DEF Injection, IsInjective
<1>7. rank \in Surjection(S, 1..n)
  BY <1>1, <1>6, FS_Injection
<1> DEFINE by == [k \in 1..n |-> CHOOSE x \in S : rank[x] = k]
<1>8. by \in [1..n -> S] /\ \A k \in 1..n : rank[by[k]] = k
  BY <1>7 DEF Surjection
<1> HIDE DEF by
<1>9. InOrder(by, n, key)
  <2>1. ASSUME NEW i \in 1..n, NEW j \in 1..n, i < j PROVE Precedes(key, by[i], by[j])
    <3>1. rank[by[i]] < rank[by[j]] /\ by[i] \in S /\ by[j] \in S
      BY <1>8, <2>1
    <3>2. rank[by[i]] \in 1..n /\ rank[by[j]] \in 1..n
      BY <1>5, <3>1
    <3>3. \A a, b \in 1..n : a < b => a # b /\ ~(b < a)
      BY <1>1
    <3>4. by[i] # by[j] /\ ~Precedes(key, by[j], by[i])
      BY <1>4, <3>1, <3>2, <3>3
    <3> QED  BY <1>2, <3>1, <3>4
  <2> QED  BY <2>1 DEF InOrder
<1> DEFINE s == Sorted(S, key)
<1>10. s \in [1..n -> S] /\ InOrder(s, n, key)
  <2>1. \A r \in [1..n -> S] :
          InOrder(r, n, key) <=> \A i, j \in DOMAIN r : i < j =>
              key[r[i]] > key[r[j]] \/ (key[r[i]] = key[r[j]] /\ r[i] < r[j])
    BY DEF InOrder, Precedes
  <2> QED  BY <1>1, <1>8, <1>9, <2>1 DEF Sorted
<1> HIDE DEF s
<1>11. s \in Injection(1..n, S)
  <2>1. ASSUME NEW i \in 1..n, NEW j \in 1..n, i < j PROVE s[i] # s[j]
    BY <1>2, <1>10, <2>1 DEF InOrder
  <2> QED  BY <1>1, <1>10, <2>1 DEF Injection, IsInjective
<1>12. s \in Surjection(1..n, S)
  BY <1>1, <1>11, FS_Injection
<1> QED  BY <1>1, <1>10, <1>11, <1>12 DEF Bijection, s, n

Swapped(s, i, j) == [[s EXCEPT ![i] = s[j]] EXCEPT ![j] = s[i]]

LEMMA TotalOfSwapped ==
  ASSUME FormOK, NEW n \in Nat, NEW s \in [1..n -> Pickable], NEW i \in 1..n, NEW j \in 1..n
  PROVE  Swapped(s, i, j) \in [1..n -> Pickable] /\ Total(Swapped(s, i, j)) = Total(s)
<1> DEFINE c == [s EXCEPT ![i] = s[j]]
           d == [c EXCEPT ![j] = s[i]]
<1>1. s[i] \in Pickable /\ s[j] \in Pickable
  OBVIOUS
<1>2. c \in [1..n -> Pickable] /\ c[j] = s[j] /\ d \in [1..n -> Pickable]
  OBVIOUS
<1>3. Total(c) = Total(s) - WorthOf(s[i]) + WorthOf(s[j])
  BY <1>1, TotalOfOther
<1> HIDE DEF c
<1>4. Total(d) = Total(c) - WorthOf(c[j]) + WorthOf(s[i])
  <2>1. \A p \in Pickable : Total([c EXCEPT ![j] = p]) = Total(c) - WorthOf(c[j]) + WorthOf(p)
    BY <1>2, TotalOfOther
  <2> QED  BY <1>1, <2>1
<1>5. WorthOf(s[i]) \in Int /\ WorthOf(s[j]) \in Int /\ Total(s) \in Int /\ Total(c) \in Int
  BY <1>1, <1>2, PickWorths, SumsAdd
<1> HIDE DEF d
<1>6. Total(d) = Total(s)
  BY <1>2, <1>3, <1>4, <1>5
<1> QED  BY <1>2, <1>6 DEF c, d, Swapped

\* Whatever names the players of s in another order, the last ones but m in the same, is
\* worth as much.
Reordered(t, s, n, pi) == \A k \in 1..n : t[k] = s[pi[k]]
Fixed(pi, m, n)        == \A k \in (m + 1)..n : pi[k] = k
Evens(s, n, m) ==
    \A t \in [1..n -> Pickable], pi \in Bijection(1..n, 1..n) :
        Fixed(pi, m, n) /\ Reordered(t, s, n, pi) => Total(t) = Total(s)

LEMMA TotalOfReordered ==
  ASSUME FormOK, NEW n \in Nat, NEW s \in [1..n -> Pickable], NEW t \in [1..n -> Pickable],
         NEW pi \in Bijection(1..n, 1..n), Reordered(t, s, n, pi)
  PROVE  Total(t) = Total(s)
<1> DEFINE G == {m \in Nat : Evens(s, n, m)}
<1>1. 0 \in G
  <2> SUFFICES ASSUME NEW r \in [1..n -> Pickable], NEW rho \in Bijection(1..n, 1..n),
                      Fixed(rho, 0, n), Reordered(r, s, n, rho)
               PROVE  Total(r) = Total(s)
    BY DEF Evens
  <2>1. r = s
    BY DEF Fixed, Reordered
  <2> QED  BY <2>1
<1>2. ASSUME NEW m \in 0..(n - 1), m \in G PROVE m + 1 \in G
  <2> DEFINE l == m + 1
  <2> SUFFICES ASSUME NEW r \in [1..n -> Pickable], NEW rho \in Bijection(1..n, 1..n),
                      Fixed(rho, l, n), Reordered(r, s, n, rho)
               PROVE  Total(r) = Total(s)
    BY DEF Evens
  <2>1. l \in 1..n /\ l \in Nat /\ m \in Nat /\ Evens(s, n, m)
    BY <1>2
  <2>2. /\ rho \in [1..n -> 1..n] /\ \A x, y \in 1..n : rho[x] = rho[y] => x = y
        /\ \A y \in 1..n : \E x \in 1..n : rho[x] = y
    BY DEF Bijection, Injection, Surjection, IsInjective
  <2>3. PICK i \in 1..n : rho[i] = l
    BY <2>1, <2>2
  <2> DEFINE u == Swapped(r, i, l)
             back == Swapped(rho, i, l)
  <2>4. u \in [1..n -> Pickable] /\ Total(u) = Total(r)
    <3> HIDE DEF l
    <3>1. \A x, y \in 1..n : Swapped(r, x, y) \in [1..n -> Pickable] /\ Total(Swapped(r, x, y)) = Total(r)
      BY TotalOfSwapped
    <3> QED  BY <2>1, <3>1
  <2> HIDE DEF l
  <2>5. /\ u[l] = r[i] /\ (i # l => u[i] = r[l]) /\ \A k \in 1..n : k # i /\ k # l => u[k] = r[k]
        /\ back \in [1..n -> 1..n]
        /\ back[l] = l /\ (i # l => back[i] = rho[l])
        /\ \A k \in 1..n : k # i /\ k # l => back[k] = rho[k]
    <3>1. /\ u[l] = r[i] /\ (i # l => u[i] = r[l])
          /\ \A k \in 1..n : k # i /\ k # l => u[k] = r[k]
      BY <2>1 DEF Swapped
    <3>2. /\ back[l] = rho[i] /\ (i # l => back[i] = rho[l])
          /\ \A k \in 1..n : k # i /\ k # l => back[k] = rho[k]
      BY <2>1, <2>2 DEF Swapped
    <3>3. back \in [1..n -> 1..n]
      BY <2>1, <2>2 DEF Swapped
    <3> QED  BY <2>3, <3>1, <3>2, <3>3
  <2> HIDE DEF u, back
  <2>6. back \in Bijection(1..n, 1..n)
    <3>1. ASSUME NEW x \in 1..n, NEW y \in 1..n, back[x] = back[y] PROVE x = y
      <4> DEFINE from(z) == IF z = l THEN i ELSE IF z = i THEN l ELSE z
      <4>1. \A z \in 1..n : back[z] = rho[from(z)] /\ from(z) \in 1..n
        BY <2>1, <2>3, <2>5
      <4>2. from(x) = from(y) => x = y
        OBVIOUS
      <4> HIDE DEF from
      <4>3. from(x) \in 1..n /\ from(y) \in 1..n /\ rho[from(x)] = rho[from(y)]
        BY <3>1, <4>1
      <4> QED  BY <2>2, <4>2, <4>3
    <3>2. back \in Injection(1..n, 1..n)
      BY <2>5, <3>1 DEF Injection, IsInjective
    <3>3. IsFiniteSet(1..n)
      BY FS_Interval
    <3>4. back \in Surjection(1..n, 1..n)
      BY <3>2, <3>3, FS_Injection
    <3> QED  BY <3>2, <3>4 DEF Bijection
  <2>7. Fixed(back, m, n)
    <3>1. ASSUME NEW k \in (m + 1)..n PROVE back[k] = k
      <4>1. k = l \/ (k \in (l + 1)..n /\ k # l)
        BY <2>1 DEF l
      <4>2. ASSUME k \in (l + 1)..n, k # l PROVE rho[k] = k /\ k # i /\ k \in 1..n
        BY <2>1, <2>3, <4>2 DEF Fixed
      <4> QED  BY <2>5, <4>1, <4>2
    <3> QED  BY <3>1 DEF Fixed
  <2>8. Reordered(u, s, n, back)
    <3>1. ASSUME NEW k \in 1..n PROVE u[k] = s[back[k]]
      <4>1. r[k] = s[rho[k]] /\ r[i] = s[rho[i]] /\ r[l] = s[rho[l]]
        BY <2>1 DEF Reordered
      <4> QED  BY <2>3, <2>5, <4>1
    <3> QED  BY <3>1 DEF Reordered
  <2>9. Total(u) = Total(s)
    BY <2>1, <2>4, <2>6, <2>7, <2>8 DEF Evens
  <2> QED  BY <2>4, <2>9
<1>3. n \in G
  <2> HIDE DEF G
  <2>1. 0..n \subseteq G
    BY <1>1, <1>2, Upwards
  <2> QED  BY <2>1
<1>4. Fixed(pi, n, n)
  BY DEF Fixed
<1> QED  BY <1>3, <1>4 DEF Evens

-----------------------------------------------------------------------------
(* The analyses. *)

LineupTypeOK ==
    /\ FormOK /\ slots \in SlotLists
    /\ current \in [Players -> {Bench, IR} \cup DOMAIN slots]

\* The league's slots in any order are as many.
LEMMA OrderedLength ==
  ASSUME slots \in SlotLists, NEW roster
  PROVE  /\ Len(OrderedSlots(roster)) = Len(slots) /\ Len(slots) \in Nat
         /\ Affordable(OrderedSlots(roster))
<1>1. slots \in Seq(STRING) /\ Len(slots) * EmptyCost < Sentinel
  BY LineupAssumption
<1>2. Len(slots) \in Nat /\ DOMAIN slots = 1..Len(slots)
  BY <1>1
<1> DEFINE ordered == OrderedSlots(roster)
<1>3. DOMAIN ordered = 1..Len(slots) /\ ordered = [k \in DOMAIN ordered |-> ordered[k]]
  BY <1>2 DEF OrderedSlots
<1> HIDE DEF ordered
<1>4. Len(ordered) = Len(slots)
  BY <1>2, <1>3
<1> QED  BY <1>1, <1>2, <1>4 DEF Affordable, Cost, ordered

\* A roster fills the slots legally.
Fills(picks, roster, ordered) ==
    /\ picks \in [1..Len(ordered) -> roster \cup {Nobody}]
    /\ \A k \in 1..Len(ordered) : picks[k] # Nobody => Eligible(picks[k], ordered[k])
    /\ \A k, l \in 1..Len(ordered) : k # l /\ picks[k] = picks[l] => picks[k] = Nobody

LEMMA BestOfRoster ==
  ASSUME LineupTypeOK, NEW roster, roster \subseteq Everyone
  PROVE  LET best == OptimalLineup(roster) IN
         /\ Fills(best, roster, OrderedSlots(roster))
         /\ \A picks : Fills(picks, roster, OrderedSlots(roster)) => Total(picks) <= Total(best)
<1> DEFINE ordered == OrderedSlots(roster)
           best == OptimalLineup(roster)
           answer == Search(roster, ordered)[1][{}]
<1>1. Instance(roster, ordered) /\ Affordable(ordered) /\ Len(ordered) \in Nat
  BY OrderedLength DEF LineupTypeOK, Instance
<1>2. best = answer.picks
  BY DEF OptimalLineup
<1> HIDE DEF ordered, answer
<1>3. IsBest(answer, 1, {}, roster, ordered)
  BY <1>1, SearchIsBest DEF LineupTypeOK, answer
<1>4. ASSUME NEW picks
      PROVE  Fills(picks, roster, ordered) <=> Fits(picks, 1, {}, roster, ordered)
  <2>1. Len(ordered) + 1 - 1 = Len(ordered) /\ \A k \in 1..Len(ordered) : (1 - 1) + k = k
    BY <1>1
  <2> QED  BY <2>1 DEF Fills, Fits
<1> HIDE DEF best
<1> QED  BY <1>2, <1>3, <1>4 DEF IsBest, ordered, best

LEMMA AdvisedIsBest ==
  ASSUME LineupTypeOK
  PROVE  LET best == OptimalLineup(Players) IN
         /\ best \in Assignments(OrderedSlots(Players))
         /\ \A picks \in Assignments(OrderedSlots(Players)) : Total(picks) <= Total(best)
<1>1. ASSUME NEW picks, NEW ordered
      PROVE  picks \in Assignments(ordered) <=> Fills(picks, Players, ordered)
  BY DEF Assignments, Fills
<1> QED  BY <1>1, BestOfRoster, Numbers

LEMMA SlotOrderIs ==
  ASSUME LineupTypeOK, NEW roster, roster \subseteq Everyone
  PROVE  SlotOrder(roster) \in Bijection(1..Len(slots), 1..Len(slots))
<1> DEFINE n == Len(slots)
           key == [i \in DOMAIN slots |-> -Cardinality({p \in roster : Eligible(p, slots[i])})]
<1>1. n \in Nat /\ DOMAIN slots = 1..n
  BY LineupAssumption DEF LineupTypeOK
<1> HIDE DEF n
<1>2. IsFiniteSet(1..n) /\ Cardinality(1..n) = n /\ 1..n \in SUBSET Nat
  BY <1>1, FS_Interval
<1>3. key \in [1..n -> Int]
  <2>1. ASSUME NEW i \in 1..n
        PROVE  Cardinality({p \in roster : Eligible(p, slots[i])}) \in Nat
    <3>1. {p \in roster : Eligible(p, slots[i])} \in SUBSET Everyone
      OBVIOUS
    <3> DEFINE takers == {p \in roster : Eligible(p, slots[i])}
    <3> HIDE DEF takers
    <3>2. IsFiniteSet(takers)
      BY <3>1, Numbers, FS_Subset DEF takers
    <3>3. Cardinality(takers) \in Nat
      BY <3>2, FS_CardinalityType
    <3> QED  BY <3>3 DEF takers
  <2> QED  BY <1>1, <2>1
<1>4. SlotOrder(roster) = Sorted(1..n, key)
  BY <1>1 DEF SlotOrder
<1> HIDE DEF key
<1>5. Sorted(1..n, key) \in Bijection(1..n, 1..n)
  BY <1>2, <1>3, SortedIs
<1> QED  BY <1>4, <1>5 DEF n

\* The searches for two rosters differ in the order of the slots alone.
LEMMA OrdersDiffer ==
  ASSUME LineupTypeOK, NEW one, one \subseteq Everyone, NEW other, other \subseteq Everyone
  PROVE  \E pi \in Bijection(1..Len(slots), 1..Len(slots)) :
            Reordered(OrderedSlots(other), OrderedSlots(one), Len(slots), pi)
<1> DEFINE n == Len(slots)
           s == SlotOrder(one)
           t == SlotOrder(other)
           pi == [k \in 1..n |-> CHOOSE j \in 1..n : s[j] = t[k]]
<1>1. n \in Nat /\ DOMAIN slots = 1..n
  BY LineupAssumption DEF LineupTypeOK
<1>2. s \in Bijection(1..n, 1..n) /\ t \in Bijection(1..n, 1..n)
  BY SlotOrderIs
<1> HIDE DEF s, t, n
<1>3. /\ s \in [1..n -> 1..n] /\ t \in [1..n -> 1..n]
      /\ \A y \in 1..n : \E x \in 1..n : s[x] = y
      /\ \A x, y \in 1..n : t[x] = t[y] => x = y
  BY <1>2 DEF Bijection, Injection, Surjection, IsInjective
<1>4. pi \in [1..n -> 1..n] /\ \A k \in 1..n : s[pi[k]] = t[k]
  BY <1>3
<1> HIDE DEF pi
<1>5. pi \in Injection(1..n, 1..n)
  <2>1. ASSUME NEW x \in 1..n, NEW y \in 1..n, pi[x] = pi[y] PROVE x = y
    <3>1. s[pi[x]] = t[x] /\ s[pi[y]] = t[y]
      BY <1>4
    <3> QED  BY <1>3, <2>1, <3>1
  <2>2. DOMAIN pi = 1..n
    BY <1>4
  <2> QED  BY <1>4, <2>1, <2>2 DEF Injection, IsInjective
<1>6. IsFiniteSet(1..n)
  BY <1>1, FS_Interval
<1>7. pi \in Bijection(1..n, 1..n)
  BY <1>5, <1>6, FS_Injection DEF Bijection
<1>8. ASSUME NEW k \in 1..n PROVE OrderedSlots(other)[k] = OrderedSlots(one)[pi[k]]
  <2>1. OrderedSlots(other)[k] = slots[t[k]] /\ OrderedSlots(one)[pi[k]] = slots[s[pi[k]]]
    BY <1>1, <1>4 DEF OrderedSlots, s, t
  <2> QED  BY <1>4, <2>1
<1> QED  BY <1>7, <1>8 DEF Reordered, n

\* Somebody who may start wherever the other may, and is worth no less, in his place.
LEMMA NoWeaker ==
  ASSUME LineupTypeOK, NEW drop \in Players, NEW add \in FreeAgents,
         Position[add] = Position[drop], EspnSlots[drop] \subseteq EspnSlots[add],
         PlayerValue(add) >= PlayerValue(drop)
  PROVE  LET best(roster) == Total(OptimalLineup(roster)) IN
         best((Players \ {drop}) \cup {add}) >= best(Players)
<1> DEFINE n == Len(slots)
           other == (Players \ {drop}) \cup {add}
           ours == OrderedSlots(Players)
           theirs == OrderedSlots(other)
           b == OptimalLineup(Players)
           c == [k \in 1..n |-> IF b[k] = drop THEN add ELSE b[k]]
<1>1. n \in Nat /\ Len(ours) = n /\ Len(theirs) = n
  BY OrderedLength DEF LineupTypeOK
<1>2. /\ Players \subseteq Everyone /\ other \subseteq Everyone /\ Nobody \notin Everyone
      /\ add \in Everyone /\ drop \in Everyone /\ add \notin Players
  BY Numbers, LineupAssumption DEF Everyone, Players
<1>3. /\ b \in [1..n -> Players \cup {Nobody}]
      /\ \A k \in 1..n : b[k] # Nobody => Eligible(b[k], ours[k])
      /\ \A k, l \in 1..n : k # l /\ b[k] = b[l] => b[k] = Nobody
  <2>1. Fills(b, Players, ours)
    BY <1>2, BestOfRoster
  <2> HIDE DEF n, ours, b
  <2> QED  BY <1>1, <2>1 DEF Fills
<1>4. PICK pi \in Bijection(1..n, 1..n) : Reordered(theirs, ours, n, pi)
  BY <1>2, OrdersDiffer
<1> HIDE DEF n, ours, b
<1>5. \A slot : Eligible(drop, slot) => Eligible(add, slot)
  BY DEF Eligible
<1>6. /\ c \in [1..n -> other \cup {Nobody}]
      /\ \A k \in 1..n : c[k] # Nobody => Eligible(c[k], ours[k])
      /\ \A k, l \in 1..n : k # l /\ c[k] = c[l] => c[k] = Nobody
  <2>1. c \in [1..n -> other \cup {Nobody}]
    BY <1>3
  <2>2. ASSUME NEW k \in 1..n, c[k] # Nobody PROVE Eligible(c[k], ours[k])
    BY <1>2, <1>3, <1>5, <2>2
  <2>3. ASSUME NEW k \in 1..n, NEW l \in 1..n, k # l, c[k] = c[l] PROVE c[k] = Nobody
    <3>1. b[k] # add /\ b[l] # add
      BY <1>2, <1>3
    <3>2. b[k] = b[l]
      BY <2>3, <3>1
    <3>3. b[k] = Nobody /\ drop # Nobody
      BY <1>2, <1>3, <2>3, <3>2
    <3> QED  BY <3>3
  <2> QED  BY <2>1, <2>2, <2>3
<1>7. /\ b \in [1..n -> Pickable] /\ c \in [1..n -> Pickable] /\ other \cup {Nobody} \subseteq Pickable
      /\ drop \in Pickable /\ add \in Pickable
  BY <1>2, <1>3, <1>6 DEF Pickable
<1>8. Total(b) \in Int /\ Total(c) \in Int
  BY <1>1, <1>7, SumsAdd DEF LineupTypeOK
<1>9. Total(c) >= Total(b)
  <2>1. CASE \E j \in 1..n : b[j] = drop
    <3>1. PICK j \in 1..n : b[j] = drop
      BY <2>1
    <3>2. c = [b EXCEPT ![j] = add]
      <4>1. \A k \in 1..n : b[k] = drop => k = j
        BY <1>2, <1>3, <3>1
      <4> QED  BY <1>3, <3>1, <4>1
    <3>3. Total([b EXCEPT ![j] = add]) = Total(b) - WorthOf(b[j]) + WorthOf(add)
      BY <1>1, <1>7, TotalOfOther DEF LineupTypeOK
    <3>4. WorthOf(add) = PlayerValue(add) /\ WorthOf(b[j]) = PlayerValue(drop)
      BY <1>2, <3>1 DEF WorthOf
    <3>5. PlayerValue(add) \in Int /\ PlayerValue(drop) \in Int
      BY <1>2, Values DEF LineupTypeOK
    <3> HIDE DEF c
    <3> QED  BY <1>8, <3>2, <3>3, <3>4, <3>5
  <2>2. CASE ~\E j \in 1..n : b[j] = drop
    <3>1. c = b
      BY <1>3, <2>2
    <3> HIDE DEF c
    <3> QED  BY <1>8, <3>1
  <2> QED  BY <2>1, <2>2
<1> HIDE DEF c
<1> DEFINE t == [k \in 1..n |-> c[pi[k]]]
<1>10. pi \in [1..n -> 1..n] /\ \A x, y \in 1..n : pi[x] = pi[y] => x = y
  BY <1>4 DEF Bijection, Injection, IsInjective
<1>11. t \in [1..n -> other \cup {Nobody}] /\ \A k \in 1..n : t[k] = c[pi[k]]
  BY <1>6, <1>10
<1> HIDE DEF t, other, theirs
<1>12. Fills(t, other, theirs)
  <2>1. ASSUME NEW k \in 1..n, t[k] # Nobody PROVE Eligible(t[k], theirs[k])
    <3>1. pi[k] \in 1..n /\ t[k] = c[pi[k]] /\ theirs[k] = ours[pi[k]]
      BY <1>4, <1>10, <1>11 DEF Reordered
    <3> QED  BY <1>6, <2>1, <3>1
  <2>2. ASSUME NEW k \in 1..n, NEW l \in 1..n, k # l, t[k] = t[l] PROVE t[k] = Nobody
    <3>1. pi[k] \in 1..n /\ pi[l] \in 1..n /\ pi[k] # pi[l]
      BY <1>10, <2>2
    <3>2. t[k] = c[pi[k]] /\ t[l] = c[pi[l]]
      BY <1>11
    <3> QED  BY <1>6, <2>2, <3>1, <3>2
  <2> QED  BY <1>1, <1>11, <2>1, <2>2 DEF Fills
<1>13. Total(t) = Total(c)
  <2>1. t \in [1..n -> Pickable]
    BY <1>7, <1>11
  <2>2. Reordered(t, c, n, pi)
    BY <1>11 DEF Reordered
  <2> QED  BY <1>1, <1>4, <1>7, <2>1, <2>2, TotalOfReordered DEF LineupTypeOK
<1> DEFINE a == OptimalLineup(other)
<1>14. Fills(a, other, theirs) /\ Total(t) <= Total(a)
  BY <1>2, <1>12, BestOfRoster DEF theirs
<1> HIDE DEF a
<1>15. Total(a) \in Int
  <2>1. a \in [1..n -> Pickable]
    BY <1>1, <1>7, <1>14 DEF Fills
  <2> QED  BY <1>1, <2>1, SumsAdd DEF LineupTypeOK
<1>16. Total(a) >= Total(b)
  BY <1>8, <1>9, <1>13, <1>14, <1>15
<1> QED  BY <1>16 DEF a, b, other

\* Who is dropped is on the roster and plays the same position.
LEMMA DropIs ==
  ASSUME LineupTypeOK, NEW f \in FreeAgents, Comparable(f) # {}
  PROVE  Drop(f) \in Players /\ Position[Drop(f)] = Position[f]
<1> DEFINE S == Comparable(f)
           first(p) == \A q \in S \ {p} :
             PlayerValue(p) < PlayerValue(q) \/ (PlayerValue(q) = PlayerValue(p) /\ p < q)
           v == [p \in S |-> -PlayerValue(p)]
<1>1. S \subseteq {p \in Players : Position[p] = Position[f]}
  BY DEF Comparable
<1>2. S \in SUBSET Nat /\ S \subseteq Everyone
  BY <1>1, Numbers
<1>3. IsFiniteSet(S)
  BY <1>2, Numbers, FS_Subset
<1>4. \A p \in S : PlayerValue(p) \in Int
  BY <1>2, Values DEF LineupTypeOK
<1>5. v \in [S -> Int]
  BY <1>4
<1>6. \E p \in S : first(p)
  <2>1. PICK p \in S : \A q \in S \ {p} : v[q] < v[p] \/ (v[q] = v[p] /\ p < q)
    <3> HIDE DEF v, S
    <3> QED  BY <1>2, <1>3, <1>5, FirstOfBest DEF S
  <2> HIDE DEF S
  <2>2. \A x, y \in Int : (-x < -y => y < x) /\ (-x = -y => x = y)
    OBVIOUS
  <2>3. first(p)
    BY <1>4, <2>1, <2>2
  <2> QED  BY <2>3
<1>7. Drop(f) = CHOOSE p \in S : first(p)
  BY DEF Drop
<1>8. Drop(f) \in S
  <2> HIDE DEF first, S
  <2> QED  BY <1>6, <1>7
<1> QED  BY <1>1, <1>8

\* A claim is of somebody worth more, in the place of one of the same position.
LEMMA ClaimIs ==
  ASSUME LineupTypeOK, NEW k \in DOMAIN Claims
  PROVE  LET add == Claims[k][1]
             drop == Claims[k][2]
         IN  /\ add \in FreeAgents /\ drop \in Players /\ Position[add] = Position[drop]
             /\ PlayerValue(add) >= PlayerValue(drop)
<1> DEFINE worthy == {f \in FreeAgents : Comparable(f) # {} /\ Gain(f) > 5}
           gains == [f \in worthy |-> Gain(f)]
           ranked == Sorted(worthy, gains)
           n == Cardinality(worthy)
<1>1. FreeAgents \subseteq Everyone
  BY LineupAssumption DEF Everyone
<1>2. ASSUME NEW f \in worthy
      PROVE  /\ Drop(f) \in Players /\ Position[Drop(f)] = Position[f]
             /\ Gain(f) \in Int /\ PlayerValue(f) >= PlayerValue(Drop(f))
  <2>1. Drop(f) \in Players /\ Position[Drop(f)] = Position[f]
    BY DropIs
  <2> DEFINE x == PlayerValue(Drop(f))
             y == PlayerValue(f)
  <2>2. x \in Int /\ y \in Int
    BY <1>1, <2>1, Numbers, Values DEF LineupTypeOK
  <2>3. Gain(f) = y - Max({0, x}) /\ Gain(f) > 5
    BY DEF Gain
  <2> HIDE DEF x, y
  <2>4. Max({0, x}) = IF x > 0 THEN x ELSE 0
    BY <2>2 DEF Max
  <2>5. Gain(f) \in Int /\ y >= x
    BY <2>2, <2>3, <2>4
  <2> QED  BY <2>1, <2>5 DEF x, y
<1>3. worthy \in SUBSET Everyone
  BY <1>1
<1>4. worthy \in SUBSET Nat /\ IsFiniteSet(worthy)
  BY <1>3, Numbers, FS_Subset
<1>5. gains \in [worthy -> Int]
  BY <1>2
<1> HIDE DEF worthy, gains
<1>6. n \in Nat /\ ranked \in [1..n -> worthy]
  BY <1>4, <1>5, SortedIs DEF Bijection, Injection
<1> HIDE DEF ranked
<1>7. Claims = [j \in 1..Min({ClaimLimit, Len(ranked)}) |-> <<ranked[j], Drop(ranked[j])>>]
  BY DEF Claims, ranked, worthy, gains
<1> HIDE DEF n
<1>8. Len(ranked) = n /\ Min({ClaimLimit, n}) \in Int /\ Min({ClaimLimit, n}) <= n
  <2>1. Len(ranked) = n
    BY <1>6
  <2>2. ClaimLimit \in Nat
    BY LineupAssumption
  <2> QED  BY <1>6, <2>1, <2>2 DEF Min
<1>9. k \in 1..n /\ Claims[k] = <<ranked[k], Drop(ranked[k])>>
  BY <1>6, <1>7, <1>8
<1>10. ranked[k] \in worthy /\ ranked[k] \in FreeAgents
  BY <1>6, <1>9 DEF worthy
<1> QED  BY <1>2, <1>9, <1>10

\* Who has a slot, and the slots in which two lineups differ.
Cast(b, n)      == {b[k] : k \in 1..n} \ {Nobody}
Differ(b, c, n) == {k \in 1..n : b[k] # c[k]}

\* One more of the players of c in the lineup b, for one who is not of c or for nobody.
Exchanged(d, z, b, c, q, roster, ordered) ==
    LET n == Len(ordered) IN
    /\ Fills(d, roster, ordered)
    /\ z = Nobody \/ z \in Cast(b, n) \ Cast(c, n)
    /\ Total(d) = Total(b) - WorthOf(z) + WorthOf(q)
    /\ Cast(d, n) = (Cast(b, n) \cup {q}) \ {z}

Exchanges(m, c, roster, ordered) ==
    LET n == Len(ordered) IN
    \A b, q : /\ Fills(b, roster, ordered) /\ q \in Cast(c, n) \ Cast(b, n)
              /\ Cardinality(Differ(b, c, n)) <= m
              => \E d, z : Exchanged(d, z, b, c, q, roster, ordered)

\* He takes the slot he has in c; whoever had it takes his own of c, and so on, until somebody
\* has none or the slot was empty: every step leaves fewer slots in which the two differ.
LEMMA ExchangesStep ==
  ASSUME FormOK, NEW roster, NEW ordered, Instance(roster, ordered), NEW c,
         Fills(c, roster, ordered), NEW m \in Nat, Exchanges(m, c, roster, ordered)
  PROVE  Exchanges(m + 1, c, roster, ordered)
<1> DEFINE n == Len(ordered)
<1>1. n \in Nat /\ roster \subseteq Everyone /\ Nobody \notin Everyone /\ roster \cup {Nobody} \subseteq Pickable
  BY Numbers DEF Instance, Pickable
<1> SUFFICES ASSUME NEW b, NEW q, Fills(b, roster, ordered), q \in Cast(c, n) \ Cast(b, n),
                    Cardinality(Differ(b, c, n)) <= m + 1
             PROVE  \E d, z : Exchanged(d, z, b, c, q, roster, ordered)
  BY DEF Exchanges
<1> HIDE DEF n
<1>2. /\ b \in [1..n -> roster \cup {Nobody}] /\ c \in [1..n -> roster \cup {Nobody}]
      /\ \A k \in 1..n : (b[k] # Nobody => Eligible(b[k], ordered[k]))
                        /\ (c[k] # Nobody => Eligible(c[k], ordered[k]))
      /\ \A k, l \in 1..n : k # l /\ b[k] = b[l] => b[k] = Nobody
  BY DEF Fills, n
<1>3. PICK s \in 1..n : c[s] = q
  BY DEF Cast
<1>4. q \in roster /\ q # Nobody /\ \A k \in 1..n : b[k] # q
  BY <1>2, <1>3 DEF Cast
<1> DEFINE x == b[s]
           b1 == [b EXCEPT ![s] = q]
<1>5. /\ b1 \in [1..n -> roster \cup {Nobody}] /\ b1[s] = q
      /\ \A k \in 1..n : k # s => b1[k] = b[k]
  BY <1>2, <1>4
<1>6. x \in roster \cup {Nobody} /\ x # q
  BY <1>2, <1>4
<1>7. Total(b1) = Total(b) - WorthOf(x) + WorthOf(q)
  <2>1. b \in [1..n -> Pickable] /\ q \in Pickable
    BY <1>1, <1>2, <1>4
  <2> QED  BY <1>1, <2>1, TotalOfOther
<1>8. /\ Total(b) \in Int /\ WorthOf(x) \in Int /\ WorthOf(q) \in Int
  <2>1. b \in [1..n -> Pickable] /\ q \in Pickable /\ x \in Pickable
    BY <1>1, <1>2, <1>4, <1>6
  <2> HIDE DEF x
  <2> QED  BY <1>1, <2>1, SumsAdd, PickWorths
<1> HIDE DEF b1
<1>9. Fills(b1, roster, ordered)
  <2>1. \A k \in 1..n : b1[k] # Nobody => Eligible(b1[k], ordered[k])
    BY <1>2, <1>3, <1>4, <1>5
  <2>2. \A k, l \in 1..n : k # l /\ b1[k] = b1[l] => b1[k] = Nobody
    BY <1>2, <1>4, <1>5
  <2> QED  BY <1>5, <2>1, <2>2 DEF Fills, n
<1>10. Cast(b1, n) = (Cast(b, n) \cup {q}) \ {x}
  <2>1. \A k \in 1..n : k # s /\ b[k] # Nobody => b[k] # x
    BY <1>2
  <2>2. ASSUME NEW y, y \in Cast(b1, n) PROVE y \in (Cast(b, n) \cup {q}) \ {x}
    <3>1. PICK k \in 1..n : b1[k] = y /\ y # Nobody
      BY <2>2 DEF Cast
    <3> QED  BY <1>5, <1>6, <2>1, <3>1 DEF Cast
  <2>3. ASSUME NEW y, y \in (Cast(b, n) \cup {q}) \ {x} PROVE y \in Cast(b1, n)
    <3>1. CASE y = q
      BY <1>4, <1>5, <3>1 DEF Cast
    <3>2. CASE y # q
      <4>1. PICK k \in 1..n : b[k] = y /\ y # Nobody /\ k # s
        BY <2>3, <3>2 DEF Cast
      <4> QED  BY <1>5, <4>1 DEF Cast
    <3> QED  BY <3>1, <3>2
  <2> QED  BY <2>2, <2>3
<1>11. Cardinality(Differ(b1, c, n)) <= m
  <2>1. Differ(b1, c, n) = Differ(b, c, n) \ {s} /\ s \in Differ(b, c, n)
    BY <1>3, <1>4, <1>5 DEF Differ
  <2>2. IsFiniteSet(Differ(b, c, n))
    <3>1. Differ(b, c, n) \in SUBSET (1..n) /\ IsFiniteSet(1..n)
      BY <1>1, FS_Interval DEF Differ
    <3> QED  BY <3>1, FS_Subset
  <2>3. /\ Cardinality(Differ(b, c, n) \ {s}) = Cardinality(Differ(b, c, n)) - 1
        /\ Cardinality(Differ(b, c, n)) \in Nat
    BY <2>1, <2>2, FS_RemoveElement, FS_CardinalityType
  <2>4. Cardinality(Differ(b, c, n)) <= m + 1
    OBVIOUS
  <2> QED  BY <2>1, <2>3, <2>4
<1> HIDE DEF x
<1>12. CASE x = Nobody \/ x \notin Cast(c, n)
  <2>1. x = Nobody \/ x \in Cast(b, n) \ Cast(c, n)
    BY <1>3, <1>12 DEF Cast, x
  <2>2. Exchanged(b1, x, b, c, q, roster, ordered)
    BY <1>7, <1>9, <1>10, <2>1 DEF Exchanged, n
  <2> QED  BY <2>2
<1>13. CASE x # Nobody /\ x \in Cast(c, n)
  <2>1. x \in Cast(c, n) \ Cast(b1, n) /\ x \in Cast(b, n)
    BY <1>3, <1>10, <1>13 DEF Cast, x
  <2>2. PICK d, z : Exchanged(d, z, b1, c, x, roster, ordered)
    BY <1>9, <1>11, <2>1 DEF Exchanges, n
  <2>3. /\ Fills(d, roster, ordered)
        /\ z = Nobody \/ z \in Cast(b1, n) \ Cast(c, n)
        /\ Total(d) = Total(b1) - WorthOf(z) + WorthOf(x)
        /\ Cast(d, n) = (Cast(b1, n) \cup {x}) \ {z}
    BY <2>2 DEF Exchanged, n
  <2>4. z = Nobody \/ z \in Cast(b, n) \ Cast(c, n)
    BY <1>10, <2>3
  <2>5. Cast(d, n) = (Cast(b, n) \cup {q}) \ {z}
    BY <1>6, <1>10, <2>1, <2>3
  <2>6. z \in Pickable
    BY <1>1, <1>2, <2>4 DEF Cast
  <2>7. Total(d) = Total(b) - WorthOf(z) + WorthOf(q)
    <3>1. WorthOf(z) \in Int
      BY <2>6, PickWorths
    <3> QED  BY <1>7, <1>8, <2>3, <3>1
  <2>8. Exchanged(d, z, b, c, q, roster, ordered)
    BY <2>3, <2>4, <2>5, <2>7 DEF Exchanged, n
  <2> QED  BY <2>8
<1> QED  BY <1>12, <1>13

LEMMA Exchange ==
  ASSUME FormOK, NEW roster, NEW ordered, Instance(roster, ordered),
         NEW c, Fills(c, roster, ordered), NEW b, Fills(b, roster, ordered),
         NEW q, q \in Cast(c, Len(ordered)) \ Cast(b, Len(ordered))
  PROVE  \E d, z : Exchanged(d, z, b, c, q, roster, ordered)
<1> DEFINE n == Len(ordered)
           G == {m \in Nat : Exchanges(m, c, roster, ordered)}
<1>1. n \in Nat
  BY DEF Instance
<1> HIDE DEF n
<1>2. ASSUME NEW a
      PROVE  IsFiniteSet(Differ(a, c, n)) /\ Cardinality(Differ(a, c, n)) \in 0..n
  <2>1. Differ(a, c, n) \in SUBSET (1..n) /\ IsFiniteSet(1..n) /\ Cardinality(1..n) = n
    BY <1>1, FS_Interval DEF Differ
  <2>2. IsFiniteSet(Differ(a, c, n)) /\ Cardinality(Differ(a, c, n)) <= n
    BY <2>1, FS_Subset
  <2>3. Cardinality(Differ(a, c, n)) \in Nat
    BY <2>2, FS_CardinalityType
  <2> QED  BY <1>1, <2>2, <2>3
<1>3. 0 \in G
  <2> SUFFICES ASSUME NEW a, NEW p, p \in Cast(c, n) \ Cast(a, n),
                      Cardinality(Differ(a, c, n)) <= 0
               PROVE  FALSE
    BY DEF Exchanges, n
  <2>1. Cardinality(Differ(a, c, n)) = 0
    BY <1>1, <1>2
  <2>2. Differ(a, c, n) = {}
    BY <1>2, <2>1, FS_EmptySet
  <2> QED  BY <2>2 DEF Differ, Cast
<1>4. \A m \in 0..(n - 1) : m \in G => m + 1 \in G
  BY ExchangesStep
<1>5. n \in G
  <2> HIDE DEF G
  <2>1. 0..n \subseteq G
    BY <1>1, <1>3, <1>4, Upwards
  <2> QED  BY <1>1, <2>1
<1>6. Cardinality(Differ(b, c, n)) <= n
  BY <1>1, <1>2
<1> QED  BY <1>5, <1>6 DEF Exchanges, n

\* Two lineups of the same players are worth the same, whichever slots they have.
Once(b, n)           == b \in [1..n -> Pickable] /\ \A k, l \in 1..n : k # l /\ b[k] = b[l] => b[k] = Nobody
Recast(b, c, n)      == Once(b, n) /\ Cast(b, n) = Cast(c, n)
RecastEvens(m, c, n) ==
    \A b : Recast(b, c, n) /\ Cardinality(Differ(b, c, n)) <= m => Total(b) = Total(c)

LEMMA DifferIsFinite ==
  ASSUME NEW n \in Nat, NEW b, NEW c
  PROVE  IsFiniteSet(Differ(b, c, n)) /\ Cardinality(Differ(b, c, n)) \in 0..n
<1>1. IsFiniteSet(1..n) /\ Cardinality(1..n) = n
  BY FS_Interval
<1>2. Differ(b, c, n) \in SUBSET (1..n)
  BY DEF Differ
<1>3. IsFiniteSet(Differ(b, c, n)) /\ Cardinality(Differ(b, c, n)) <= n
  BY <1>1, <1>2, FS_Subset
<1>4. Cardinality(Differ(b, c, n)) \in Nat
  BY <1>3, FS_CardinalityType
<1> QED  BY <1>3, <1>4

LEMMA RecastStep ==
  ASSUME FormOK, NEW n \in Nat, NEW c, Once(c, n), NEW m \in Nat, RecastEvens(m, c, n)
  PROVE  RecastEvens(m + 1, c, n)
<1> SUFFICES ASSUME NEW b, Recast(b, c, n), Cardinality(Differ(b, c, n)) <= m + 1
             PROVE  Total(b) = Total(c)
  BY DEF RecastEvens
<1>1. /\ b \in [1..n -> Pickable] /\ c \in [1..n -> Pickable] /\ Cast(b, n) = Cast(c, n)
      /\ \A k, l \in 1..n : k # l /\ b[k] = b[l] => b[k] = Nobody
      /\ \A k, l \in 1..n : k # l /\ c[k] = c[l] => c[k] = Nobody
  BY DEF Recast, Once
<1>2. CASE \A k \in 1..n : b[k] = c[k]
  <2>1. b = c
    BY <1>1, <1>2
  <2> QED  BY <2>1
<1>3. CASE \E k \in 1..n : b[k] # c[k]
  <2>1. PICK s \in 1..n : b[s] # c[s] /\ c[s] # Nobody
    <3>1. PICK k \in 1..n : b[k] # c[k]
      BY <1>3
    <3>2. CASE c[k] # Nobody
      BY <3>1, <3>2
    <3>3. CASE c[k] = Nobody
      <4>1. b[k] \in Cast(b, n)
        BY <3>1, <3>3 DEF Cast
      <4>2. b[k] \in Cast(c, n)
        BY <1>1, <4>1
      <4>3. PICK l \in 1..n : c[l] = b[k] /\ b[k] # Nobody
        BY <4>2 DEF Cast
      <4> QED  BY <1>1, <3>1, <3>3, <4>3
    <3> QED  BY <3>2, <3>3
  <2>2. PICK r \in 1..n : b[r] = c[s] /\ r # s
    <3>1. c[s] \in Cast(b, n)
      BY <1>1, <2>1 DEF Cast
    <3> QED  BY <2>1, <3>1 DEF Cast
  <2> DEFINE d == Swapped(b, s, r)
  <2>3. d \in [1..n -> Pickable] /\ Total(d) = Total(b)
    BY <1>1, TotalOfSwapped
  <2>4. d[s] = b[r] /\ d[r] = b[s] /\ \A k \in 1..n : k # s /\ k # r => d[k] = b[k]
    BY <1>1, <2>2 DEF Swapped
  <2> HIDE DEF d
  <2> DEFINE from(k) == IF k = s THEN r ELSE IF k = r THEN s ELSE k
  <2>5. \A k \in 1..n : from(k) \in 1..n /\ d[k] = b[from(k)] /\ from(from(k)) = k
    BY <2>2, <2>4
  <2> HIDE DEF from
  <2>6. Once(d, n)
    <3>1. ASSUME NEW k \in 1..n, NEW l \in 1..n, k # l, d[k] = d[l] PROVE d[k] = Nobody
      <4>1. from(k) # from(l)
        BY <2>5, <3>1
      <4> QED  BY <1>1, <2>5, <3>1, <4>1
    <3> QED  BY <2>3, <3>1 DEF Once
  <2>7. Cast(d, n) = Cast(b, n)
    <3>1. ASSUME NEW p, p \in Cast(d, n) PROVE p \in Cast(b, n)
      BY <2>5, <3>1 DEF Cast
    <3>2. ASSUME NEW p, p \in Cast(b, n) PROVE p \in Cast(d, n)
      <4>1. PICK k \in 1..n : b[k] = p /\ p # Nobody
        BY <3>2 DEF Cast
      <4>2. d[from(k)] = p /\ from(k) \in 1..n
        BY <2>5, <4>1
      <4> QED  BY <4>1, <4>2 DEF Cast
    <3> QED  BY <3>1, <3>2
  <2>8. Cardinality(Differ(d, c, n)) <= m
    <3>1. c[r] # b[r]
      BY <1>1, <2>1, <2>2
    <3>2. Differ(d, c, n) \subseteq Differ(b, c, n) \ {s} /\ s \in Differ(b, c, n)
      BY <2>1, <2>2, <2>4, <3>1 DEF Differ
    <3>3. /\ IsFiniteSet(Differ(b, c, n) \ {s})
          /\ Cardinality(Differ(b, c, n) \ {s}) = Cardinality(Differ(b, c, n)) - 1
      BY <3>2, DifferIsFinite, FS_RemoveElement
    <3>4. Cardinality(Differ(d, c, n)) <= Cardinality(Differ(b, c, n) \ {s})
      BY <3>2, <3>3, FS_Subset
    <3>5. Cardinality(Differ(d, c, n)) \in Nat /\ Cardinality(Differ(b, c, n)) \in Nat
      BY DifferIsFinite
    <3> QED  BY <3>3, <3>4, <3>5
  <2>9. Recast(d, c, n)
    BY <1>1, <2>6, <2>7 DEF Recast
  <2> QED  BY <2>3, <2>8, <2>9 DEF RecastEvens
<1> QED  BY <1>2, <1>3

LEMMA TotalOfRecast ==
  ASSUME FormOK, NEW n \in Nat, NEW c, Once(c, n), NEW b, Recast(b, c, n)
  PROVE  Total(b) = Total(c)
<1> DEFINE G == {m \in Nat : RecastEvens(m, c, n)}
<1>1. 0 \in G
  <2> SUFFICES ASSUME NEW a, Recast(a, c, n), Cardinality(Differ(a, c, n)) <= 0
               PROVE  Total(a) = Total(c)
    BY DEF RecastEvens
  <2>1. Cardinality(Differ(a, c, n)) = 0
    BY DifferIsFinite
  <2>2. Differ(a, c, n) = {}
    BY <2>1, DifferIsFinite, FS_EmptySet
  <2>3. a = c
    BY <2>2 DEF Differ, Recast, Once
  <2> QED  BY <2>3
<1>2. \A m \in 0..(n - 1) : m \in G => m + 1 \in G
  BY RecastStep
<1>3. n \in G
  <2> HIDE DEF G
  <2>1. 0..n \subseteq G
    BY <1>1, <1>2, Upwards
  <2> QED  BY <2>1
<1>4. Cardinality(Differ(b, c, n)) <= n
  BY DifferIsFinite
<1> QED  BY <1>3, <1>4 DEF RecastEvens

\* No best lineup is worth more than one that fields all its players, and more: it can take
\* those in one after the other, where it has an empty slot, and no one makes it better.
AtMost(T, roster, ordered) == \A picks : Fills(picks, roster, ordered) => Total(picks) <= T

Covers(m, c, T, roster, ordered) ==
    LET n == Len(ordered) IN
    \A b : /\ Fills(b, roster, ordered) /\ Total(b) = T /\ Cast(b, n) \subseteq Cast(c, n)
           /\ Cardinality(Cast(c, n) \ Cast(b, n)) <= m
           => Total(c) = T

LEMMA FillsOnce ==
  ASSUME FormOK, NEW roster, NEW ordered, Instance(roster, ordered),
         NEW b, Fills(b, roster, ordered)
  PROVE  /\ Once(b, Len(ordered)) /\ Cast(b, Len(ordered)) \subseteq roster /\ Total(b) \in Int
         /\ Nobody \notin Cast(b, Len(ordered))
<1>1. roster \cup {Nobody} \subseteq Pickable /\ Len(ordered) \in Nat
  BY DEF Instance, Pickable
<1>2. Once(b, Len(ordered)) /\ Cast(b, Len(ordered)) \subseteq roster
  BY <1>1 DEF Fills, Once, Cast
<1>3. Total(b) \in Int
  BY <1>1, <1>2, SumsAdd DEF Once
<1> QED  BY <1>2, <1>3 DEF Cast

LEMMA CoversStep ==
  ASSUME FormOK, NEW roster, NEW ordered, Instance(roster, ordered), NEW T \in Int,
         AtMost(T, roster, ordered), NEW c, Fills(c, roster, ordered), NEW m \in Nat,
         m # 0 => Covers(m - 1, c, T, roster, ordered)
  PROVE  Covers(m, c, T, roster, ordered)
<1> DEFINE n == Len(ordered)
<1> SUFFICES ASSUME NEW b, Fills(b, roster, ordered), Total(b) = T,
                    Cast(b, n) \subseteq Cast(c, n),
                    Cardinality(Cast(c, n) \ Cast(b, n)) <= m
             PROVE  Total(c) = T
  BY DEF Covers
<1>1. /\ n \in Nat /\ Once(b, n) /\ Once(c, n) /\ Cast(c, n) \subseteq Everyone
      /\ Nobody \notin Cast(b, n) /\ Nobody \notin Cast(c, n)
  BY FillsOnce DEF Instance
<1> HIDE DEF n
<1>2. IsFiniteSet(Cast(c, n) \ Cast(b, n)) /\ Cardinality(Cast(c, n) \ Cast(b, n)) \in Nat
  BY <1>1, Numbers, FS_Subset, FS_CardinalityType
<1>3. CASE Cast(c, n) = Cast(b, n)
  BY <1>1, <1>3, TotalOfRecast DEF Recast
<1>4. CASE Cast(c, n) # Cast(b, n)
  <2>1. PICK q : q \in Cast(c, n) \ Cast(b, n)
    BY <1>4
  <2>2. PICK d, z : Exchanged(d, z, b, c, q, roster, ordered)
    BY <2>1, Exchange DEF n
  <2>3. /\ Fills(d, roster, ordered) /\ z = Nobody
        /\ Total(d) = T - WorthOf(z) + WorthOf(q) /\ Cast(d, n) = (Cast(b, n) \cup {q}) \ {z}
    BY <2>2 DEF Exchanged, n
  <2>4. Cast(d, n) = Cast(b, n) \cup {q}
    BY <1>1, <2>1, <2>3
  <2>5. Total(d) = T
    <3>1. WorthOf(q) \in Int /\ WorthOf(q) >= -EmptyCost /\ WorthOf(z) = -EmptyCost
      BY <1>1, <2>1, <2>3, PickWorths DEF WorthOf, Pickable
    <3>2. Total(d) <= T /\ EmptyCost \in Int
      BY <2>3, LineupAssumption DEF AtMost
    <3> QED  BY <2>3, <3>1, <3>2
  <2>6. Cast(c, n) \ Cast(d, n) = (Cast(c, n) \ Cast(b, n)) \ {q}
    BY <2>4
  <2> DEFINE rest == Cast(c, n) \ Cast(b, n)
  <2>7. Cardinality(rest \ {q}) = Cardinality(rest) - 1
    <3>1. IsFiniteSet(rest) /\ q \in rest
      BY <1>2, <2>1
    <3> HIDE DEF rest
    <3> QED  BY <3>1, FS_RemoveElement
  <2>8. Cardinality(rest \ {q}) \in Nat
    BY <1>2, FS_RemoveElement, FS_CardinalityType
  <2>9. m # 0 /\ Cardinality(Cast(c, n) \ Cast(d, n)) <= m - 1
    BY <1>2, <2>6, <2>7, <2>8
  <2>10. Cast(d, n) \subseteq Cast(c, n)
    BY <2>1, <2>4
  <2> QED  BY <2>3, <2>5, <2>9, <2>10 DEF Covers, n
<1> QED  BY <1>3, <1>4

LEMMA CoveredIsBest ==
  ASSUME FormOK, NEW roster, NEW ordered, Instance(roster, ordered),
         NEW b, Fills(b, roster, ordered), AtMost(Total(b), roster, ordered),
         NEW c, Fills(c, roster, ordered),
         Cast(b, Len(ordered)) \subseteq Cast(c, Len(ordered))
  PROVE  Total(c) = Total(b)
<1> DEFINE n == Len(ordered)
           T == Total(b)
           G == {m \in Nat : Covers(m, c, T, roster, ordered)}
           rest == Cast(c, n) \ Cast(b, n)
<1>1. T \in Int /\ Cast(c, n) \subseteq Everyone
  BY FillsOnce DEF Instance
<1> HIDE DEF T
<1>2. Cardinality(rest) \in Nat
  <2>1. IsFiniteSet(rest)
    BY <1>1, Numbers, FS_Subset
  <2> QED  BY <2>1, FS_CardinalityType
<1>3. 0 \in G
  BY <1>1, CoversStep DEF T
<1>4. ASSUME NEW m \in 0..(Cardinality(rest) - 1), m \in G PROVE m + 1 \in G
  <2>1. m + 1 \in Nat /\ m + 1 # 0 /\ Covers((m + 1) - 1, c, T, roster, ordered)
    BY <1>4
  <2>2. Covers(m + 1, c, T, roster, ordered)
    BY <1>1, <2>1, CoversStep DEF T
  <2> QED  BY <2>1, <2>2
<1>5. Cardinality(rest) \in G
  <2> HIDE DEF G, rest
  <2>1. 0..Cardinality(rest) \subseteq G
    BY <1>2, <1>3, <1>4, Upwards
  <2> QED  BY <1>2, <2>1
<1>6. Covers(Cardinality(rest), c, T, roster, ordered)
  BY <1>5
<1>7. Cardinality(rest) <= Cardinality(rest)
  BY <1>2
<1> QED  BY <1>6, <1>7 DEF Covers, T

\* Starters are eligible for the slots they have, and have them alone; no analysis moves them.
SlotsHeld ==
    \A p \in Players : current[p] \in DOMAIN slots =>
        /\ Eligible(p, slots[current[p]])
        /\ \A q \in Players \ {p} : current[q] # current[p]

\* The current starters, slots in the order of the search.
Present == [k \in 1..Len(slots) |-> Fielded[SlotOrder(Players)[k]]]

LEMMA FieldedIs ==
  ASSUME LineupTypeOK, SlotsHeld
  PROVE  /\ Fielded \in [1..Len(slots) -> Players \cup {Nobody}]
         /\ \A k \in 1..Len(slots) : Fielded[k] # Nobody => current[Fielded[k]] = k
         /\ \A p \in Players : current[p] \in 1..Len(slots) => Fielded[current[p]] = p
<1> DEFINE n == Len(slots)
<1>1. n \in Nat /\ DOMAIN slots = 1..n
  BY LineupAssumption DEF LineupTypeOK
<1> HIDE DEF n
<1>2. ASSUME NEW k \in 1..n
      PROVE  /\ Fielded[k] \in Players \cup {Nobody}
             /\ Fielded[k] # Nobody => current[Fielded[k]] = k
             /\ \A p \in Players : current[p] = k => Fielded[k] = p
  <2>1. \A p, q \in Players : current[p] = k /\ current[q] = k => p = q
    BY <1>1 DEF SlotsHeld
  <2>2. CASE \E p \in Players : current[p] = k
    <3>1. Fielded[k] = CHOOSE p \in Players : current[p] = k
      BY <1>1, <2>2 DEF Fielded
    <3>2. Fielded[k] \in Players /\ current[Fielded[k]] = k
      BY <2>2, <3>1
    <3> QED  BY <2>1, <3>2
  <2>3. CASE ~\E p \in Players : current[p] = k
    <3>1. Fielded[k] = Nobody
      BY <1>1, <2>3 DEF Fielded
    <3> QED  BY <2>3, <3>1
  <2> QED  BY <2>2, <2>3
<1>3. Fielded = [k \in 1..n |-> Fielded[k]]
  BY <1>1 DEF Fielded
<1>4. Fielded \in [1..n -> Players \cup {Nobody}]
  BY <1>2, <1>3
<1> QED  BY <1>2, <1>4 DEF n

LEMMA PresentIs ==
  ASSUME LineupTypeOK, SlotsHeld
  PROVE  /\ Fills(Present, Players, OrderedSlots(Players))
         /\ Cast(Present, Len(slots)) = CurrentStarters
         /\ Total(Present) = Total(Fielded)
<1> DEFINE n == Len(slots)
           order == SlotOrder(Players)
           ordered == OrderedSlots(Players)
<1>1. /\ n \in Nat /\ DOMAIN slots = 1..n /\ Len(ordered) = n
      /\ current \in [Players -> {Bench, IR} \cup 1..n] /\ Bench \notin 1..n /\ IR \notin 1..n
  BY LineupAssumption, OrderedLength DEF LineupTypeOK, Bench, IR
<1>2. /\ order \in Bijection(1..n, 1..n) /\ order \in [1..n -> 1..n]
      /\ \A k, l \in 1..n : order[k] = order[l] => k = l
      /\ \A i \in 1..n : \E k \in 1..n : order[k] = i
  <2>1. order \in Bijection(1..n, 1..n)
    BY SlotOrderIs, Numbers
  <2> HIDE DEF n, order
  <2> QED  BY <2>1 DEF Bijection, Injection, Surjection, IsInjective
<1>3. \A k \in 1..n : ordered[k] = slots[order[k]] /\ Present[k] = Fielded[order[k]]
  BY <1>1 DEF OrderedSlots, Present
<1>4. /\ Fielded \in [1..n -> Players \cup {Nobody}]
      /\ \A k \in 1..n : Fielded[k] # Nobody => current[Fielded[k]] = k
      /\ \A p \in Players : current[p] \in 1..n => Fielded[current[p]] = p
  BY FieldedIs
<1>5. Present \in [1..n -> Players \cup {Nobody}]
  BY <1>2, <1>4 DEF Present
<1> HIDE DEF n, order, ordered
<1>6. \A k \in 1..n : Present[k] # Nobody => Present[k] \in Players /\ current[Present[k]] = order[k]
  BY <1>2, <1>3, <1>4
<1>7. Fills(Present, Players, ordered)
  <2>1. ASSUME NEW k \in 1..n, Present[k] # Nobody PROVE Eligible(Present[k], ordered[k])
    <3>1. Present[k] \in Players /\ current[Present[k]] = order[k] /\ order[k] \in DOMAIN slots
      BY <1>1, <1>2, <1>6, <2>1
    <3>2. Eligible(Present[k], slots[order[k]])
      BY <3>1 DEF SlotsHeld
    <3> QED  BY <1>3, <3>2
  <2>2. ASSUME NEW k \in 1..n, NEW l \in 1..n, Present[k] = Present[l], Present[k] # Nobody
        PROVE  k = l
    <3>1. order[k] = order[l]
      BY <1>6, <2>2
    <3> QED  BY <1>2, <3>1
  <2> QED  BY <1>1, <1>5, <2>1, <2>2 DEF Fills
<1>8. Cast(Present, n) = CurrentStarters
  <2>1. ASSUME NEW p, p \in Cast(Present, n) PROVE p \in CurrentStarters
    <3>1. PICK k \in 1..n : Present[k] = p /\ p # Nobody
      BY <2>1 DEF Cast
    <3>2. p \in Players /\ current[p] \in 1..n
      BY <1>2, <1>6, <3>1
    <3> QED  BY <1>1, <3>2 DEF CurrentStarters
  <2>2. ASSUME NEW p, p \in CurrentStarters PROVE p \in Cast(Present, n)
    <3>1. p \in Players /\ current[p] \in 1..n /\ p # Nobody
      BY <1>1, <2>2, Numbers DEF CurrentStarters
    <3>2. PICK k \in 1..n : order[k] = current[p]
      BY <1>2, <3>1
    <3>3. Present[k] = p
      BY <1>3, <1>4, <3>1, <3>2
    <3> QED  BY <3>1, <3>3 DEF Cast
  <2> QED  BY <2>1, <2>2
<1>9. Total(Present) = Total(Fielded)
  <2>1. Players \cup {Nobody} \subseteq Pickable
    BY Numbers DEF Pickable
  <2>2. Fielded \in [1..n -> Pickable] /\ Present \in [1..n -> Pickable]
    BY <1>4, <1>5, <2>1
  <2>3. Reordered(Present, Fielded, n, order)
    BY <1>3 DEF Reordered
  <2> QED  BY <1>1, <1>2, <2>2, <2>3, TotalOfReordered DEF LineupTypeOK
<1> QED  BY <1>7, <1>8, <1>9 DEF n, ordered

\* The swaps pair the best who come in with the worst who go out.
LEMMA SwapsAre ==
  ASSUME LineupTypeOK, NEW best, best \subseteq Players
  PROVE  LET In   == best \ CurrentStarters
             Out  == CurrentStarters \ best
             s    == Swaps(best)
             both == DOMAIN s IN
         /\ \A k \in both : s[k][1] \in In /\ s[k][2] \in Out
         /\ s # <<>> => \A z \in In : PlayerValue(z) <= PlayerValue(s[1][1])
         /\ s = <<>> => In = {} \/ Out = {}
         /\ s # <<>> => 1 \in both
         /\ Cardinality(In) = Cardinality(Out) =>
               {s[k][1] : k \in both} = In /\ {s[k][2] : k \in both} = Out
<1> DEFINE In  == best \ CurrentStarters
           Out == CurrentStarters \ best
           value   == [p \in Players |-> PlayerValue(p)]
           badness == [p \in Players |-> -PlayerValue(p)]
           a == Sorted(In, value)
           b == Sorted(Out, badness)
           x == Cardinality(In)
           y == Cardinality(Out)
           s == Swaps(best)
<1>1. In \subseteq Players /\ Out \subseteq Players
  BY DEF CurrentStarters
<1>2. \A p \in Players : PlayerValue(p) \in Int /\ value[p] = PlayerValue(p) /\ badness[p] \in Int
  BY Values, Numbers DEF LineupTypeOK
<1>3. s = [k \in DOMAIN a \cap DOMAIN b |-> <<a[k], b[k]>>]
  BY DEF Swaps
<1> HIDE DEF In, Out, s, value, badness
<1>4. IsFiniteSet(In) /\ IsFiniteSet(Out) /\ In \in SUBSET Nat /\ Out \in SUBSET Nat
  BY <1>1, Numbers, FS_Subset
<1>5. x \in Nat /\ a \in Bijection(1..x, In) /\ InOrder(a, x, value)
  <2>1. \A p \in In : value[p] \in Int
    BY <1>1, <1>2
  <2> QED  BY <1>4, <2>1, SortedIs
<1>6. y \in Nat /\ b \in Bijection(1..y, Out)
  <2>1. \A p \in Out : badness[p] \in Int
    BY <1>1, <1>2
  <2> QED  BY <1>4, <2>1, SortedIs
<1> HIDE DEF a, b, x, y
<1>7. /\ a \in [1..x -> In] /\ b \in [1..y -> Out]
      /\ \A p \in In : \E k \in 1..x : a[k] = p
      /\ \A p \in Out : \E k \in 1..y : b[k] = p
  BY <1>5, <1>6 DEF Bijection, Surjection
<1>8. DOMAIN s = (1..x) \cap (1..y) /\ \A k \in DOMAIN s : s[k][1] = a[k] /\ s[k][2] = b[k]
  BY <1>3, <1>7
<1>9. s = <<>> \/ (1 \in DOMAIN s /\ 1 \in 1..x)
  <2>1. CASE x = 0 \/ y = 0
    <3>1. (1..x) \cap (1..y) = {}
      BY <1>5, <1>6, <2>1
    <3>2. s = [k \in {} |-> <<a[k], b[k]>>]
      BY <1>3, <1>7, <3>1
    <3>3. s = <<>>
      BY <3>2
    <3> QED  BY <3>3
  <2>2. CASE x # 0 /\ y # 0
    BY <1>5, <1>6, <1>8, <2>2
  <2> QED  BY <2>1, <2>2
<1>10. s = <<>> => In = {} \/ Out = {}
  <2>1. ASSUME s = <<>>, NEW p \in In, NEW q \in Out PROVE FALSE
    <3>1. 1 \in 1..x /\ 1 \in 1..y
      BY <1>5, <1>6, <1>7
    <3>2. 1 \in DOMAIN s
      BY <1>8, <3>1
    <3>3. DOMAIN s = {}
      BY <2>1
    <3> QED  BY <3>2, <3>3
  <2> QED  BY <2>1
<1>11. ASSUME s # <<>>, NEW z \in In PROVE PlayerValue(z) <= PlayerValue(s[1][1])
  <2>1. 1 \in DOMAIN s /\ 1 \in 1..x /\ s[1][1] = a[1]
    BY <1>8, <1>9, <1>11
  <2>2. PICK k \in 1..x : a[k] = z
    BY <1>7
  <2>3. CASE k = 1
    BY <1>1, <1>2, <2>1, <2>2, <2>3
  <2>4. CASE k # 1
    <3>1. Precedes(value, a[1], a[k])
      BY <1>5, <2>1, <2>4 DEF InOrder
    <3>2. a[1] \in Players /\ a[k] \in Players
      BY <1>1, <1>7, <2>1
    <3> QED  BY <1>2, <2>1, <2>2, <3>1, <3>2 DEF Precedes
  <2> QED  BY <2>3, <2>4
<1>12. ASSUME x = y
       PROVE  {s[k][1] : k \in DOMAIN s} = In /\ {s[k][2] : k \in DOMAIN s} = Out
  <2>1. DOMAIN s = 1..x
    BY <1>8, <1>12
  <2>2. {s[k][1] : k \in DOMAIN s} = {a[k] : k \in 1..x}
    BY <1>8, <2>1
  <2>3. {s[k][2] : k \in DOMAIN s} = {b[k] : k \in 1..x}
    BY <1>8, <2>1
  <2>4. {a[k] : k \in 1..x} = In
    BY <1>7
  <2>5. {b[k] : k \in 1..x} = Out
    BY <1>7, <1>12
  <2> QED  BY <2>2, <2>3, <2>4, <2>5
<1>13. \A k \in DOMAIN s : s[k][1] \in In /\ s[k][2] \in Out
  BY <1>7, <1>8
<1> QED  BY <1>9, <1>10, <1>11, <1>12, <1>13 DEF In, Out, x, y, s

\* Of a best lineup and the current one: who comes in first is worth no less than anybody
\* who goes out, as the best would otherwise take him in and let another one go.
LEMMA NobodyOutIsWorthMore ==
  ASSUME FormOK, NEW roster, NEW ordered, Instance(roster, ordered),
         NEW b, Fills(b, roster, ordered), AtMost(Total(b), roster, ordered),
         NEW c, Fills(c, roster, ordered),
         NEW q, q \in Cast(c, Len(ordered)) \ Cast(b, Len(ordered)),
         NEW v \in Int, v >= -EmptyCost,
         \A z \in Cast(b, Len(ordered)) \ Cast(c, Len(ordered)) : PlayerValue(z) <= v
  PROVE  PlayerValue(q) <= v
<1> DEFINE n == Len(ordered)
<1>1. PICK d, z : Exchanged(d, z, b, c, q, roster, ordered)
  BY Exchange
<1>2. /\ Fills(d, roster, ordered)
      /\ z = Nobody \/ z \in Cast(b, n) \ Cast(c, n)
      /\ Total(d) = Total(b) - WorthOf(z) + WorthOf(q)
  BY <1>1 DEF Exchanged
<1>3. /\ Cast(b, n) \subseteq Everyone /\ q \in Everyone /\ q # Nobody
      /\ Nobody \notin Cast(b, n) /\ Total(b) \in Int
  BY FillsOnce DEF Instance
<1> HIDE DEF n
<1>4. WorthOf(z) \in Int /\ WorthOf(z) <= v
  <2>1. CASE z = Nobody
    BY <2>1, LineupAssumption DEF WorthOf
  <2>2. CASE z # Nobody
    <3>1. z \in Everyone /\ WorthOf(z) = PlayerValue(z) /\ PlayerValue(z) <= v
      BY <1>2, <1>3, <2>2 DEF WorthOf, n
    <3> QED  BY <3>1, Values
  <2> QED  BY <2>1, <2>2
<1>5. WorthOf(q) = PlayerValue(q) /\ PlayerValue(q) \in Int
  BY <1>3, Values DEF WorthOf
<1>6. Total(d) <= Total(b)
  BY <1>2 DEF AtMost
<1> QED  BY <1>2, <1>3, <1>4, <1>5, <1>6

\* What AdviceLeadsToBest says of the swaps s from the starters now to the lineup b.
Advice(b, s) ==
    LET best  == {b[k] : k \in DOMAIN b} \ {Nobody}
        start == {s[k][1] : k \in DOMAIN s}
        sit   == {s[k][2] : k \in DOMAIN s} IN
    /\ s # <<>> => PlayerValue(s[1][1]) >= PlayerValue(s[1][2])
    /\ Cardinality(best) = Cardinality(CurrentStarters) => (CurrentStarters \ sit) \cup start = best
    /\ s = <<>> => \/ Total(Fielded) = Total(b)
                   \/ Cardinality(CurrentStarters) < Cardinality(best)

LEMMA AdviceIs ==
  ASSUME LineupTypeOK, SlotsHeld
  PROVE  LET b == OptimalLineup(Players)
         IN  Advice(b, Swaps({b[k] : k \in DOMAIN b} \ {Nobody}))
<1> DEFINE b == OptimalLineup(Players)
           ordered == OrderedSlots(Players)
           n == Len(slots)
           best == {b[k] : k \in DOMAIN b} \ {Nobody}
           now == CurrentStarters
           In  == best \ now
           Out == now \ best
           s == Swaps(best)
<1>1. Fills(b, Players, ordered) /\ AtMost(Total(b), Players, ordered)
  BY BestOfRoster, Numbers DEF AtMost
<1>2. FormOK /\ Instance(Players, ordered) /\ Len(ordered) = n /\ Players \subseteq Everyone
  BY OrderedLength, Numbers DEF LineupTypeOK, Instance
<1>3. /\ Fills(Present, Players, ordered) /\ Cast(Present, n) = now
      /\ Total(Present) = Total(Fielded)
  BY PresentIs
<1> HIDE DEF ordered, n, b
<1>4. DOMAIN b = 1..n
  BY <1>1, <1>2 DEF Fills
<1>5. best = Cast(b, n)
  BY <1>4 DEF Cast
<1>6. best \subseteq Players /\ now \subseteq Players
  BY <1>1, <1>2, <1>5, FillsOnce DEF CurrentStarters
<1> HIDE DEF best, now
<1>7. IsFiniteSet(best) /\ IsFiniteSet(now) /\ Cardinality(best) \in Nat /\ Cardinality(now) \in Nat
  BY <1>2, <1>6, Numbers, FS_Subset, FS_CardinalityType
<1>8. /\ \A k \in DOMAIN s : s[k][1] \in In /\ s[k][2] \in Out
      /\ s # <<>> => \A z \in In : PlayerValue(z) <= PlayerValue(s[1][1])
      /\ s = <<>> => In = {} \/ Out = {}
      /\ s # <<>> => 1 \in DOMAIN s
      /\ Cardinality(In) = Cardinality(Out) =>
             {s[k][1] : k \in DOMAIN s} = In /\ {s[k][2] : k \in DOMAIN s} = Out
  BY <1>6, SwapsAre DEF now
<1> HIDE DEF s
<1>9. ASSUME s # <<>> PROVE PlayerValue(s[1][1]) >= PlayerValue(s[1][2])
  <2> DEFINE v == PlayerValue(s[1][1])
             q == s[1][2]
  <2>1. s[1][1] \in Players /\ q \in now \ best /\ \A z \in best \ now : PlayerValue(z) <= v
    BY <1>6, <1>8, <1>9
  <2>2. v \in Int /\ v >= -EmptyCost /\ PlayerValue(q) \in Int
    BY <1>2, <1>6, <2>1, Values
  <2> HIDE DEF v, q
  <2>3. PlayerValue(q) <= v
    BY <1>1, <1>2, <1>3, <1>5, <2>1, <2>2, NobodyOutIsWorthMore
  <2> QED  BY <2>2, <2>3 DEF v, q
<1>10. ASSUME Cardinality(best) = Cardinality(now)
       PROVE  (now \ {s[k][2] : k \in DOMAIN s}) \cup {s[k][1] : k \in DOMAIN s} = best
  <2>1. Cardinality(In) = Cardinality(best) - Cardinality(best \cap now)
    BY <1>7, FS_Difference
  <2>2. Cardinality(Out) = Cardinality(now) - Cardinality(now \cap best)
    BY <1>7, FS_Difference
  <2>3. best \cap now = now \cap best
    OBVIOUS
  <2>4. Cardinality(In) = Cardinality(Out)
    BY <1>10, <2>1, <2>2, <2>3
  <2>5. {s[k][1] : k \in DOMAIN s} = In /\ {s[k][2] : k \in DOMAIN s} = Out
    BY <1>8, <2>4
  <2>6. (now \ Out) \cup In = best
    OBVIOUS
  <2> QED  BY <2>5, <2>6
<1>11. ASSUME s = <<>> PROVE Total(Fielded) = Total(b) \/ Cardinality(now) < Cardinality(best)
  <2>1. CASE In = {}
    <3>1. best \subseteq now
      BY <2>1
    <3>2. Total(Present) = Total(b)
      BY <1>1, <1>2, <1>3, <1>5, <3>1, CoveredIsBest
    <3> QED  BY <1>3, <3>2
  <2>2. CASE In # {} /\ Out = {}
    <3>1. now \subseteq best /\ now # best
      BY <2>2
    <3>2. Cardinality(now) < Cardinality(best)
      BY <1>7, <3>1, FS_Subset
    <3> QED  BY <3>2
  <2> QED  BY <1>8, <1>11, <2>1, <2>2
<1> QED  BY <1>9, <1>10, <1>11 DEF Advice, best, now, s, b

LineupInv ==
    LineupTypeOK /\ SlotsHeld /\ LineupIsBest /\ AdviceLeadsToBest /\ ClaimsNeverWeaken /\ AlertsImprove

\* Who is first of the most valued on the bench, if there is anybody.
LEMMA ReplacementIsBest ==
  ASSUME LineupTypeOK, NEW p \in Players
  PROVE  LET able == {q \in FitBench : Eligible(q, slots[current[p]])} IN
         /\ able = {} => Replacement(p) = Nobody
         /\ able # {} => /\ Replacement(p) \in able
                         /\ \A q \in able : PlayerValue(q) <= PlayerValue(Replacement(p))
<1> DEFINE able == {q \in FitBench : Eligible(q, slots[current[p]])}
           first(q) == \A r \in able \ {q} :
              PlayerValue(r) < PlayerValue(q) \/ (PlayerValue(r) = PlayerValue(q) /\ q < r)
           v == [q \in able |-> PlayerValue(q)]
<1>1. Replacement(p) = IF able = {} THEN Nobody ELSE CHOOSE q \in able : first(q)
  BY DEF Replacement
<1>2. able \subseteq Everyone /\ able \in SUBSET Nat
  BY Numbers DEF FitBench
<1>3. IsFiniteSet(able)
  BY <1>2, Numbers, FS_Subset
<1>4. v \in [able -> Int] /\ \A q \in able : PlayerValue(q) \in Int
  BY <1>2, Values DEF LineupTypeOK
<1> SUFFICES ASSUME able # {}
             PROVE  Replacement(p) \in able
                    /\ \A q \in able : PlayerValue(q) <= PlayerValue(Replacement(p))
  BY <1>1
<1>5. \E q \in able : first(q)
  <2>1. \E q \in able : \A r \in able \ {q} : v[r] < v[q] \/ (v[r] = v[q] /\ q < r)
    <3> HIDE DEF v, able
    <3> QED  BY <1>2, <1>3, <1>4, FirstOfBest
  <2> QED  BY <2>1
<1>6. Replacement(p) \in able /\ first(Replacement(p))
  <2> HIDE DEF first, able
  <2> QED  BY <1>1, <1>5
<1> QED  BY <1>4, <1>6

LEMMA AlertedIsBest ==
  ASSUME LineupTypeOK, NEW p \in CurrentStarters, IndependentlyOut(p)
  PROVE  LET in == Replacement(p)
             bench == {q \in Players : current[q] = Bench /\ Eligible(q, slots[current[p]])} IN
         IF in = Nobody THEN \A q \in bench : PlayerValue(q) = -EmptyCost
         ELSE in \in bench /\ PlayerValue(in) > PlayerValue(p)
              /\ \A q \in bench : PlayerValue(q) <= PlayerValue(in)
<1> DEFINE in == Replacement(p)
           bench == {q \in Players : current[q] = Bench /\ Eligible(q, slots[current[p]])}
           able == {q \in FitBench : Eligible(q, slots[current[p]])}
<1>1. p \in Players
  BY DEF CurrentStarters
<1>2. /\ able = {} => in = Nobody
      /\ able # {} => in \in able /\ \A q \in able : PlayerValue(q) <= PlayerValue(in)
  BY <1>1, ReplacementIsBest
<1>3. able = {q \in bench : form[q][2] \notin Inactive}
  BY DEF FitBench
<1>4. ASSUME NEW q \in Players
      PROVE  /\ PlayerValue(q) \in Int /\ PlayerValue(q) >= -EmptyCost
             /\ PlayerValue(q) = -EmptyCost <=> form[q][2] \in Inactive
  <2>1. q \in Everyone /\ FormOf(q) = form[q]
    BY Numbers DEF Players, FormOf
  <2> QED  BY <2>1, Values DEF LineupTypeOK
<1>5. PlayerValue(p) = -EmptyCost
  BY <1>1, <1>4 DEF IndependentlyOut, Inactive
<1>6. bench \subseteq Players /\ Nobody \notin bench /\ EmptyCost \in Nat
  BY Numbers, LineupAssumption
<1> HIDE DEF bench, able, in
<1>7. CASE able = {}
  BY <1>2, <1>3, <1>4, <1>6, <1>7 DEF in, bench
<1>8. CASE able # {}
  <2>1. in \in bench /\ in # Nobody /\ form[in][2] \notin Inactive
    BY <1>2, <1>3, <1>6, <1>8
  <2>2. PlayerValue(in) \in Int /\ PlayerValue(in) > -EmptyCost
    BY <1>4, <1>6, <2>1
  <2>3. ASSUME NEW q \in bench PROVE PlayerValue(q) <= PlayerValue(in)
    <3>1. CASE q \in able
      BY <1>2, <1>8, <3>1
    <3>2. CASE q \notin able
      <4>1. PlayerValue(q) = -EmptyCost
        BY <1>3, <1>4, <1>6, <3>2
      <4> QED  BY <1>6, <2>2, <4>1
    <3> QED  BY <3>1, <3>2
  <2> QED  BY <1>5, <2>1, <2>2, <2>3 DEF in, bench
<1> QED  BY <1>7, <1>8

LEMMA LineupInvInit == LineupInit => LineupInv
BY DEF LineupInit, LineupInv, LineupTypeOK, SlotsHeld, FormOK, LineupIsBest, AdviceLeadsToBest,
       ClaimsNeverWeaken, AlertsImprove

\* Nothing the operators depend on is changed by an analysis.
LEMMA NothingMoves ==
  ASSUME form' = form, slots' = slots, current' = current
  PROVE  /\ \A roster : OptimalLineup(roster)' = OptimalLineup(roster)
         /\ Assignments(OrderedSlots(Players))' = Assignments(OrderedSlots(Players))
         /\ \A picks : Total(picks)' = Total(picks)
         /\ \A p : PlayerValue(p)' = PlayerValue(p)
         /\ Total(Fielded)' = Total(Fielded) /\ CurrentStarters' = CurrentStarters
<1>1. \A p : PlayerValue(p)' = PlayerValue(p)
  BY DEF PlayerValue, FormOf
<1>2. \A picks : Total(picks)' = Total(picks)
  BY <1>1 DEF Total, Sums, WorthOf
<1>3. \A roster : OrderedSlots(roster)' = OrderedSlots(roster)
  BY DEF OrderedSlots, SlotOrder, Eligible
<1>4. Assignments(OrderedSlots(Players))' = Assignments(OrderedSlots(Players))
  BY <1>3 DEF Assignments, Eligible
<1>5. \A roster, ordered : Search(roster, ordered)' = Search(roster, ordered)
  BY DEF Search, Solved, Choice, Worth, PlayerValue, FormOf, Eligible
<1>6. \A roster : OptimalLineup(roster)' = OptimalLineup(roster)
  BY <1>3, <1>5 DEF OptimalLineup
<1>7. Fielded' = Fielded /\ CurrentStarters' = CurrentStarters
  BY DEF Fielded, CurrentStarters
<1>8. Total(Fielded)' = Total(Fielded)
  BY <1>1, <1>7 DEF Total, Sums, WorthOf
<1> QED  BY <1>1, <1>2, <1>4, <1>6, <1>7, <1>8

LEMMA LineupInvStep == LineupInv /\ [LineupNext]_lineupVars => LineupInv'
<1> SUFFICES ASSUME LineupInv, [LineupNext]_lineupVars PROVE LineupInv'
  OBVIOUS
<1>1. LineupTypeOK' /\ SlotsHeld' /\ form' = form /\ slots' = slots /\ current' = current
  BY DEF LineupInv, LineupTypeOK, SlotsHeld, FormOK, Eligible, LineupNext, AnalyzeLineup, AnalyzeWaivers,
         AnalyzeAvailability, lineupVars
<1>2. LineupIsBest'
  <2>1. CASE AnalyzeLineup
    <3>1. lineup' = OptimalLineup(Players)
      BY <2>1 DEF AnalyzeLineup
    <3> QED  BY <1>1, <3>1, AdvisedIsBest, NothingMoves DEF LineupInv, LineupIsBest
  <2>2. CASE UNCHANGED <<lineup, advised>>
    BY <1>1, <2>2, NothingMoves DEF LineupInv, LineupIsBest
  <2> QED  BY <2>1, <2>2 DEF LineupNext, AnalyzeWaivers, AnalyzeAvailability, lineupVars
<1>3. ClaimsNeverWeaken'
  <2>1. CASE AnalyzeWaivers
    <3>1. claims' = Claims
      BY <2>1 DEF AnalyzeWaivers
    <3>2. ASSUME NEW k \in DOMAIN Claims,
                 EspnSlots[Claims[k][2]] \subseteq EspnSlots[Claims[k][1]]
          PROVE  Total(OptimalLineup((Players \ {Claims[k][2]}) \cup {Claims[k][1]}))
                 >= Total(OptimalLineup(Players))
      BY <3>2, ClaimIs, NoWeaker DEF LineupInv
    <3> QED  BY <1>1, <3>1, <3>2, NothingMoves DEF ClaimsNeverWeaken
  <2>2. CASE UNCHANGED <<claims, waived>>
    BY <1>1, <2>2, NothingMoves DEF LineupInv, ClaimsNeverWeaken
  <2> QED  BY <2>1, <2>2 DEF LineupNext, AnalyzeLineup, AnalyzeAvailability, lineupVars
<1>4. AlertsImprove'
  <2>1. CASE AnalyzeAvailability
    <3>1. alerts' = AvailabilityAlerts
      BY <2>1 DEF AnalyzeAvailability
    <3> QED  BY <1>1, <3>1, AlertedIsBest, NothingMoves
             DEF LineupInv, AlertsImprove, AvailabilityAlerts, Eligible
  <2>2. CASE UNCHANGED alerts
    BY <1>1, <2>2, NothingMoves DEF LineupInv, AlertsImprove, Eligible
  <2> QED  BY <2>1, <2>2 DEF LineupNext, AnalyzeWaivers, AnalyzeLineup, lineupVars
<1>5. AdviceLeadsToBest'
  <2>1. CASE AnalyzeLineup
    <3>1. lineup' = OptimalLineup(Players) /\ swaps' = Swaps({lineup'[k] : k \in DOMAIN lineup'} \ {Nobody})
      BY <2>1 DEF AnalyzeLineup
    <3>2. Advice(lineup', swaps')
      BY <3>1, AdviceIs DEF LineupInv
    <3> QED  BY <1>1, <3>2, NothingMoves DEF AdviceLeadsToBest, Advice
  <2>2. CASE UNCHANGED <<lineup, swaps, advised>>
    BY <1>1, <2>2, NothingMoves DEF LineupInv, AdviceLeadsToBest
  <2> QED  BY <2>1, <2>2 DEF LineupNext, AnalyzeWaivers, AnalyzeAvailability, lineupVars
<1> QED  BY <1>1, <1>2, <1>3, <1>4, <1>5 DEF LineupInv

\* The advised lineup is legal and worth the most of all legal ones, for rosters, slots and
\* points of any size: although the search fixes the order of the slots beforehand, never
\* leaves a slot empty that it could fill, and takes -10000 for "no player found"
\* (optimal_lineup, analysis.py 103-133).
THEOREM AdvisedLineupIsBest == LineupSpec => []LineupIsBest
<1>1. LineupSpec => []LineupInv
  BY LineupInvInit, LineupInvStep, PTL DEF LineupSpec
<1>2. LineupInv => LineupIsBest
  BY DEF LineupInv
<1> QED  BY <1>1, <1>2, PTL

\* The first swap never loses points; if as many come in as go out, the swaps lead to the
\* advised lineup; and none are recommended only to starters worth the most already, or to
\* fewer than could start: although the swaps pair players by value and never look at slots
\* (analyze_lineup, 136-153).
THEOREM SwapsLeadToBest == LineupSpec => []AdviceLeadsToBest
<1>1. LineupSpec => []LineupInv
  BY LineupInvInit, LineupInvStep, PTL DEF LineupSpec
<1>2. LineupInv => AdviceLeadsToBest
  BY DEF LineupInv
<1> QED  BY <1>1, <1>2, PTL

\* Whoever follows a waiver claim can field a lineup worth as much as before, unless ESPN lets
\* the dropped player start where the new one may not: although the analysis compares the two
\* alone, and the search for the new roster takes the slots in another order (analyze_waivers,
\* 192-217).
THEOREM ClaimsNeverWeakenLineups == LineupSpec => []ClaimsNeverWeaken
<1>1. LineupSpec => []LineupInv
  BY LineupInvInit, LineupInvStep, PTL DEF LineupSpec
<1>2. LineupInv => ClaimsNeverWeaken
  BY DEF LineupInv
<1> QED  BY <1>1, <1>2, PTL

\* Whoever follows an availability alert starts the best fit player of the bench who may
\* start in that slot, and an alert without a replacement means there is none (56-93).
THEOREM AlertedReplacementIsBest == LineupSpec => []AlertsImprove
<1>1. LineupSpec => []LineupInv
  BY LineupInvInit, LineupInvStep, PTL DEF LineupSpec
<1>2. LineupInv => AlertsImprove
  BY DEF LineupInv
<1> QED  BY <1>1, <1>2, PTL
-----------------------------------------------------------------------------
(* Trades. *)

\* There is only one order.
Keyed(key, X) == \A x \in X : key[x] \in Int

Orders(a, n, X, key) ==
    a \in [1..n -> X] /\ InOrder(a, n, key) /\ \A x \in X : \E k \in 1..n : a[k] = x

LEMMA SortedOnce ==
  ASSUME NEW n \in Nat, NEW X \in SUBSET Nat, NEW key, Keyed(key, X),
         NEW a, Orders(a, n, X, key), NEW b, Orders(b, n, X, key)
  PROVE  a = b
<1> DEFINE T == {k \in 1..n : a[k] # b[k]}
<1> USE DEF Keyed, Orders
<1> SUFFICES ASSUME T # {} PROVE FALSE
  OBVIOUS
<1>1. PICK k \in T : \A l \in T : k <= l
  <2>1. T \in SUBSET Nat
    OBVIOUS
  <2> HIDE DEF T
  <2> QED  BY <2>1, Least
<1>2. \A x, y \in X : ~(Precedes(key, x, y) /\ Precedes(key, y, x)) /\ ~Precedes(key, x, x)
  BY DEF Precedes
<1>3. k \in 1..n /\ a[k] # b[k] /\ \A j \in 1..n : j < k => a[j] = b[j]
  BY <1>1
<1> HIDE DEF T
<1>4. Precedes(key, b[k], a[k])
  <2>1. PICK j \in 1..n : b[j] = a[k]
    BY <1>3
  <2>2. ~(j < k)
    <3>1. ASSUME j < k PROVE Precedes(key, a[j], a[k]) /\ a[j] = a[k]
      BY <1>3, <2>1, <3>1 DEF InOrder
    <3> QED  BY <1>2, <1>3, <3>1
  <2>3. k < j
    BY <1>3, <2>1, <2>2
  <2> QED  BY <1>3, <2>1, <2>3 DEF InOrder
<1>5. Precedes(key, a[k], b[k])
  <2>1. PICK j \in 1..n : a[j] = b[k]
    BY <1>3
  <2>2. ~(j < k)
    <3>1. ASSUME j < k PROVE Precedes(key, b[j], b[k]) /\ b[j] = b[k]
      BY <1>3, <2>1, <3>1 DEF InOrder
    <3> QED  BY <1>2, <1>3, <3>1
  <2>3. k < j
    BY <1>3, <2>1, <2>2
  <2> QED  BY <1>3, <2>1, <2>3 DEF InOrder
<1> QED  BY <1>2, <1>3, <1>4, <1>5

\* One more element moves those after it by a place.
Inserts(t, s, n, p, r, key) ==
    /\ r \in 1..(n + 1) /\ t[r] = p
    /\ \A k \in 1..n : IF k < r THEN t[k] = s[k] /\ Precedes(key, s[k], p)
                       ELSE t[k + 1] = s[k] /\ Precedes(key, p, s[k])

LEMMA SortedInserts ==
  ASSUME NEW S \in SUBSET Nat, IsFiniteSet(S), NEW p \in Nat \ S,
         NEW key, \A x \in S \cup {p} : key[x] \in Int
  PROVE  \E r : Inserts(Sorted(S \cup {p}, key), Sorted(S, key), Cardinality(S), p, r, key)
<1> DEFINE n == Cardinality(S)
           s == Sorted(S, key)
           X == S \cup {p}
           t == Sorted(X, key)
<1>1. n \in Nat /\ s \in Bijection(1..n, S) /\ InOrder(s, n, key)
  BY SortedIs
<1>2. IsFiniteSet(X) /\ Cardinality(X) = n + 1
  BY FS_AddElement
<1>3. t \in Bijection(1..(n + 1), X) /\ InOrder(t, n + 1, key)
  <2> HIDE DEF n
  <2>1. X \in SUBSET Nat /\ \A x \in X : key[x] \in Int
    OBVIOUS
  <2> HIDE DEF X
  <2> QED  BY <1>2, <2>1, SortedIs
<1> HIDE DEF n, s, t
<1>4. /\ s \in [1..n -> S] /\ \A x \in S : \E k \in 1..n : s[k] = x
      /\ t \in [1..(n + 1) -> X] /\ \A x \in X : \E k \in 1..(n + 1) : t[k] = x
  BY <1>1, <1>3 DEF Bijection, Surjection
<1>5. \A x, y, z \in X : /\ x # y => Precedes(key, x, y) \/ Precedes(key, y, x)
                         /\ Precedes(key, x, y) /\ Precedes(key, y, z) => Precedes(key, x, z)
  BY DEF Precedes
<1> DEFINE T == {k \in 1..(n + 1) : k = n + 1 \/ Precedes(key, p, s[k])}
<1>6. PICK r \in T : \A k \in T : r <= k
  <2>1. T \in SUBSET Nat /\ n + 1 \in T
    BY <1>1
  <2> HIDE DEF T
  <2> QED  BY <2>1, Least
<1>7. r \in 1..(n + 1) /\ (r = n + 1 \/ Precedes(key, p, s[r]))
  BY <1>6
<1>8. ASSUME NEW k \in 1..n
      PROVE  IF k < r THEN Precedes(key, s[k], p) ELSE Precedes(key, p, s[k])
  <2>1. s[k] \in X /\ s[k] # p /\ p \in X
    BY <1>4
  <2>2. CASE k < r
    <3>1. k \notin T
      BY <1>1, <1>6, <1>7, <2>2
    <3>2. ~Precedes(key, p, s[k])
      BY <1>1, <3>1
    <3> QED  BY <1>5, <2>1, <2>2, <3>2
  <2>3. CASE ~(k < r)
    <3>1. r \in 1..n /\ Precedes(key, p, s[r]) /\ s[r] \in X
      BY <1>1, <1>4, <1>7, <2>3
    <3>2. r = k \/ Precedes(key, s[r], s[k])
      BY <1>1, <2>3, <3>1 DEF InOrder
    <3> HIDE DEF X
    <3>3. Precedes(key, p, s[k])
      BY <1>5, <2>1, <3>1, <3>2
    <3> QED  BY <2>3, <3>3
  <2> QED  BY <2>2, <2>3
<1> HIDE DEF T
<1> DEFINE into == [k \in 1..(n + 1) |-> IF k < r THEN s[k] ELSE IF k = r THEN p ELSE s[k - 1]]
<1>9. /\ into \in [1..(n + 1) -> X] /\ into[r] = p
      /\ \A k \in 1..n : IF k < r THEN into[k] = s[k] ELSE into[k + 1] = s[k]
  <2>1. \A k \in 1..(n + 1) : k < r => k \in 1..n
    BY <1>1, <1>7
  <2>2. \A k \in 1..(n + 1) : ~(k < r) /\ k # r => k - 1 \in 1..n
    BY <1>1, <1>7
  <2>3. into \in [1..(n + 1) -> X]
    BY <1>4, <2>1, <2>2
  <2>4. \A k \in 1..n : /\ k \in 1..(n + 1) /\ k + 1 \in 1..(n + 1) /\ (k + 1) - 1 = k
                        /\ ~(k < r) => ~(k + 1 < r) /\ k + 1 # r
    BY <1>1, <1>7
  <2> QED  BY <1>7, <2>3, <2>4
<1>10. \A k \in 1..(n + 1) :
          /\ k < r => k \in 1..n /\ into[k] = s[k]
          /\ k > r => k - 1 \in 1..n /\ into[k] = s[k - 1] /\ ~(k - 1 < r)
  BY <1>1, <1>7
<1> HIDE DEF into, X
<1>11. InOrder(into, n + 1, key)
  <2> SUFFICES ASSUME NEW i \in 1..(n + 1), NEW j \in 1..(n + 1), i < j
               PROVE  Precedes(key, into[i], into[j])
    BY DEF InOrder
  <2>1. CASE j < r
    <3>1. i < r
      BY <1>7, <2>1
    <3> QED  BY <1>1, <1>10, <2>1, <3>1 DEF InOrder
  <2>2. CASE j = r
    BY <1>8, <1>9, <1>10, <2>2
  <2>3. CASE j > r
    <3>1. j - 1 \in 1..n /\ into[j] = s[j - 1] /\ Precedes(key, p, s[j - 1])
      BY <1>8, <1>10, <2>3
    <3>2. CASE i < r
      <4>1. i \in 1..n /\ into[i] = s[i] /\ Precedes(key, s[i], p)
        BY <1>8, <1>10, <3>2
      <4>2. s[i] \in X /\ s[j - 1] \in X /\ p \in X
        BY <1>4, <3>1, <4>1 DEF X
      <4> QED  BY <1>5, <3>1, <4>1, <4>2
    <3>3. CASE i = r
      BY <1>9, <3>1, <3>3
    <3>4. CASE i > r
      <4>1. i - 1 \in 1..n /\ into[i] = s[i - 1] /\ i - 1 < j - 1
        BY <1>10, <3>4
      <4> QED  BY <1>1, <3>1, <4>1 DEF InOrder
    <3> QED  BY <1>7, <3>2, <3>3, <3>4
  <2> QED  BY <1>7, <2>1, <2>2, <2>3
<1>12. ASSUME NEW x \in X PROVE \E k \in 1..(n + 1) : into[k] = x
  <2>1. CASE x = p
    BY <1>7, <1>9, <2>1
  <2>2. CASE x \in S
    <3>1. PICK k \in 1..n : s[k] = x
      BY <1>4, <2>2
    <3>2. k \in 1..(n + 1) /\ k + 1 \in 1..(n + 1)
      BY <1>1
    <3> QED  BY <1>9, <3>1, <3>2
  <2> QED  BY <2>1, <2>2 DEF X
<1>13. t = into
  <2>1. X \in SUBSET Nat /\ n + 1 \in Nat /\ Keyed(key, X)
    BY <1>1 DEF X, Keyed
  <2>2. Orders(t, n + 1, X, key) /\ Orders(into, n + 1, X, key)
    BY <1>3, <1>4, <1>9, <1>11, <1>12 DEF Orders
  <2> QED  BY <2>1, <2>2, SortedOnce
<1>14. Inserts(t, s, n, p, r, key)
  BY <1>7, <1>8, <1>9, <1>13 DEF Inserts
<1> QED  BY <1>14 DEF n, s, t, X

TradeTypeOK == worth \in [Everybody -> Int] /\ starters \in Seq(STRING)

\* What the first players of a sequence are worth together.
Prefix(s, c) ==
    LET sum[k \in 0..c] == IF k = 0 THEN 0 ELSE sum[k - 1] + worth[s[k]]
    IN  sum

Valued(s, n) == \A k \in 1..n : worth[s[k]] \in Int

LEMMA PrefixAdds ==
  ASSUME NEW c \in Nat, NEW s, Valued(s, c)
  PROVE  /\ Prefix(s, c) \in [0..c -> Int] /\ Prefix(s, c)[0] = 0
         /\ \A k \in 1..c : Prefix(s, c)[k] = Prefix(s, c)[k - 1] + worth[s[k]]
<1> DEFINE w == [k \in 1..c |-> worth[s[k]]]
           sum == Prefix(s, c)
<1>1. w \in [1..c -> Int]
  BY DEF Valued
<1>2. PICK g \in [0..c -> Int] : g = [k \in 0..c |-> IF k = 0 THEN 0 ELSE g[k - 1] + w[k]]
  <2> HIDE DEF w
  <2> QED  BY <1>1, RunningSums
<1>3. g = [k \in 0..c |-> IF k = 0 THEN 0 ELSE g[k - 1] + worth[s[k]]]
  <2>1. \A k \in 0..c : k # 0 => k \in 1..c
    OBVIOUS
  <2>2. \A k \in 1..c : w[k] = worth[s[k]]
    OBVIOUS
  <2> HIDE DEF w
  <2> QED  BY <1>2, <2>1, <2>2
<1>4. sum = [k \in 0..c |-> IF k = 0 THEN 0 ELSE sum[k - 1] + worth[s[k]]]
  BY <1>3 DEF Prefix
<1> HIDE DEF sum
<1>5. sum = g
  <2> DEFINE G == {k \in Nat : sum[k] = g[k]}
  <2>1. 0 \in G
    BY <1>3, <1>4
  <2>2. ASSUME NEW m \in 0..(c - 1), m \in G PROVE m + 1 \in G
    <3>1. m + 1 \in 0..c /\ m + 1 # 0 /\ (m + 1) - 1 = m /\ m + 1 \in Nat
      OBVIOUS
    <3>2. sum[m + 1] = sum[m] + worth[s[m + 1]] /\ g[m + 1] = g[m] + worth[s[m + 1]]
      BY <1>3, <1>4, <3>1
    <3> QED  BY <2>2, <3>1, <3>2
  <2>3. 0..c \subseteq G
    <3> HIDE DEF G
    <3> QED  BY <2>1, <2>2, Upwards
  <2> QED  BY <1>3, <1>4, <2>3
<1>6. sum \in [0..c -> Int] /\ sum[0] = 0 /\ \A k \in 1..c : sum[k] = sum[k - 1] + worth[s[k]]
  BY <1>3, <1>5
<1> QED  BY <1>6 DEF sum

LEMMA PrefixInserts ==
  ASSUME NEW n \in Nat, NEW c \in 1..n, NEW s, Valued(s, n), NEW p, worth[p] \in Int,
         NEW t, NEW r, Inserts(t, s, n, p, r, worth)
  PROVE  Prefix(t, c)[c] = IF r > c THEN Prefix(s, c)[c]
                           ELSE Prefix(s, c)[c] - worth[s[c]] + worth[p]
<1> DEFINE F == Prefix(s, c)
           H == Prefix(t, c)
<1>1. /\ r \in Nat \ {0} /\ t[r] = p
      /\ \A k \in 1..n : (k < r => t[k] = s[k]) /\ (~(k < r) => t[k + 1] = s[k])
  BY DEF Inserts
<1>2. ASSUME NEW k \in 1..c
      PROVE  worth[s[k]] \in Int /\ worth[t[k]] \in Int
             /\ (k > r => k - 1 \in 1..c /\ t[k] = s[k - 1])
  <2>1. k \in 1..n
    OBVIOUS
  <2>2. ASSUME k > r PROVE k - 1 \in 1..n /\ k - 1 \in 1..c /\ ~(k - 1 < r) /\ (k - 1) + 1 = k
    BY <1>1, <2>2
  <2>3. k > r => k - 1 \in 1..c /\ k - 1 \in 1..n /\ t[k] = s[k - 1]
    BY <1>1, <2>2
  <2>4. k < r \/ k = r \/ k > r
    BY <1>1
  <2> QED  BY <1>1, <2>1, <2>3, <2>4 DEF Valued
<1>3. /\ F \in [0..c -> Int] /\ F[0] = 0 /\ \A k \in 1..c : F[k] = F[k - 1] + worth[s[k]]
      /\ H \in [0..c -> Int] /\ H[0] = 0 /\ \A k \in 1..c : H[k] = H[k - 1] + worth[t[k]]
  <2>1. Valued(s, c) /\ Valued(t, c) /\ c \in Nat
    BY <1>2 DEF Valued
  <2> QED  BY <2>1, PrefixAdds
<1> HIDE DEF F, H
<1> DEFINE G == {k \in Nat : H[k] = IF k < r THEN F[k] ELSE F[k] - worth[s[k]] + worth[p]}
<1>4. 0 \in G
  BY <1>1, <1>3
<1>5. ASSUME NEW m \in 0..(c - 1), m \in G PROVE m + 1 \in G
  <2> DEFINE l == m + 1
  <2>1. l \in 1..c /\ l - 1 = m /\ m \in 0..c /\ l \in 0..c /\ l \in Nat
    OBVIOUS
  <2> HIDE DEF l
  <2>2. /\ H[l] = H[m] + worth[t[l]] /\ F[l] = F[m] + worth[s[l]]
        /\ F[m] \in Int /\ worth[s[l]] \in Int /\ worth[t[l]] \in Int
    BY <1>2, <1>3, <2>1
  <2>3. H[m] = IF m < r THEN F[m] ELSE F[m] - worth[s[m]] + worth[p]
    BY <1>5
  <2>4. CASE l < r
    <3>1. m < r /\ t[l] = s[l]
      BY <1>1, <2>1, <2>4
    <3> QED  BY <2>1, <2>2, <2>3, <2>4, <3>1 DEF l
  <2>5. CASE l = r
    <3>1. m < r /\ t[l] = p
      BY <1>1, <2>1, <2>5
    <3>2. H[l] = F[l] - worth[s[l]] + worth[p]
      BY <2>2, <2>3, <3>1
    <3> QED  BY <1>1, <2>1, <2>5, <3>2 DEF l
  <2>6. CASE l > r
    <3>1. ~(m < r) /\ t[l] = s[m] /\ m \in 1..c
      BY <1>1, <1>2, <2>1, <2>6
    <3>2. worth[s[m]] \in Int
      BY <1>2, <3>1
    <3>3. H[l] = F[l] - worth[s[l]] + worth[p]
      BY <2>2, <2>3, <3>1, <3>2
    <3> QED  BY <1>1, <2>1, <2>6, <3>3 DEF l
  <2> QED  BY <1>1, <2>1, <2>4, <2>5, <2>6
<1>6. c \in G
  <2> HIDE DEF G
  <2>1. 0..c \subseteq G
    BY <1>4, <1>5, Upwards
  <2> QED  BY <2>1
<1> QED  BY <1>1, <1>6 DEF F, H

\* Where at least c of a set are worth anything, so is the c-th.
LEMMA WorthyAtPlace ==
  ASSUME NEW S \in SUBSET Nat, IsFiniteSet(S), \A x \in S : worth[x] \in Int,
         NEW c \in Nat \ {0}, Cardinality({x \in S : worth[x] >= 0}) >= c
  PROVE  /\ Cardinality(S) \in Nat /\ c \in 1..Cardinality(S)
         /\ Sorted(S, worth) \in [1..Cardinality(S) -> S] /\ worth[Sorted(S, worth)[c]] >= 0
<1> DEFINE n == Cardinality(S)
           s == Sorted(S, worth)
           worthy == {x \in S : worth[x] >= 0}
<1>1. n \in Nat /\ s \in Bijection(1..n, S) /\ InOrder(s, n, worth)
  BY SortedIs
<1>2. worthy \in SUBSET S /\ Cardinality(worthy) >= c
  OBVIOUS
<1> HIDE DEF s
<1>3. IsFiniteSet(worthy) /\ Cardinality(worthy) \in Nat /\ Cardinality(worthy) <= n
  <2> HIDE DEF worthy
  <2> QED  BY <1>2, FS_Subset, FS_CardinalityType
<1> HIDE DEF n
<1>4. c \in 1..n
  BY <1>1, <1>2, <1>3
<1>5. s \in [1..n -> S] /\ \A x \in S : \E k \in 1..n : s[k] = x
  BY <1>1 DEF Bijection, Surjection
<1>6. ASSUME ~(worth[s[c]] >= 0) PROVE FALSE
  <2> DEFINE place == [x \in worthy |-> CHOOSE k \in 1..n : s[k] = x]
  <2>1. \A x \in worthy : place[x] \in 1..n /\ s[place[x]] = x
    BY <1>5
  <2>2. ASSUME NEW x \in worthy PROVE place[x] \in 1..(c - 1)
    <3>1. place[x] \in 1..n /\ s[place[x]] = x /\ worth[x] >= 0 /\ worth[x] \in Int
      BY <2>1
    <3> HIDE DEF place
    <3>2. worth[s[c]] \in Int
      BY <1>4, <1>5
    <3>3. CASE place[x] > c
      <4>1. Precedes(worth, s[c], s[place[x]])
        BY <1>1, <1>4, <3>1, <3>3 DEF InOrder
      <4> QED  BY <1>6, <3>1, <3>2, <4>1 DEF Precedes
    <3>4. place[x] # c
      BY <1>6, <3>1
    <3> QED  BY <1>4, <3>1, <3>3, <3>4
  <2> HIDE DEF worthy
  <2>3. place \in [worthy -> 1..(c - 1)]
    BY <2>2
  <2>4. \A x, y \in worthy : place[x] = place[y] => x = y
    <3> HIDE DEF place
    <3>1. ASSUME NEW x \in worthy, NEW y \in worthy, place[x] = place[y] PROVE x = y
      <4>1. s[place[x]] = x /\ s[place[y]] = y
        BY <2>1
      <4> QED  BY <3>1, <4>1
    <3> QED  BY <3>1
  <2>5. place \in Injection(worthy, 1..(c - 1))
    <3> HIDE DEF place
    <3> QED  BY <2>3, <2>4 DEF Injection, IsInjective
  <2>6. IsFiniteSet(1..(c - 1)) /\ Cardinality(1..(c - 1)) = c - 1
    BY FS_Interval
  <2>7. Cardinality(worthy) <= c - 1
    <3> HIDE DEF place
    <3> QED  BY <2>5, <2>6, FS_Injection
  <2> QED  BY <1>2, <1>3, <2>7
<1> QED  BY <1>1, <1>4, <1>5, <1>6 DEF n, s

\* What the finder says a team gains is what its best lineup gains, in a league without
\* flexible slots.
LEMMA GainOf ==
  ASSUME TradeTypeOK, NEW team \in SUBSET Everybody, NEW incoming \in Everybody \ team,
         NEW excluded, TradePosition[excluded] # TradePosition[incoming],
         LET position == TradePosition[incoming]
         IN  SlotsOf(position) > 0 /\ Filled(team, position)
  PROVE  LET position == TradePosition[incoming] IN
         Max({0, LineupGain(team, incoming, excluded)})
         = BestValue(team \cup {incoming}, position) - BestValue(team, position)
<1> DEFINE position == TradePosition[incoming]
           S == AtPosition(team, position)
           X == AtPosition(team \cup {incoming}, position)
           n == Cardinality(S)
           c == SlotsOf(position)
           s == Sorted(S, worth)
           t == Sorted(S \cup {incoming}, worth)
<1>1. Everybody \in SUBSET Nat /\ IsFiniteSet(Everybody)
  <2>1. TradePosition \in Seq(STRING) /\ Everybody = 1..Len(TradePosition) /\ Len(TradePosition) \in Nat
    BY TradeAssumption DEF Everybody
  <2> QED  BY <2>1, FS_Interval
<1>2. S \in SUBSET Everybody /\ incoming \notin S /\ X = S \cup {incoming} /\ S \ {excluded} = S
  BY DEF AtPosition
<1>3. S \in SUBSET Nat /\ IsFiniteSet(S) /\ incoming \in Nat \ S
      /\ \A x \in S \cup {incoming} : worth[x] \in Int
  <2> HIDE DEF S
  <2> QED  BY <1>1, <1>2, FS_Subset DEF TradeTypeOK
<1>4. c \in Nat \ {0}
  <2>1. PICK m \in Nat : DOMAIN starters = 1..m
    BY DEF TradeTypeOK
  <2> DEFINE these == {k \in DOMAIN starters : starters[k] = position}
  <2>2. these \in SUBSET (1..m)
    BY <2>1
  <2> HIDE DEF these
  <2>3. IsFiniteSet(1..m)
    BY FS_Interval
  <2>4. IsFiniteSet(these)
    BY <2>2, <2>3, FS_Subset
  <2>5. Cardinality(these) \in Nat
    BY <2>4, FS_CardinalityType
  <2> QED  BY <2>5 DEF these, SlotsOf
<1>5. n \in Nat /\ c \in 1..n /\ s \in [1..n -> S] /\ worth[s[c]] >= 0
  <2>1. Cardinality({x \in S : worth[x] >= 0}) >= c
    BY DEF Filled
  <2> HIDE DEF S, c
  <2> QED  BY <1>3, <1>4, <2>1, WorthyAtPlace
<1>6. PICK r : Inserts(t, s, n, incoming, r, worth)
  <2> HIDE DEF S
  <2> QED  BY <1>3, SortedInserts
<1>7. /\ BestValue(team, position) = Prefix(s, c)[c]
      /\ BestValue(team \cup {incoming}, position) = Prefix(t, c)[c]
  BY <1>2 DEF BestValue, BestFirst, Prefix
<1>8. LineupGain(team, incoming, excluded) =
        worth[incoming] - (IF Len(s) >= StarterCount(position) THEN Floor(s[StarterCount(position)]) ELSE 0)
  BY <1>2 DEF LineupGain, BestFirst
<1>9. StarterCount(position) = c
  <2>1. StarterCount(position) = Max({1, c})
    BY DEF StarterCount, SlotsOf
  <2> HIDE DEF c
  <2> QED  BY <1>4, <2>1 DEF Max
<1> HIDE DEF S, X, n, c, s, t
<1>10. Len(s) = n /\ s[c] \in S /\ worth[s[c]] \in Int /\ worth[incoming] \in Int
       /\ Valued(s, n)
  <2>1. Len(s) = n
    BY <1>5
  <2>2. \A k \in 1..n : s[k] \in S /\ worth[s[k]] \in Int
    BY <1>3, <1>5
  <2> QED  BY <1>3, <1>5, <2>1, <2>2 DEF Valued
<1>11. Floor(s[c]) = worth[s[c]]
  BY <1>5, <1>10 DEF Floor, Max
<1>12. LineupGain(team, incoming, excluded) = worth[incoming] - worth[s[c]]
  BY <1>5, <1>8, <1>9, <1>10, <1>11
<1>13. Prefix(t, c)[c] = IF r > c THEN Prefix(s, c)[c]
                         ELSE Prefix(s, c)[c] - worth[s[c]] + worth[incoming]
  BY <1>5, <1>6, <1>10, PrefixInserts
<1>14. Prefix(s, c)[c] \in Int
  <2>1. Valued(s, c) /\ c \in Nat /\ c \in 0..c
    BY <1>5, <1>10 DEF Valued
  <2> QED  BY <2>1, PrefixAdds
<1>15. IF r > c THEN worth[incoming] <= worth[s[c]] ELSE worth[incoming] >= worth[s[c]]
  <2>1. r \in Int /\ IF c < r THEN Precedes(worth, s[c], incoming)
                                ELSE Precedes(worth, incoming, s[c])
    BY <1>5, <1>6 DEF Inserts
  <2> QED  BY <1>5, <1>10, <2>1 DEF Precedes
<1> DEFINE gain == LineupGain(team, incoming, excluded)
<1>16. Max({0, gain}) = IF r > c THEN 0 ELSE worth[incoming] - worth[s[c]]
  BY <1>10, <1>12, <1>15 DEF Max
<1> HIDE DEF gain
<1>17. Max({0, gain}) = Prefix(t, c)[c] - Prefix(s, c)[c]
  BY <1>10, <1>13, <1>14, <1>16
<1> QED  BY <1>7, <1>17 DEF gain

TradeInv == TradeTypeOK /\ GainIsExact

LEMMA TradeInvInit == TradeInit => TradeInv
BY TradeAssumption DEF TradeInit, TradeInv, TradeTypeOK, GainIsExact, Everybody

LEMMA TradeInvStep == TradeInv /\ [TradeNext]_tradeVars => TradeInv'
<1> SUFFICES ASSUME TradeInv, [TradeNext]_tradeVars PROVE TradeInv'
  OBVIOUS
<1>1. TradeTypeOK' /\ worth' = worth /\ starters' = starters
  BY DEF TradeInv, TradeTypeOK, TradeNext, AnalyzeTrades, tradeVars
<1>2. /\ \A team, position : BestValue(team, position)' = BestValue(team, position)
      /\ \A position : SlotsOf(position)' = SlotsOf(position)
      /\ \A team, position : Filled(team, position)' = Filled(team, position)
  BY <1>1 DEF BestValue, SlotsOf, Filled, BestFirst
<1>3. GainIsExact'
  <2>1. CASE AnalyzeTrades
    <3>1. ASSUME NEW trade \in trades'
          PROVE  \E mine \in Mine, theirs \in Theirs :
                    /\ TradePosition[mine] # TradePosition[theirs]
                    /\ trade = <<mine, theirs, LineupGain(Mine, theirs, mine),
                                 LineupGain(Theirs, mine, theirs)>>
      <4>1. PICK wanted \in Needs(Mine) :
               trade \in Proposals(ClosestValuePair({p \in Mine : TradePosition[p] \in Needs(Theirs)},
                                                    AtPosition(Theirs, wanted)))
        BY <2>1 DEF AnalyzeTrades
      <4>2. PICK pair \in ClosestValuePair({p \in Mine : TradePosition[p] \in Needs(Theirs)},
                                           AtPosition(Theirs, wanted)) :
               /\ TradePosition[pair[1]] # TradePosition[pair[2]]
               /\ trade = <<pair[1], pair[2], LineupGain(Mine, pair[2], pair[1]),
                            LineupGain(Theirs, pair[1], pair[2])>>
        BY <4>1 DEF Proposals
      <4>3. pair \in {p \in Mine : TradePosition[p] \in Needs(Theirs)} \X AtPosition(Theirs, wanted)
        BY DEF ClosestValuePair
      <4>4. pair[1] \in Mine /\ pair[2] \in Theirs
        BY <4>3 DEF AtPosition
      <4> QED  BY <4>2, <4>4
    <3>2. ASSUME NEW mine \in Mine, NEW theirs \in Theirs, TradePosition[mine] # TradePosition[theirs]
          PROVE  /\ SlotsOf(TradePosition[theirs]) > 0 /\ Filled(Mine, TradePosition[theirs]) =>
                       Max({0, LineupGain(Mine, theirs, mine)})
                       = BestValue(Mine \cup {theirs}, TradePosition[theirs])
                         - BestValue(Mine, TradePosition[theirs])
                 /\ SlotsOf(TradePosition[mine]) > 0 /\ Filled(Theirs, TradePosition[mine]) =>
                       Max({0, LineupGain(Theirs, mine, theirs)})
                       = BestValue(Theirs \cup {mine}, TradePosition[mine])
                         - BestValue(Theirs, TradePosition[mine])
      <4>1. /\ Mine \in SUBSET Everybody /\ theirs \in Everybody \ Mine
            /\ Theirs \in SUBSET Everybody /\ mine \in Everybody \ Theirs
        BY TradeAssumption DEF Theirs, Everybody
      <4> QED  BY <3>2, <4>1, GainOf DEF TradeInv
    <3>3. ASSUME NEW trade \in trades'
          PROVE  /\ SlotsOf(TradePosition[trade[2]]) > 0 /\ Filled(Mine, TradePosition[trade[2]]) =>
                       Max({0, trade[3]}) = BestValue(Mine \cup {trade[2]}, TradePosition[trade[2]])
                                            - BestValue(Mine, TradePosition[trade[2]])
                 /\ SlotsOf(TradePosition[trade[1]]) > 0 /\ Filled(Theirs, TradePosition[trade[1]]) =>
                       Max({0, trade[4]}) = BestValue(Theirs \cup {trade[1]}, TradePosition[trade[1]])
                                            - BestValue(Theirs, TradePosition[trade[1]])
      <4>1. PICK mine \in Mine, theirs \in Theirs :
               /\ TradePosition[mine] # TradePosition[theirs]
               /\ trade = <<mine, theirs, LineupGain(Mine, theirs, mine),
                            LineupGain(Theirs, mine, theirs)>>
        BY <3>1
      <4>2. /\ trade[1] = mine /\ trade[2] = theirs /\ trade[3] = LineupGain(Mine, theirs, mine)
            /\ trade[4] = LineupGain(Theirs, mine, theirs)
        BY <4>1
      <4> QED  BY <3>2, <4>1, <4>2
    <3> QED  BY <1>2, <3>3 DEF GainIsExact
  <2>2. CASE UNCHANGED tradeVars
    <3>1. trades' = trades
      BY <2>2 DEF tradeVars
    <3> QED  BY <1>2, <3>1 DEF TradeInv, GainIsExact
  <2> QED  BY <2>1, <2>2 DEF TradeNext
<1> QED  BY <1>1, <1>3 DEF TradeInv

\* In a league without flexible slots the finder states what either team's best lineup gains
\* from the player that comes in, for rosters of any size and any values, although it compares
\* him with one player (_lineup_gain, analysis.py 405-422): the list with him is the list
\* without him in which those behind him move by one place.
THEOREM StatedGainsAreExact == TradeSpec => []GainIsExact
<1>1. TradeSpec => []TradeInv
  BY TradeInvInit, TradeInvStep, PTL DEF TradeSpec
<1>2. TradeInv => GainIsExact
  BY DEF TradeInv
<1> QED  BY <1>1, <1>2, PTL
=============================================================================
