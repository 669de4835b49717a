---------------------------- MODULE FiniteRecursion ----------------------------
(***************************************************************************)
(* What a function defined by recursion is: it exists where each value     *)
(* depends on earlier ones alone.  Subsets of a finite set are such an     *)
(* order, up and down, and sums over finite sets such a function; and any  *)
(* finite set can be listed in order.  The recursions of the planner and   *)
(* the guardrails, the loops that trim a prompt, and the sums over requests*)
(* of the quotas and of the connection pool rest on it.                    *)
(***************************************************************************)
EXTENDS Integers, Sequences, FiniteSetTheorems, TLAPS

-----------------------------------------------------------------------------
(* Functions defined by recursion *)

\* Every set of elements has one that nothing in the set comes before.
Founded(R, I) == \A F \in SUBSET I : F # {} => \E x \in F : \A y \in F : <<y, x>> \notin R
Transitive(R, I) == \A x, y, z \in I : <<x, y>> \in R /\ <<y, z>> \in R => <<x, z>> \in R

\* The value at an element depends on the values before it alone.
Local(D, R, I, V) ==
    \A x \in I : \A g, h \in [I -> V] :
        (\A y \in I : <<y, x>> \in R => g[y] = h[y]) => D[x][g] = D[x][h]

\* D gives each element its value from the values of a function.
Determines(D, I, V) == V # {} /\ D \in [I -> [[I -> V] -> V]]
Solution(g, D, I, V) == g \in [I -> V] /\ \A x \in I : g[x] = D[x][g]

Upto(R, I, x) == {y \in I : <<y, x>> \in R \/ y = x}
SolvesUpto(D, R, I, g, x) == \A y \in Upto(R, I, x) : g[y] = D[y][g]

LEMMA RightAgree ==
  ASSUME NEW I, NEW R, NEW V, NEW D, Founded(R, I), Transitive(R, I), Local(D, R, I, V)
  PROVE  \A x \in I : \A g, h \in [I -> V] :
             SolvesUpto(D, R, I, g, x) /\ SolvesUpto(D, R, I, h, x) => g[x] = h[x]
  <1> SUFFICES ASSUME NEW x \in I, NEW g \in [I -> V], NEW h \in [I -> V],
                      SolvesUpto(D, R, I, g, x), SolvesUpto(D, R, I, h, x)
               PROVE  g[x] = h[x]
    OBVIOUS
  <1> DEFINE F == {y \in Upto(R, I, x) : g[y] # h[y]}
  <1> SUFFICES ASSUME F # {} PROVE FALSE
    BY DEF Upto
  <1>1. PICK y \in F : \A z \in F : <<z, y>> \notin R
    <2>1. F \in SUBSET I
      BY DEF Upto
    <2> HIDE DEF F
    <2> QED
      BY <2>1 DEF Founded
  <1>2. y \in I /\ g[y] = D[y][g] /\ h[y] = D[y][h]
    BY <1>1 DEF Upto, SolvesUpto
  <1>3. \A z \in I : <<z, y>> \in R => g[z] = h[z]
    BY <1>1, <1>2 DEF Upto, Transitive
  <1> QED
    BY <1>1, <1>2, <1>3 DEF Local

LEMMA RightBelow ==
  ASSUME NEW I, NEW R, NEW D, Transitive(R, I), NEW g, NEW x \in I, NEW y \in I,
         <<y, x>> \in R, SolvesUpto(D, R, I, g, x)
  PROVE  SolvesUpto(D, R, I, g, y)
  BY DEF SolvesUpto, Upto, Transitive

\* Where it is known how to go on, there is one function that does.
LEMMA RecursionDefines ==
  ASSUME NEW I, NEW R, NEW V, NEW D, Determines(D, I, V),
         Founded(R, I), Transitive(R, I), Local(D, R, I, V)
  PROVE  \E g : Solution(g, D, I, V)
  <1> PICK v \in V : D \in [I -> [[I -> V] -> V]]
    BY DEF Determines
  <1>0. \A x \in I : \A g, h \in [I -> V] :
            SolvesUpto(D, R, I, g, x) /\ SolvesUpto(D, R, I, h, x) => g[x] = h[x]
    <2>1. Founded(R, I) /\ Transitive(R, I) /\ Local(D, R, I, V)
      OBVIOUS
    <2> QED
      BY ONLY <2>1, RightAgree
  <1> DEFINE Good(x) == CHOOSE g \in [I -> V] : SolvesUpto(D, R, I, g, x)
             Solved(x) == \E g \in [I -> V] : SolvesUpto(D, R, I, g, x)
  <1>1. ASSUME NEW x \in I, Solved(x)
        PROVE  Good(x) \in [I -> V] /\ SolvesUpto(D, R, I, Good(x), x)
    BY <1>1
  \* What the solutions say together is again one.
  <1>2. ASSUME NEW y \in I, NEW g \in [I -> V], Solved(y), g[y] = Good(y)[y],
               \A z \in I : <<z, y>> \in R => Solved(z) /\ g[z] = Good(z)[z]
        PROVE  g[y] = D[y][g]
    <2>1. Good(y) \in [I -> V] /\ SolvesUpto(D, R, I, Good(y), y)
      BY <1>1, <1>2
    <2>2. ASSUME NEW z \in I, <<z, y>> \in R PROVE Good(y)[z] = g[z]
      <3>1. SolvesUpto(D, R, I, Good(y), z)
        BY <2>1, <2>2, RightBelow
      <3>2. Good(z) \in [I -> V] /\ SolvesUpto(D, R, I, Good(z), z)
        BY <1>1, <1>2, <2>2
      <3>3. Good(y)[z] = Good(z)[z]
        <4> HIDE DEF Good
        <4> QED
          BY <1>0, <2>1, <3>1, <3>2
      <3> QED
        BY <1>2, <2>2, <3>3
    <2>3. Good(y)[y] = D[y][Good(y)]
      BY <2>1 DEF SolvesUpto, Upto
    <2> HIDE DEF Good
    <2> QED
      BY <1>2, <2>1, <2>2, <2>3 DEF Local
  <1>3. \A x \in I : Solved(x)
    <2> DEFINE F == {x \in I : ~Solved(x)}
    <2> SUFFICES ASSUME F # {} PROVE FALSE
      OBVIOUS
    <2>1. PICK x \in F : \A y \in F : <<y, x>> \notin R
      <3>1. F \in SUBSET I
        OBVIOUS
      <3> HIDE DEF F
      <3> QED
        BY <3>1 DEF Founded
    <2>2. x \in I /\ \A y \in I : <<y, x>> \in R => Solved(y)
      BY <2>1
    <2>3. <<x, x>> \notin R
      <3>1. {x} \in SUBSET I /\ {x} # {}
        BY <2>2
      <3>2. \E z \in {x} : \A y \in {x} : <<y, z>> \notin R
        BY <3>1 DEF Founded
      <3> QED
        BY <3>2
    <2> DEFINE below == [y \in I |-> IF <<y, x>> \in R THEN Good(y)[y] ELSE v]
               whole == [below EXCEPT ![x] = D[x][below]]
    <2>4. \A y \in I : <<y, x>> \in R => Good(y) \in [I -> V]
      BY <1>1, <2>2
    <2>5. below \in [I -> V]
      <3> HIDE DEF Good
      <3> QED
        BY <2>4
    <2>6. \A y \in I : <<y, x>> \in R => below[y] = Good(y)[y]
      <3> HIDE DEF Good
      <3> QED
        BY <2>4
    <2> HIDE DEF below, Good, Solved
    <2>7. whole \in [I -> V] /\ whole[x] = D[x][below] /\ \A y \in I : y # x => whole[y] = below[y]
      BY <2>2, <2>5
    <2> HIDE DEF whole
    <2>8. ASSUME NEW y \in I, <<y, x>> \in R PROVE whole[y] = D[y][whole]
      <3>1. \A z \in I : <<z, y>> \in R => <<z, x>> \in R
        BY <2>2, <2>8 DEF Transitive
      <3>2. \A z \in I : <<z, x>> \in R => Solved(z) /\ whole[z] = Good(z)[z]
        BY <2>2, <2>3, <2>6, <2>7
      <3> QED
        BY <1>2, <2>7, <2>8, <3>1, <3>2
    <2>9. whole[x] = D[x][whole]
      BY <2>2, <2>3, <2>5, <2>7 DEF Local
    <2>10. SolvesUpto(D, R, I, whole, x)
      BY <2>8, <2>9 DEF SolvesUpto, Upto
    <2> QED
      BY <2>1, <2>2, <2>7, <2>10 DEF Solved
  <1> DEFINE all == [x \in I |-> Good(x)[x]]
  <1>4. all \in [I -> V] /\ \A x \in I : all[x] = Good(x)[x]
    <2>1. \A x \in I : Good(x) \in [I -> V]
      BY <1>1, <1>3
    <2> HIDE DEF Good
    <2> QED
      BY <2>1
  <1> HIDE DEF all, Good, Solved
  <1>5. \A x \in I : all[x] = D[x][all]
    BY <1>2, <1>3, <1>4
  <1> QED
    BY <1>4, <1>5 DEF Solution

-----------------------------------------------------------------------------
(* Subsets of a finite set *)

\* What holds of no smallest subset that fails it holds of all subsets.
LEMMA SubsetsFounded ==
  ASSUME NEW S, IsFiniteSet(S)
  PROVE  /\ Founded(StrictSubsetOrdering(S), SUBSET S)
         /\ Transitive(StrictSubsetOrdering(S), SUBSET S)
  <1>1. ASSUME NEW F \in SUBSET SUBSET S, F # {}
        PROVE  \E T \in F : \A U \in F : <<U, T>> \notin StrictSubsetOrdering(S)
    <2>1. F \subseteq FiniteSubsetsOf(S)
      BY FS_Subset DEF FiniteSubsetsOf
    <2> QED
      BY <1>1, <2>1, FS_StrictSubsetOrderingWellFounded, WFMin
  <1>2. Transitive(StrictSubsetOrdering(S), SUBSET S)
    BY DEF Transitive, StrictSubsetOrdering
  <1> QED
    BY <1>1, <1>2 DEF Founded

\* And what holds of no largest one.
Larger(S) == {p \in (SUBSET S) \X (SUBSET S) : p[2] \subseteq p[1] /\ p[1] # p[2]}

LEMMA SupersetsFounded ==
  ASSUME NEW S, IsFiniteSet(S)
  PROVE  Founded(Larger(S), SUBSET S) /\ Transitive(Larger(S), SUBSET S)
  <1>1. ASSUME NEW F \in SUBSET SUBSET S, F # {}
        PROVE  \E T \in F : \A U \in F : <<U, T>> \notin Larger(S)
    <2> DEFINE Rests == {S \ T : T \in F}
    <2>1. Rests \in SUBSET SUBSET S /\ Rests # {}
      <3>1. PICK T \in F : TRUE
        BY <1>1
      <3>2. S \ T \in Rests /\ \A X \in Rests : X \subseteq S
        OBVIOUS
      <3> HIDE DEF Rests
      <3> QED
        BY <3>2
    <2>2. PICK X \in Rests : \A Y \in Rests : <<Y, X>> \notin StrictSubsetOrdering(S)
      <3> HIDE DEF Rests
      <3> QED
        BY <2>1, SubsetsFounded DEF Founded
    <2>3. PICK T \in F : X = S \ T
      BY <2>2
    <2>4. ASSUME NEW U \in F, <<U, T>> \in Larger(S) PROVE FALSE
      <3>1. T \subseteq U /\ U # T /\ T \subseteq S /\ U \subseteq S
        BY <2>4 DEF Larger
      <3>2. S \ U \in Rests /\ <<S \ U, X>> \in StrictSubsetOrdering(S)
        BY <2>3, <3>1 DEF StrictSubsetOrdering
      <3> QED
        BY <2>2, <3>2
    <2> QED
      BY <2>4
  <1>2. Transitive(Larger(S), SUBSET S)
    BY DEF Transitive, Larger
  <1> QED
    BY <1>1, <1>2 DEF Founded

\* A finite set of numbers has a least one.
LEMMA LeastExists ==
  ASSUME NEW S, S \subseteq Nat, IsFiniteSet(S), S # {}
  PROVE  \E x \in S : \A y \in S : x <= y
  <1> DEFINE Below(x) == {y \in S : y <= x}
             Family == {Below(x) : x \in S}
  <1>1. \A v \in S : v \in Nat
    OBVIOUS
  <1>2. PICK T \in Family : \A U \in Family : <<U, T>> \notin StrictSubsetOrdering(S)
    <2>1. Family \in SUBSET SUBSET S /\ Family # {}
      OBVIOUS
    <2> HIDE DEF Family
    <2> QED
      BY <2>1, SubsetsFounded DEF Founded
  <1>3. PICK x \in S : T = Below(x)
    BY <1>2
  <1>4. ASSUME NEW y \in S, y < x PROVE FALSE
    <2>1. x \in Nat /\ y \in Nat /\ x <= x /\ ~(x <= y)
      BY <1>1, <1>4
    <2>2. \A v \in S : v <= y => v <= x
      BY <1>1, <1>4, <2>1
    <2>3. <<Below(y), T>> \in StrictSubsetOrdering(S)
      BY <1>3, <2>1, <2>2 DEF StrictSubsetOrdering
    <2> QED
      BY <1>2, <2>3
  <1> QED
    BY <1>1, <1>4

-----------------------------------------------------------------------------
(* Sums over finite sets *)

\* The sum that MapThenSumSet takes, element by element, without its element.
Pick(s) == CHOOSE x \in s : TRUE
Rest(s) == s \ {Pick(s)}
Added(f, g, s) == IF s = {} THEN 0 ELSE f[Pick(s)] + g[Rest(s)]
Sums(f, S) == CHOOSE g : g = [s \in SUBSET S |-> Added(f, g, s)]
Total(f, S) == Sums(f, S)[S]

LEMMA RestIsLess ==
  ASSUME NEW S, NEW s \in SUBSET S, s # {}
  PROVE  Pick(s) \in s /\ Rest(s) \in SUBSET S /\ <<Rest(s), s>> \in StrictSubsetOrdering(S)
  <1>1. Pick(s) \in s
    BY DEF Pick
  <1> QED
    BY <1>1 DEF Rest, StrictSubsetOrdering

LEMMA SumsByElement ==
  ASSUME NEW S, IsFiniteSet(S), NEW f, \A x \in S : f[x] \in Int, NEW s \in SUBSET S
  PROVE  Sums(f, S)[s] = Added(f, Sums(f, S), s)
  <1> DEFINE I == SUBSET S
             R == StrictSubsetOrdering(S)
             D == [u \in I |-> [g \in [I -> Int] |-> Added(f, g, u)]]
  <1>1. D \in [I -> [[I -> Int] -> Int]]
    <2>1. ASSUME NEW u \in I, NEW g \in [I -> Int] PROVE Added(f, g, u) \in Int
      <3>1. CASE u = {}
        BY <3>1 DEF Added
      <3>2. CASE u # {}
        <4>1. Pick(u) \in S /\ Rest(u) \in I
          BY <3>2, RestIsLess
        <4> QED
          BY <3>2, <4>1 DEF Added
      <3> QED
        BY <3>1, <3>2
    <2> HIDE DEF I
    <2> QED
      BY <2>1
  <1>2. Local(D, R, I, Int)
    <2> SUFFICES ASSUME NEW u \in I, NEW g \in [I -> Int], NEW h \in [I -> Int],
                        \A y \in I : <<y, u>> \in R => g[y] = h[y]
                 PROVE  Added(f, g, u) = Added(f, h, u)
      <3> HIDE DEF I, R
      <3> QED
        BY DEF Local
    <2> QED
      BY RestIsLess DEF Added
  <1>3. Founded(R, I) /\ Transitive(R, I) /\ Determines(D, I, Int)
    <2>1. Founded(R, I) /\ Transitive(R, I)
      BY SubsetsFounded
    <2>2. Int # {}
      <3>1. 0 \in Int
        OBVIOUS
      <3> QED
        BY <3>1, Zenon
    <2> HIDE DEF I, R, D
    <2> QED
      BY <1>1, <2>1, <2>2, Zenon DEF Determines
  <1>4. PICK g \in [I -> Int] : \A u \in I : g[u] = Added(f, g, u)
    <2>1. \E g : Solution(g, D, I, Int)
      <3> HIDE DEF I, R, D
      <3> QED
        BY <1>2, <1>3, RecursionDefines
    <2> HIDE DEF I
    <2> QED
      BY <2>1 DEF Solution
  <1>5. g = [u \in I |-> Added(f, g, u)]
    <2> HIDE DEF I
    <2> QED
      BY <1>4
  <1>6. Sums(f, S) = [u \in I |-> Added(f, Sums(f, S), u)]
    BY <1>5 DEF Sums
  <1> QED
    BY <1>6

\* One number grows, the sum grows with it.
Grows(f, g, S, x, n) ==
    /\ f \in [S -> Int] /\ x \in S /\ n \in Int
    /\ g = [f EXCEPT ![x] = f[x] + n]

LEMMA TotalGrows ==
  ASSUME NEW S, IsFiniteSet(S), NEW f, NEW g, NEW x, NEW n, Grows(f, g, S, x, n)
  PROVE  Total(f, S) \in Int /\ Total(g, S) = Total(f, S) + n
  <1>0. /\ f \in [S -> Int] /\ x \in S /\ n \in Int
        /\ g = [f EXCEPT ![x] = f[x] + n] /\ g \in [S -> Int]
    BY DEF Grows
  <1> DEFINE More(s) == IF x \in s THEN n ELSE 0
             Right(s) == Sums(f, S)[s] \in Int /\ Sums(g, S)[s] = Sums(f, S)[s] + More(s)
             F == {s \in SUBSET S : ~Right(s)}
  <1>1. ASSUME NEW s \in SUBSET S
        PROVE  /\ Sums(f, S)[s] = Added(f, Sums(f, S), s)
               /\ Sums(g, S)[s] = Added(g, Sums(g, S), s)
    <2> (\A y \in S : f[y] \in Int) /\ (\A y \in S : g[y] \in Int)
      BY <1>0
    <2> QED
      BY SumsByElement
  <1>2. ASSUME F # {} PROVE FALSE
    <2>1. PICK s \in F : \A u \in F : <<u, s>> \notin StrictSubsetOrdering(S)
      <3> HIDE DEF Right
      <3>1. F \subseteq SUBSET S
        OBVIOUS
      <3> HIDE DEF F
      <3>2. F \in SUBSET SUBSET S
        BY <3>1
      <3> QED
        BY <1>2, <3>2, SubsetsFounded DEF Founded
    <2>2. /\ Sums(f, S)[s] = Added(f, Sums(f, S), s)
          /\ Sums(g, S)[s] = Added(g, Sums(g, S), s)
      <3>1. s \in SUBSET S
        OBVIOUS
      <3> HIDE DEF F
      <3> QED
        BY <3>1, <1>1
    <2>3. CASE s = {}
      BY <1>0, <2>2, <2>3 DEF Added
    <2>4. CASE s # {}
      <3>1. Pick(s) \in s /\ Pick(s) \in S /\ Rest(s) \in SUBSET S /\ Right(Rest(s))
        BY <2>1, <2>4, RestIsLess
      <3>2. /\ Sums(f, S)[s] = f[Pick(s)] + Sums(f, S)[Rest(s)]
            /\ Sums(g, S)[s] = g[Pick(s)] + Sums(g, S)[Rest(s)]
        BY <2>2, <2>4 DEF Added
      <3>3. g[Pick(s)] = f[Pick(s)] + (IF Pick(s) = x THEN n ELSE 0) /\ f[Pick(s)] \in Int
        BY <1>0, <3>1
      <3>4. x \in Rest(s) <=> x \in s /\ Pick(s) # x
        BY DEF Rest
      <3>5. Right(s)
        BY <1>0, <3>1, <3>2, <3>3, <3>4
      <3> QED
        BY <3>5
    <2> QED
      BY <2>3, <2>4
  <1>3. Right(S)
    BY <1>2
  <1> QED
    BY <1>0, <1>3 DEF Total

LEMMA TotalIsInt ==
  ASSUME NEW S, IsFiniteSet(S), NEW f, \A x \in S : f[x] \in Int
  PROVE  Total(f, S) \in Int /\ (S = {} => Total(f, S) = 0)
  <1> DEFINE F == {s \in SUBSET S : Sums(f, S)[s] \notin Int}
  <1>0. \A s \in SUBSET S : Sums(f, S)[s] = Added(f, Sums(f, S), s)
    BY SumsByElement
  <1>1. ASSUME F # {} PROVE FALSE
    <2>1. PICK s \in F : \A u \in F : <<u, s>> \notin StrictSubsetOrdering(S)
      <3>1. F \in SUBSET SUBSET S
        OBVIOUS
      <3> HIDE DEF F
      <3> QED
        BY <1>1, <3>1, SubsetsFounded DEF Founded
    <2>2. Sums(f, S)[s] = Added(f, Sums(f, S), s)
      BY <1>0
    <2>3. s # {} => Pick(s) \in S /\ Sums(f, S)[Rest(s)] \in Int
      BY <2>1, RestIsLess
    <2>4. s # {} => f[Pick(s)] \in Int
      BY <2>3
    <2> QED
      BY <2>2, <2>3, <2>4 DEF Added
  <1>2. Sums(f, S)[S] \in Int
    BY <1>1
  <1>3. S = {} => Sums(f, S)[S] = 0
    BY <1>0 DEF Added
  <1> QED
    BY <1>2, <1>3 DEF Total

LEMMA TotalOfNothing ==
  ASSUME NEW S, IsFiniteSet(S), NEW f \in [S -> Int], \A x \in S : f[x] = 0
  PROVE  Total(f, S) = 0
  <1> DEFINE F == {s \in SUBSET S : Sums(f, S)[s] # 0}
  <1>1. ASSUME F # {} PROVE FALSE
    <2>1. PICK s \in F : \A u \in F : <<u, s>> \notin StrictSubsetOrdering(S)
      <3>1. F \in SUBSET SUBSET S
        OBVIOUS
      <3> HIDE DEF F
      <3> QED
        BY <1>1, <3>1, SubsetsFounded DEF Founded
    <2>2. Sums(f, S)[s] = Added(f, Sums(f, S), s)
      BY SumsByElement
    <2>3. s # {} => Pick(s) \in S /\ Sums(f, S)[Rest(s)] = 0
      BY <2>1, RestIsLess
    <2> QED
      BY <2>2, <2>3 DEF Added
  <1> QED
    BY <1>1 DEF Total

-----------------------------------------------------------------------------
(* Sorting: how many come before a member tells its place *)

TotalOrder(S, R) ==
    /\ \A i \in S : <<i, i>> \notin R
    /\ \A i, j \in S : i # j => <<i, j>> \in R \/ <<j, i>> \in R
    /\ \A i, j, k \in S : <<i, j>> \in R /\ <<j, k>> \in R => <<i, k>> \in R
InOrderOf(s, S, R) ==
    \A k, l \in 1 .. Cardinality(S) : k < l => <<s[k], s[l]>> \in R

\* The sequences that have each member of a set once.
Listings(S) ==
    {s \in [1 .. Cardinality(S) -> S] : \A k, l \in 1 .. Cardinality(S) : k # l => s[k] # s[l]}

LEMMA OrderExists ==
  ASSUME NEW S, IsFiniteSet(S), NEW R, TotalOrder(S, R)
  PROVE  \E s \in Listings(S) : InOrderOf(s, S, R)
  <1> DEFINE Below(i) == {j \in S : <<j, i>> \in R}
             rank(i) == Cardinality(Below(i)) + 1
             n == Cardinality(S)
             r == [i \in S |-> rank(i)]
  <1>1. n \in Nat /\ IsFiniteSet(1 .. n) /\ Cardinality(1 .. n) = n
    <2>1. n \in Nat
      BY FS_CardinalityType
    <2> QED
      BY <2>1, FS_Interval
  <1>2. ASSUME NEW i \in S PROVE rank(i) \in 1 .. n /\ IsFiniteSet(Below(i))
    <2>1. Below(i) \in SUBSET S /\ Below(i) # S
      BY DEF TotalOrder
    <2> HIDE DEF Below
    <2>2. IsFiniteSet(Below(i)) /\ Cardinality(Below(i)) <= n /\ Cardinality(Below(i)) # n
      BY <2>1, FS_Subset
    <2>3. Cardinality(Below(i)) \in Nat
      BY <2>2, FS_CardinalityType
    <2> QED
      BY <1>1, <2>2, <2>3
  <1>3. ASSUME NEW i \in S, NEW j \in S, <<i, j>> \in R PROVE rank(i) < rank(j)
    <2>1. Below(i) \in SUBSET Below(j) /\ Below(i) # Below(j)
      BY <1>3 DEF TotalOrder
    <2>2. IsFiniteSet(Below(i)) /\ IsFiniteSet(Below(j))
      BY <1>2
    <2> HIDE DEF Below
    <2>3. /\ Cardinality(Below(i)) <= Cardinality(Below(j))
          /\ Cardinality(Below(i)) # Cardinality(Below(j))
      BY <2>1, <2>2, FS_Subset
    <2>4. Cardinality(Below(i)) \in Nat /\ Cardinality(Below(j)) \in Nat
      BY <2>2, FS_CardinalityType
    <2> QED
      BY <2>3, <2>4
  <1>4. r \in [S -> 1 .. n] /\ \A i \in S : r[i] = rank(i)
    BY <1>2
  <1> HIDE DEF rank, n
  <1>5. \A i, j \in S : r[i] = r[j] => i = j
    <2> SUFFICES ASSUME NEW i \in S, NEW j \in S, r[i] = r[j], i # j PROVE FALSE
      OBVIOUS
    <2>1. rank(i) \in Nat /\ rank(j) \in Nat /\ rank(i) = rank(j)
      BY <1>1, <1>2, <1>4
    <2>2. rank(i) < rank(j) \/ rank(j) < rank(i)
      BY <1>3 DEF TotalOrder
    <2> QED
      BY <2>1, <2>2
  <1> HIDE DEF r
  <1>6. r \in Surjection(S, 1 .. n)
    <2>1. r \in Injection(S, 1 .. n)
      BY <1>4, <1>5 DEF Injection, IsInjective
    <2> QED
      BY <1>1, <2>1, FS_Injection DEF n
  <1> DEFINE s == [k \in 1 .. n |-> CHOOSE i \in S : r[i] = k]
  <1>7. \A k \in 1 .. n : s[k] \in S /\ r[s[k]] = k
    BY <1>6 DEF Surjection
  <1>8. s \in [1 .. n -> S]
    BY <1>7
  <1> HIDE DEF s
  <1>9. s \in Listings(S)
    BY <1>7, <1>8 DEF Listings, n
  <1>10. ASSUME NEW k \in 1 .. n, NEW l \in 1 .. n, k < l PROVE <<s[k], s[l]>> \in R
    <2>1. s[k] \in S /\ s[l] \in S /\ r[s[k]] = k /\ r[s[l]] = l /\ s[k] # s[l]
      BY <1>7, <1>10
    <2>2. rank(s[k]) = k /\ rank(s[l]) = l
      BY <1>4, <2>1
    <2>3. ~(rank(s[l]) < rank(s[k]))
      BY <1>1, <1>10, <2>2
    <2> QED
      BY <1>3, <2>1, <2>3 DEF TotalOrder
  <1> QED
    BY <1>9, <1>10 DEF InOrderOf, n

\* A sequence of the members of a set has each of them once.
LEMMA ListingsAre ==
  ASSUME NEW S, IsFiniteSet(S), NEW s \in Listings(S)
  PROVE  /\ s \in Seq(S) /\ Len(s) = Cardinality(S) /\ DOMAIN s = 1 .. Cardinality(S)
         /\ \A k, l \in DOMAIN s : s[k] = s[l] => k = l
         /\ Range(s) = S /\ Cardinality(S) \in Nat
  <1> DEFINE n == Cardinality(S)
  <1>1. n \in Nat /\ IsFiniteSet(1 .. n) /\ Cardinality(1 .. n) = n
    <2>1. n \in Nat
      BY FS_CardinalityType
    <2> QED
      BY <2>1, FS_Interval
  <1>2. s \in [1 .. n -> S] /\ \A k, l \in 1 .. n : k # l => s[k] # s[l]
    BY DEF Listings
  <1> HIDE DEF n
  <1>3. s \in Seq(S) /\ Len(s) = n /\ DOMAIN s = 1 .. n
    BY <1>1, <1>2
  <1>4. s \in Surjection(1 .. n, S)
    <2>1. s \in Injection(1 .. n, S)
      BY <1>2 DEF Injection, IsInjective
    <2> QED
      BY <1>1, <2>1, FS_Injection DEF n
  <1>5. Range(s) = S
    BY <1>2, <1>4 DEF Range, Surjection
  <1> QED
    BY <1>1, <1>2, <1>3, <1>5 DEF n
================================================================================
