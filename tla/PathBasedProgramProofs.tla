------------------------ MODULE PathBasedProgramProofs ------------------------
(***************************************************************************)
(* For all networks and all dual values: the center gives a bound on every *)
(* cover, no path gets two variables, and the path-based program never     *)
(* has to give up its stabilisation; the bounds given to SCIP are bounds,  *)
(* nothing worth having is left when pricing ends, and solutions are tours. *)
(***************************************************************************)
EXTENDS PathBasedProgram, FiniteSetTheorems, WellFoundedInduction, TLAPS

\* A finite set of paths has one of least value.
LEMMA CheapestExists ==
  ASSUME NEW S, IsFiniteSet(S), S # {}, NEW f \in [S -> Int]
  PROVE  \E x \in S : \A y \in S : f[x] <= f[y]
<1> DEFINE Lacks(A) == ~ \E x \in A : \A y \in A : f[x] <= f[y]
           T == {A \in SUBSET S : A # {} /\ Lacks(A)}
<1> SUFFICES ASSUME T # {} PROVE FALSE
  BY S \in SUBSET S
<1>1. IsWellFoundedOn(StrictSubsetOrdering(S), SUBSET S)
  BY FS_StrictSubsetOrderingWellFounded, FS_FiniteSubsetsOfFinite
<1>2. PICK A \in T : \A B \in T : ~ (<<B, A>> \in StrictSubsetOrdering(S))
  <2>1. T \subseteq SUBSET S  OBVIOUS
  <2> HIDE DEF T
  <2> QED BY <1>1, <2>1, WFMin
<1>3. PICK a \in A : TRUE  OBVIOUS
<1> DEFINE B == A \ {a}
<1>4. B \notin T
  <2>1. B \in SUBSET S /\ B \subseteq A /\ B # A  BY <1>3
  <2> QED BY <1>2, <2>1 DEF StrictSubsetOrdering
<1>5. CASE B = {}
  <2>1. A = {a}  BY <1>3, <1>5
  <2>2. \A y \in A : f[a] <= f[y]  BY <2>1, <1>3
  <2> QED BY <2>2, <1>3
<1>6. CASE B # {}
  <2>1. PICK b \in B : \A y \in B : f[b] <= f[y]
    BY <1>4, <1>6
  <2>2. f[a] \in Int /\ \A y \in A : f[y] \in Int /\ (y = a \/ y \in B)
    BY <1>3
  <2>3. CASE f[a] <= f[b]
    <3>1. \A y \in A : f[a] <= f[y]  BY <2>1, <2>2, <2>3
    <3> QED BY <3>1, <1>3
  <2>4. CASE ~ (f[a] <= f[b])
    <3>1. \A y \in A : f[b] <= f[y]  BY <2>1, <2>2, <2>4
    <3> QED BY <3>1, <2>1
  <2> QED BY <2>3, <2>4
<1> QED BY <1>5, <1>6

\* MinCost is at most zero and at most every reduced cost.
LEMMA MinCostBounds ==
  ASSUME NEW rc \in [Paths -> Int], NEW paths \in SUBSET Paths
  PROVE  /\ MinCost(rc, paths) \in Int
         /\ MinCost(rc, paths) <= 0
         /\ \A p \in paths : MinCost(rc, paths) <= rc[p]
         /\ MinCost(rc, paths) = 0 \/ \E p \in paths : MinCost(rc, paths) = rc[p]
<1> DEFINE values == {0} \cup {rc[p] : p \in paths}
<1>1. \E x \in values : \A y \in values : x <= y
  <2>1. CASE paths = {}
    <3>1. values = {0}  BY <2>1
    <3> QED BY <3>1
  <2>2. CASE paths # {}
    <3> DEFINE f == [p \in paths |-> rc[p]]
    <3>1. f \in [paths -> Int]  OBVIOUS
    <3>2. IsFiniteSet(paths)  BY FS_Subset, PathsAssumption
    <3>3. PICK q \in paths : \A p \in paths : f[q] <= f[p]
      <4> HIDE DEF f
      <4> QED BY <2>2, <3>1, <3>2, CheapestExists
    <3>4. \A p \in paths : rc[q] <= rc[p]  BY <3>3
    <3>5. rc[q] \in Int  BY <3>3
    <3>6. CASE rc[q] <= 0
      BY <3>4, <3>5, <3>6
    <3>7. CASE ~ (rc[q] <= 0)
      <4>1. \A p \in paths : rc[p] \in Int /\ 0 <= rc[p]  BY <3>4, <3>5, <3>7
      <4> QED BY <4>1
    <3> QED BY <3>6, <3>7
  <2> QED BY <2>1, <2>2
<1>2. Min(values) \in values /\ \A y \in values : Min(values) <= y
  <2> HIDE DEF values
  <2> QED BY <1>1 DEF Min
<1>3. MinCost(rc, paths) = Min(values)  BY DEF MinCost
<1>4. Min(values) = 0 \/ \E p \in paths : Min(values) = rc[p]
  BY <1>2
<1>5. Min(values) \in Int /\ Min(values) <= 0 /\ \A p \in paths : Min(values) <= rc[p]
  <2>1. 0 \in values /\ \A p \in paths : rc[p] \in values  OBVIOUS
  <2>2. values \subseteq Int  OBVIOUS
  <2> HIDE DEF values
  <2> QED BY <1>2, <2>1, <2>2
<1> HIDE DEF values
<1> QED BY <1>3, <1>4, <1>5

-----------------------------------------------------------------------------
\* Division rounds down.
LEMMA DivisionRoundsDown ==
  ASSUME NEW x \in Int, NEW k \in Nat \ {0}
  PROVE  /\ x \div k \in Int
         /\ k * (x \div k) <= x
         /\ x < k * (x \div k) + k
  OBVIOUS

LEMMA Cancel ==
  ASSUME NEW x \in Int, NEW y \in Int, NEW k \in Nat \ {0}, k * x <= k * y
  PROVE  x <= y
  OBVIOUS

\* A number between two, k times.
LEMMA BetweenBounds ==
  ASSUME NEW x \in Int, NEW y \in Int
  PROVE  /\ Between(x, y) \in Int
         /\ Explore * Between(x, y) <= x + (Explore - 1) * y
         /\ x + (Explore - 1) * y < Explore * Between(x, y) + Explore
<1>1. Explore \in Nat \ {0}  BY NumbersAssumption
<1>2. x + (Explore - 1) * y \in Int  BY <1>1
<1> QED BY <1>1, <1>2, DivisionRoundsDown DEF Between

\* What values no cover above its cost at two points does so between them.
LEMMA BetweenIsFeasible ==
  ASSUME NEW v \in Int,
         NEW o \in Int, NEW a \in Int, NEW b \in Int, 2 * o + a + b <= v,
         NEW p \in Int, NEW c \in Int, NEW d \in Int, 2 * p + c + d <= v
  PROVE  2 * Between(o, p) + Between(a, c) + Between(b, d) <= v
<1> DEFINE k == Explore
           x == Between(o, p)
           y == Between(a, c)
           z == Between(b, d)
<1>1. k \in Nat \ {0}  BY NumbersAssumption
<1>2. /\ x \in Int /\ k * x <= o + (k - 1) * p
      /\ y \in Int /\ k * y <= a + (k - 1) * c
      /\ z \in Int /\ k * z <= b + (k - 1) * d
  BY BetweenBounds
<1> HIDE DEF k, x, y, z
<1>3. (k - 1) * (2 * p + c + d) <= (k - 1) * v
  BY <1>1
<1>4. k * (2 * x + y + z) <= k * v
  <2>1. k * (2 * x + y + z) = 2 * (k * x) + k * y + k * z  BY <1>1, <1>2
  <2>2. (k - 1) * (2 * p + c + d) = 2 * ((k - 1) * p) + (k - 1) * c + (k - 1) * d  BY <1>1
  <2>3. (k - 1) * v = k * v - v  BY <1>1
  <2> QED BY <1>1, <1>2, <1>3, <2>1, <2>2, <2>3
<1>5. 2 * x + y + z <= v
  BY <1>1, <1>2, <1>4, Cancel
<1> QED BY <1>5 DEF x, y, z

-----------------------------------------------------------------------------
Phases == {"solve", "farkas", "redcost", "optimal", "infeasible"}

Point == [offset : Int, rc : [Paths -> Int]]

StateTypeOK ==
  /\ settings \in Settings
  /\ variables \in [Paths -> Nat]
  /\ node \in Nodes
  /\ phase \in Phases
  /\ current \in Point
  /\ center \in [offset : Int, rc : [Paths -> Int], lagrangianBound : Int]
  /\ halvings \in Nat /\ proveDirectly \in BOOLEAN

\* No cover is valued above its cost.
Feasible(point, n) ==
  \A w \in CoversAt(n) : 2 * point.offset + point.rc[w[1]] + point.rc[w[2]] <= Value(w)

\* Reduced costs of columns are not negative, but those the sparse program hides.
ColumnsArePriced ==
  \/ phase = "farkas" /\ \A p \in Columns : current.rc[p] >= 0
  \/ phase = "redcost" /\ ((settings.sparse /\ hasFixedEdges) \/ \A p \in Columns : current.rc[p] >= 0)
  \/ phase \notin {"farkas", "redcost"}

IInv ==
  /\ StateTypeOK
  /\ NoDuplicates
  /\ ColumnsArePriced
  /\ phase = "redcost" => Feasible(current, node)
  /\ Feasible(center, Unfixed)
  /\ center.lagrangianBound <= center.offset + MinCost(center.rc, Class)
  /\ ~ proveDirectly

LEMMA CoversArePairs ==
  ASSUME NEW n, NEW w \in CoversAt(n)
  PROVE  w[1] \in Paths /\ w[2] \in Paths /\ Value(w) \in Int
BY PathsAssumption DEF CoversAt, Covers, Value

\* A center whose bound is that of its point is a bound on every cover.
LEMMA CenterGivesBound ==
  ASSUME IInv
  PROVE  CenterIsValid
<1> SUFFICES ASSUME NEW w \in CoversAt(Unfixed), {w[1], w[2]} \subseteq Class
             PROVE  2 * center.lagrangianBound <= Value(w)
  BY DEF CenterIsValid
<1> DEFINE m == MinCost(center.rc, Class)
<1>1. center.rc \in [Paths -> Int] /\ center.offset \in Int /\ center.lagrangianBound \in Int
  BY DEF IInv, StateTypeOK
<1>2. m \in Int /\ m <= center.rc[w[1]] /\ m <= center.rc[w[2]]
  BY <1>1, MinCostBounds, PathsAssumption
<1>3. Value(w) \in Int /\ center.rc[w[1]] \in Int /\ center.rc[w[2]] \in Int
  BY <1>1, CoversArePairs
<1>4. 2 * center.offset + center.rc[w[1]] + center.rc[w[2]] <= Value(w)
  BY DEF IInv, Feasible
<1>5. center.lagrangianBound <= center.offset + m
  BY DEF IInv
<1> QED BY <1>1, <1>2, <1>3, <1>4, <1>5

\* What addTimedPaths leaves alone, when it is given no columns.
LEMMA AddingKeepsTypes ==
  ASSUME StateTypeOK, NoDuplicates, NEW paths \in SUBSET Paths, AddTimedPaths(paths),
         settings.sparse \/ \A p \in paths : variables[p] = 0
  PROVE  /\ variables' \in [Paths -> Nat] /\ NoDuplicates'
         /\ phase' \in Phases \ {"farkas", "redcost"}
         /\ current' \in Point
<1>1. variables' \in [Paths -> Nat] /\ \A p \in Paths : variables'[p] <= 1
  <2>1. CASE settings.sparse
    <3>1. variables' = [p \in Paths |-> IF p \in Recombined(Columns \cup paths) THEN 1 ELSE 0]
      BY <2>1 DEF AddTimedPaths
    <3> QED BY <3>1
  <2>2. CASE ~ settings.sparse
    <3>1. variables' = [p \in Paths |-> IF p \in paths THEN variables[p] + 1 ELSE variables[p]]
      BY <2>2 DEF AddTimedPaths
    <3>2. \A p \in paths : variables[p] = 0  BY <2>2
    <3> QED BY <3>1, <3>2 DEF StateTypeOK, NoDuplicates
  <2> QED BY <2>1, <2>2
<1>2. phase' \in Phases \ {"farkas", "redcost"}
  BY DEF AddTimedPaths, Phases
<1>3. Unsolved \in Point
  BY PathsAssumption DEF Unsolved, Point
<1>4. current' \in Point
  BY <1>3 DEF AddTimedPaths, StateTypeOK
<1> QED BY <1>1, <1>2, <1>4 DEF NoDuplicates

\* Paths that are found under SCIP's dual values are no columns.
LEMMA FoundAreNew ==
  ASSUME IInv, phase \in {"farkas", "redcost"}, NEW paths \in SUBSET Paths,
         \A p \in paths : current.rc[p] < 0
  PROVE  settings.sparse \/ \A p \in paths : variables[p] = 0
<1>1. current.rc \in [Paths -> Int] /\ variables \in [Paths -> Nat]
  BY DEF IInv, StateTypeOK, Point
<1>2. settings.sparse \/ \A p \in Columns : current.rc[p] >= 0
  BY DEF IInv, ColumnsArePriced
<1> QED BY <1>1, <1>2 DEF Columns

\* What SCIP's dual values are.
LEMMA DualPointsAreFeasible ==
  ASSUME StateTypeOK, CoversBy(Columns, node) # {}, NEW d \in DualPoints(Columns, node)
  PROVE  /\ d \in Point /\ Feasible(d, node)
         /\ (settings.sparse /\ hasFixedEdges) \/ \A p \in Columns : d.rc[p] >= 0
<1> DEFINE S == CoversBy(Columns, node)
           optimal == Min({Value(w) : w \in S})
<1>1. S \subseteq CoversAt(node)  BY DEF CoversBy
<1>2. optimal \in Int
  <2> DEFINE f == [w \in S |-> Value(w)]
  <2>1. f \in [S -> Int]  BY <1>1, CoversArePairs
  <2>2. IsFiniteSet(S)
    <3>1. IsFiniteSet(Paths \X Paths)  BY FS_Product, PathsAssumption
    <3>2. S \subseteq Paths \X Paths  BY DEF CoversBy, CoversAt, Covers
    <3> QED BY <3>1, <3>2, FS_Subset
  <2>3. PICK x \in S : \A y \in S : f[x] <= f[y]
    <3> HIDE DEF f, S
    <3> QED BY <2>1, <2>2, CheapestExists DEF S
  <2> DEFINE values == {Value(w) : w \in S}
  <2>4. values \subseteq Int  BY <1>1, CoversArePairs
  <2>5. Value(x) \in values /\ \A y \in values : Value(x) <= y  BY <2>3
  <2>6. Min(values) \in values
    <3> HIDE DEF values
    <3> QED BY <2>5 DEF Min
  <2> QED BY <2>4, <2>6
<1>3. optimal \div 2 \in Int
  <2> HIDE DEF optimal
  <2> QED BY <1>2
<1>4. /\ d = [offset |-> d.offset, rc |-> d.rc]
      /\ d.offset = optimal \div 2
      /\ d.rc \in [Paths -> UNION {ReducedCosts[p] : p \in Paths}]
  BY DEF DualPoints
<1>5. UNION {ReducedCosts[p] : p \in Paths} \subseteq Int
  BY PathsAssumption
<1>6. d \in Point
  <2>1. d.rc \in [Paths -> Int]  BY <1>4, <1>5
  <2>2. d.offset \in Int  BY <1>3, <1>4
  <2> QED BY <1>4, <2>1, <2>2 DEF Point
<1>7. Feasible(d, node)
  BY DEF DualPoints, Feasible
<1>8. (settings.sparse /\ hasFixedEdges) \/ \A p \in Columns : d.rc[p] >= 0
  BY DEF DualPoints, Columns
<1> QED BY <1>6, <1>7, <1>8

LEMMA FarkasPointsAreTyped ==
  ASSUME NEW d \in FarkasPoints(Columns, node)
  PROVE  d \in Point /\ \A p \in Columns : d.rc[p] >= 0
<1>1. d \in [offset : {0}, rc : [Paths -> {-1, 0}]] /\ \A p \in Columns : d.rc[p] = 0
  BY DEF FarkasPoints
<1> QED BY <1>1 DEF Point, Columns

\* Where the center may move nothing is fixed.
LEMMA NothingIsFixed ==
  ASSUME StateTypeOK, ~ Plain
  PROVE  node = Unfixed
<1>1. node.forbidden = {} /\ node.required = {}
  BY DEF Plain, hasFixedEdges
<1>2. node = [forbidden |-> node.forbidden, required |-> node.required]
  BY PathsAssumption DEF StateTypeOK
<1> QED BY <1>1, <1>2 DEF Unfixed

\* The center that a pass moves to.
LEMMA MovedIsSound ==
  ASSUME IInv, phase = "redcost", ~ Plain
  PROVE  /\ Moved \in [offset : Int, rc : [Paths -> Int], lagrangianBound : Int]
         /\ Feasible(Moved, Unfixed)
         /\ Moved.lagrangianBound <= Moved.offset + MinCost(Moved.rc, Class)
         /\ StabilizedRC \in [Paths -> Int] /\ StabilizedOffset \in Int /\ StabilizedBound \in Int
<1>1. /\ current.offset \in Int /\ current.rc \in [Paths -> Int]
      /\ center.offset \in Int /\ center.rc \in [Paths -> Int] /\ center.lagrangianBound \in Int
  BY DEF IInv, StateTypeOK, Point
<1>2. StabilizedRC \in [Paths -> Int] /\ StabilizedOffset \in Int
  BY <1>1, BetweenBounds DEF StabilizedRC, StabilizedOffset
<1>3. StabilizedBound \in Int
  <2>1. MinCost(StabilizedRC, Class) \in Int  BY <1>2, MinCostBounds, PathsAssumption
  <2> QED BY <1>2, <2>1 DEF StabilizedBound
<1>4. \A w \in CoversAt(Unfixed) :
        2 * StabilizedOffset + StabilizedRC[w[1]] + StabilizedRC[w[2]] <= Value(w)
  <2> TAKE w \in CoversAt(Unfixed)
  <2>1. w[1] \in Paths /\ w[2] \in Paths /\ Value(w) \in Int  BY CoversArePairs
  <2>2. 2 * current.offset + current.rc[w[1]] + current.rc[w[2]] <= Value(w)
    BY NothingIsFixed DEF IInv, Feasible
  <2>3. 2 * center.offset + center.rc[w[1]] + center.rc[w[2]] <= Value(w)
    BY DEF IInv, Feasible
  <2>4. /\ StabilizedRC[w[1]] = Between(current.rc[w[1]], center.rc[w[1]])
        /\ StabilizedRC[w[2]] = Between(current.rc[w[2]], center.rc[w[2]])
    BY <2>1 DEF StabilizedRC
  <2>5. /\ current.rc[w[1]] \in Int /\ current.rc[w[2]] \in Int
        /\ center.rc[w[1]] \in Int /\ center.rc[w[2]] \in Int
    BY <1>1, <2>1
  <2> QED BY <1>1, <2>1, <2>2, <2>3, <2>4, <2>5, BetweenIsFeasible DEF StabilizedOffset
<1>5. CASE Improved
  <2>1. Moved = [offset |-> StabilizedOffset, rc |-> StabilizedRC, lagrangianBound |-> StabilizedBound]
    BY <1>5 DEF Moved
  <2>2. StabilizedBound <= StabilizedOffset + MinCost(StabilizedRC, Class)
    BY <1>3 DEF StabilizedBound
  <2> QED BY <1>2, <1>3, <1>4, <2>1, <2>2 DEF Feasible
<1>6. CASE ~ Improved
  BY <1>2, <1>3, <1>6 DEF Moved, IInv, StateTypeOK
<1> QED BY <1>5, <1>6

\* A value x below SCIP's by more than the threshold allows, y under the center: the
\* sum between is above the bound.
LEMMA GapIsClosed ==
  ASSUME NEW o \in Int, NEW p \in Int, NEW x \in Int, NEW y \in Int, NEW bound \in Int,
         o > bound + Threshold, x >= -Eps, p + y >= bound
  PROVE  Between(o, p) + Between(x, y) > bound + Eps
<1> DEFINE k == Explore
           a == Between(o, p)
           b == Between(x, y)
<1>1. k \in Nat \ {0} /\ Eps \in Nat /\ Threshold \in Nat /\ k * (Eps + 2) + Eps <= Threshold
  BY NumbersAssumption
<1>2. /\ a \in Int /\ o + (k - 1) * p < k * a + k
      /\ b \in Int /\ x + (k - 1) * y < k * b + k
  BY BetweenBounds
<1> HIDE DEF k, a, b
<1>3. (k - 1) * bound <= (k - 1) * (p + y)  BY <1>1
<1>4. (k - 1) * (p + y) = (k - 1) * p + (k - 1) * y  BY <1>1
<1>5. (k - 1) * bound = k * bound - bound  BY <1>1
<1>6. k * (Eps + 2) = k * Eps + 2 * k  BY <1>1
<1>7. k * bound + k * Eps < k * a + k * b
  BY <1>1, <1>2, <1>3, <1>4, <1>5, <1>6
<1>8. ~ (a + b <= bound + Eps)
  <2> SUFFICES ASSUME a + b <= bound + Eps PROVE FALSE
    OBVIOUS
  <2>1. k * (a + b) <= k * (bound + Eps)  BY <1>1, <1>2
  <2>2. k * (a + b) = k * a + k * b /\ k * (bound + Eps) = k * bound + k * Eps  BY <1>1, <1>2
  <2> QED BY <1>1, <1>2, <1>7, <2>1, <2>2
<1>9. a + b > bound + Eps  BY <1>1, <1>2, <1>8
<1> QED BY <1>9 DEF a, b

\* A misprice moves the center of the path-based program: what is cheapest between the
\* dual values is of no use under SCIP's, so the bound is close to SCIP's value.
LEMMA MispriceImproves ==
  ASSUME IInv, phase = "redcost", ~ Plain, ~ settings.sparse, ~ CutOff,
         NEW paths \in FindPaths(StabilizedRC, Class), CurrentPaths(paths) = {}
  PROVE  Improved
<1> SUFFICES ASSUME ~ Improved PROVE FALSE
  OBVIOUS
<1> DEFINE bound == center.lagrangianBound
           m == MinCost(StabilizedRC, Class)
           n == MinCost(center.rc, Class)
<1>1. /\ current.offset \in Int /\ current.rc \in [Paths -> Int]
      /\ center.offset \in Int /\ center.rc \in [Paths -> Int] /\ bound \in Int
      /\ bound <= center.offset + n
  BY DEF IInv, StateTypeOK, Point
<1>2. Threshold \in Nat /\ Eps \in Nat /\ Explore \in Nat \ {0}
  BY NumbersAssumption
<1>3. current.offset > bound + Threshold
  BY <1>1, <1>2 DEF CutOff, Moved
<1>4. /\ StabilizedRC \in [Paths -> Int] /\ StabilizedBound \in Int
      /\ StabilizedBound = Between(current.offset, center.offset) + m
  BY MovedIsSound DEF StabilizedBound, StabilizedOffset
<1>5. n \in Int /\ n <= 0 /\ \A p \in Class : n <= center.rc[p]
  BY <1>1, MinCostBounds, PathsAssumption
<1>6. m \in Int /\ m <= 0 /\ (\A p \in Class : m <= StabilizedRC[p])
      /\ (m = 0 \/ \E p \in Class : m = StabilizedRC[p])
  BY <1>4, MinCostBounds, PathsAssumption
<1>7. m = 0 \/ \E p \in Class : m = StabilizedRC[p] /\ current.rc[p] >= -Eps
  <2>1. CASE Negative(StabilizedRC, Class) = {}
    <3>1. \A p \in Class : StabilizedRC[p] \in Int /\ ~ (StabilizedRC[p] < 0)
      BY <1>4, <2>1, PathsAssumption DEF Negative
    <3> QED BY <1>6, <3>1
  <2>2. CASE Negative(StabilizedRC, Class) # {}
    <3>1. PICK p \in paths : StabilizedRC[p] = m
      BY <2>2 DEF FindPaths
    <3>2. p \in Class  BY DEF FindPaths, Negative
    <3>3. ~ (current.rc[p] < -Eps)  BY DEF CurrentPaths
    <3>4. current.rc[p] \in Int  BY <1>1, <3>2, PathsAssumption
    <3> QED BY <1>2, <3>1, <3>2, <3>3, <3>4
  <2> QED BY <2>1, <2>2
<1>8. StabilizedBound > bound + Eps
  <2>1. CASE m = 0
    <3>1. Between(0, 0) \in Int /\ Between(0, 0) = 0
      <4>1. Between(0, 0) \in Int /\ Explore * Between(0, 0) <= 0 + (Explore - 1) * 0
            /\ 0 + (Explore - 1) * 0 < Explore * Between(0, 0) + Explore
        BY BetweenBounds
      <4>2. (Explore - 1) * 0 = 0  BY <1>2
      <4> DEFINE b == Between(0, 0)
      <4> HIDE DEF b
      <4>3. b \in Int /\ Explore * b <= 0 /\ 0 < Explore * b + Explore
        BY <1>2, <4>1, <4>2 DEF b
      <4>4. ~ (b <= -1)
        <5> SUFFICES ASSUME b <= -1 PROVE FALSE
          OBVIOUS
        <5>1. Explore * b <= Explore * (-1)  BY <1>2, <4>3
        <5> QED BY <1>2, <4>3, <5>1
      <4>5. ~ (b >= 1)
        <5> SUFFICES ASSUME b >= 1 PROVE FALSE
          OBVIOUS
        <5>1. Explore * b >= Explore * 1  BY <1>2, <4>3
        <5> QED BY <1>2, <4>3, <5>1
      <4>6. b = 0  BY <4>3, <4>4, <4>5
      <4> QED BY <4>6 DEF b
    <3>2. center.offset + 0 >= bound /\ 0 >= -Eps  BY <1>1, <1>2, <1>5
    <3>3. Between(current.offset, center.offset) + Between(0, 0) > bound + Eps
      <4> DEFINE o == current.offset
                 p == center.offset
                 zero == 0
      <4>1. /\ o \in Int /\ p \in Int /\ zero \in Int /\ bound \in Int
            /\ o > bound + Threshold /\ zero >= -Eps /\ p + zero >= bound
        BY <1>1, <1>3, <3>2
      <4> HIDE DEF o, p, zero, bound
      <4>2. Between(o, p) + Between(zero, zero) > bound + Eps
        BY <4>1, GapIsClosed
      <4> QED BY <4>2 DEF o, p, zero
    <3>4. Between(current.offset, center.offset) \in Int  BY <1>1, BetweenBounds
    <3> QED BY <1>1, <1>2, <1>4, <2>1, <3>1, <3>3, <3>4
  <2>2. CASE m # 0
    <3>1. PICK p \in Class : m = StabilizedRC[p] /\ current.rc[p] >= -Eps
      BY <1>7, <2>2
    <3>2. p \in Paths  BY PathsAssumption
    <3>3. current.rc[p] \in Int /\ center.rc[p] \in Int  BY <1>1, <3>2
    <3>4. center.offset + center.rc[p] >= bound  BY <1>1, <1>5, <3>1, <3>3
    <3>5. Between(current.offset, center.offset) + Between(current.rc[p], center.rc[p]) > bound + Eps
      BY <1>1, <1>3, <3>1, <3>3, <3>4, GapIsClosed
    <3>6. m = Between(current.rc[p], center.rc[p])  BY <3>1, <3>2 DEF StabilizedRC
    <3> QED BY <1>4, <3>5, <3>6
  <2> QED BY <2>1, <2>2
<1> QED BY <1>8 DEF Improved

-----------------------------------------------------------------------------
LEMMA InitIsSound ==
  ASSUME Init
  PROVE  IInv
<1> USE PathsAssumption
<1>1. StateTypeOK
  <2>1. Unsolved \in Point  BY DEF Unsolved, Point
  <2>2. center \in [offset : Int, rc : [Paths -> Int], lagrangianBound : Int]  BY DEF Init
  <2>3. variables \in [Paths -> Nat]  BY DEF Init
  <2> QED BY <2>1, <2>2, <2>3 DEF Init, StateTypeOK, Phases
<1>2. NoDuplicates  BY DEF Init, NoDuplicates
<1>3. ColumnsArePriced /\ phase # "redcost" /\ ~ proveDirectly  BY DEF Init, ColumnsArePriced
<1>4. Feasible(center, Unfixed)
  <2> SUFFICES ASSUME NEW w \in CoversAt(Unfixed)
               PROVE  2 * 0 + Cost[w[1]] + Cost[w[2]] <= Value(w)
    BY DEF Init, Feasible
  <2> QED BY CoversArePairs DEF Value
<1>5. center.lagrangianBound <= center.offset + MinCost(center.rc, Class)
  <2>1. Cost \in [Paths -> Int]  OBVIOUS
  <2>2. MinCost(Cost, Class) = 0
    BY <2>1, MinCostBounds
  <2> QED BY <2>2 DEF Init
<1> QED BY <1>1, <1>2, <1>3, <1>4, <1>5 DEF IInv

\* One step per action; the two that move the center rest on the lemmas above.
LEMMA StepIsSound ==
  ASSUME IInv, [Next]_vars
  PROVE  IInv'
<1> USE PathsAssumption
<1>0. StateTypeOK /\ settings.sparse \in BOOLEAN  BY DEF IInv, StateTypeOK
<1>1. CASE SolveLP
  <2>1. /\ current' \in Point
        /\ phase' \in {"redcost", "farkas"}
        /\ phase' = "redcost" =>
             /\ Feasible(current', node)
             /\ (settings.sparse /\ hasFixedEdges) \/ \A p \in Columns : current'.rc[p] >= 0
        /\ phase' = "farkas" => \A p \in Columns : current'.rc[p] >= 0
    <3>1. CASE CoversBy(Columns, node) # {}
      BY <1>0, <1>1, <3>1, DualPointsAreFeasible DEF SolveLP
    <3>2. CASE CoversBy(Columns, node) = {}
      BY <1>1, <3>2, FarkasPointsAreTyped DEF SolveLP
    <3> QED BY <3>1, <3>2
  <2>2. UNCHANGED <<settings, variables, node, center, halvings, proveDirectly>>
    BY <1>1 DEF SolveLP
  <2>3. StateTypeOK'  BY <1>0, <2>1, <2>2 DEF StateTypeOK, Phases
  <2>4. ColumnsArePriced'  BY <2>1, <2>2 DEF ColumnsArePriced, Columns, hasFixedEdges
  <2>5. phase' = "redcost" => Feasible(current', node')  BY <2>1, <2>2
  <2> QED BY <2>2, <2>3, <2>4, <2>5 DEF IInv, NoDuplicates
<1>2. ASSUME NEW paths \in SUBSET Paths, AddTimedPaths(paths), phase \in {"farkas", "redcost"},
             \A p \in paths : current.rc[p] < 0,
             UNCHANGED <<settings, node, proveDirectly>>,
             center' \in [offset : Int, rc : [Paths -> Int], lagrangianBound : Int],
             Feasible(center', Unfixed),
             center'.lagrangianBound <= center'.offset + MinCost(center'.rc, Class),
             halvings' \in Nat
      PROVE  IInv'
  <2>1. settings.sparse \/ \A p \in paths : variables[p] = 0
    BY <1>2, FoundAreNew
  <2>2. /\ variables' \in [Paths -> Nat] /\ NoDuplicates'
        /\ phase' \in Phases \ {"farkas", "redcost"}
        /\ current' \in Point
    BY <1>2, <2>1, AddingKeepsTypes DEF IInv
  <2>3. StateTypeOK'  BY <1>0, <1>2, <2>2 DEF StateTypeOK
  <2>4. ColumnsArePriced'  BY <2>2 DEF ColumnsArePriced
  <2> QED BY <1>2, <2>2, <2>3, <2>4 DEF IInv
<1>3. /\ center \in [offset : Int, rc : [Paths -> Int], lagrangianBound : Int]
      /\ Feasible(center, Unfixed)
      /\ center.lagrangianBound <= center.offset + MinCost(center.rc, Class)
      /\ halvings \in Nat
      /\ current \in Point
  BY DEF IInv, StateTypeOK
<1>4. CASE Farkas
  <2>1. PICK paths \in FindPaths(current.rc, PathsInWindow) : AddTimedPaths(paths)
    BY <1>4 DEF Farkas
  <2>2. paths \in SUBSET Paths /\ \A p \in paths : current.rc[p] < 0
    BY <2>1 DEF FindPaths, Negative, PathsInWindow
  <2>3. UNCHANGED <<settings, node, center, halvings, proveDirectly>> /\ phase = "farkas"
    BY <1>4 DEF Farkas
  <2> QED BY <1>2, <1>3, <2>1, <2>2, <2>3
<1>5. CASE PricePlain
  <2>1. PICK paths \in FindPaths(current.rc, PathsInWindow) : AddTimedPaths(paths)
    BY <1>5 DEF PricePlain
  <2>2. paths \in SUBSET Paths /\ \A p \in paths : current.rc[p] < 0
    BY <2>1 DEF FindPaths, Negative, PathsInWindow
  <2>3. UNCHANGED <<settings, node, center, halvings, proveDirectly>> /\ phase = "redcost"
    BY <1>5 DEF PricePlain
  <2> QED BY <1>2, <1>3, <2>1, <2>2, <2>3
<1>6. CASE Prove
  <2> DEFINE bound == current.offset + MinCost(current.rc, Class)
             moved == [offset |-> current.offset, rc |-> current.rc, lagrangianBound |-> bound]
  <2>1. PICK paths \in FindPaths(current.rc, Class) :
          /\ AddTimedPaths(paths)
          /\ center' = moved \/ center' = center
          /\ halvings' = halvings + 1 \/ halvings' = halvings
    BY <1>6 DEF Prove
  <2>2. paths \in SUBSET Paths /\ \A p \in paths : current.rc[p] < 0
    BY <2>1 DEF FindPaths, Negative
  <2>3. UNCHANGED <<settings, node, proveDirectly>> /\ phase = "redcost" /\ node = Unfixed
    BY <1>0, <1>6, NothingIsFixed DEF Prove
  <2>4. MinCost(current.rc, Class) \in Int /\ bound \in Int
    BY <1>3, MinCostBounds DEF Point
  <2>5. /\ moved \in [offset : Int, rc : [Paths -> Int], lagrangianBound : Int]
        /\ Feasible(moved, Unfixed)
        /\ moved.lagrangianBound <= moved.offset + MinCost(moved.rc, Class)
    <3>1. Feasible(current, Unfixed)  BY <2>3 DEF IInv
    <3>2. Feasible(moved, Unfixed)  BY <3>1 DEF Feasible
    <3>3. bound <= bound  BY <2>4
    <3> QED BY <1>3, <2>4, <3>2, <3>3 DEF Point
  <2>6. /\ center' \in [offset : Int, rc : [Paths -> Int], lagrangianBound : Int]
        /\ Feasible(center', Unfixed)
        /\ center'.lagrangianBound <= center'.offset + MinCost(center'.rc, Class)
    <3> HIDE DEF moved
    <3> QED BY <1>3, <2>1, <2>5
  <2>7. halvings' \in Nat  BY <1>3, <2>1
  <2> QED BY <1>2, <2>1, <2>2, <2>3, <2>6, <2>7
<1>7. CASE Stabilize
  <2>1. phase = "redcost" /\ ~ Plain /\ center' = Moved /\ UNCHANGED <<settings, node, halvings>>
    BY <1>7 DEF Stabilize
  <2>2. /\ Moved \in [offset : Int, rc : [Paths -> Int], lagrangianBound : Int]
        /\ Feasible(Moved, Unfixed)
        /\ Moved.lagrangianBound <= Moved.offset + MinCost(Moved.rc, Class)
    BY <2>1, MovedIsSound
  <2>3. PICK paths \in FindPaths(StabilizedRC, Class) :
          \/ CutOff /\ phase' = "optimal" /\ UNCHANGED <<variables, current, proveDirectly>>
          \/ ~ CutOff /\ AddTimedPaths(CurrentPaths(paths)) /\ UNCHANGED proveDirectly
          \/ /\ ~ CutOff /\ CurrentPaths(paths) = {}
             /\ proveDirectly' = (~ settings.sparse /\ ~ Improved)
             /\ UNCHANGED <<variables, phase, current>>
    BY <1>7 DEF Stabilize
  <2>4. CASE CutOff /\ phase' = "optimal" /\ UNCHANGED <<variables, current, proveDirectly>>
    <3>1. StateTypeOK'  BY <1>0, <2>1, <2>2, <2>4 DEF StateTypeOK, Phases
    <3>2. ColumnsArePriced'  BY <2>4 DEF ColumnsArePriced
    <3> QED BY <2>1, <2>2, <2>4, <3>1, <3>2 DEF IInv, NoDuplicates
  <2>5. CASE ~ CutOff /\ AddTimedPaths(CurrentPaths(paths)) /\ UNCHANGED proveDirectly
    <3>1. CurrentPaths(paths) \in SUBSET Paths
      BY DEF CurrentPaths, FindPaths, Negative
    <3>2. \A p \in CurrentPaths(paths) : current.rc[p] < 0
      <4>1. \A p \in Paths : current.rc[p] \in Int  BY <1>3 DEF Point
      <4> QED BY <3>1, <4>1, NumbersAssumption DEF CurrentPaths
    <3> QED BY <1>2, <1>3, <2>1, <2>2, <2>5, <3>1, <3>2
  <2>6. CASE /\ ~ CutOff /\ CurrentPaths(paths) = {}
             /\ proveDirectly' = (~ settings.sparse /\ ~ Improved)
             /\ UNCHANGED <<variables, phase, current>>
    <3>1. ~ settings.sparse => Improved  BY <2>1, <2>6, MispriceImproves
    <3>2. proveDirectly' = FALSE  BY <2>6, <3>1
    <3>3. StateTypeOK'  BY <1>0, <2>1, <2>2, <2>6, <3>2 DEF StateTypeOK
    <3>4. ColumnsArePriced'  BY <2>1, <2>6 DEF IInv, ColumnsArePriced, Columns, hasFixedEdges
    <3>5. Feasible(current', node')  BY <2>1, <2>6 DEF IInv
    <3> QED BY <2>1, <2>2, <2>6, <3>2, <3>3, <3>4, <3>5 DEF IInv, NoDuplicates
  <2> QED BY <2>3, <2>4, <2>5, <2>6
<1>8. CASE NextNode
  <2>1. /\ node' \in Nodes /\ phase' = "solve" /\ current' = Unsolved
        /\ UNCHANGED <<settings, variables, center, halvings, proveDirectly>>
    BY <1>8 DEF NextNode
  <2>2. Unsolved \in Point  BY DEF Unsolved, Point
  <2>3. StateTypeOK'  BY <1>0, <2>1, <2>2 DEF StateTypeOK, Phases
  <2> QED BY <2>1, <2>3 DEF IInv, NoDuplicates, ColumnsArePriced
<1>9. CASE Solution
  <2>1. UNCHANGED <<settings, variables, node, phase, current, center, halvings, proveDirectly>>
    BY <1>9 DEF Solution
  <2> QED BY <2>1 DEF IInv, StateTypeOK, NoDuplicates, ColumnsArePriced, Columns, hasFixedEdges
<1>10. CASE Ended \/ UNCHANGED vars
  <2>1. UNCHANGED <<settings, variables, node, phase, current, center, halvings, proveDirectly>>
    BY <1>10 DEF Ended, vars
  <2> QED BY <2>1 DEF IInv, StateTypeOK, NoDuplicates, ColumnsArePriced, Columns, hasFixedEdges
<1> QED BY <1>1, <1>4, <1>5, <1>6, <1>7, <1>8, <1>9, <1>10 DEF Next, PerformPricing

LEMMA Invariance == Spec => []IInv
<1>1. Init => IInv  BY InitIsSound
<1>2. IInv /\ [Next]_vars => IInv'  BY StepIsSound
<1> QED BY <1>1, <1>2, PTL DEF Spec

\* Whatever dual values SCIP comes up with, however often the center was moved and
\* rounded: its bound is one on every cover, now and at all nodes to come.
THEOREM CenterIsAlwaysValid == Spec => []CenterIsValid
<1>1. IInv => CenterIsValid  BY CenterGivesBound
<1> QED BY <1>1, Invariance, PTL

\* No path is given a second variable: the assertion in addTimedPath never fails.
THEOREM NoPathIsAddedTwice == Spec => []NoDuplicates
<1>1. IInv => NoDuplicates  BY DEF IInv
<1> QED BY <1>1, Invariance, PTL

\* The path-based program always moves its center after a misprice, as the sparse one
\* asserts, so that it never has to turn stabilisation off (proveDirectly).
THEOREM FallbackIsNeverTaken == Spec => [](proveDirectly = FALSE)
<1>1. IInv => proveDirectly = FALSE  BY DEF IInv, StateTypeOK
<1> QED BY <1>1, Invariance, PTL
-----------------------------------------------------------------------------
(* Solutions and bounds.                                                   *)

\* Solutions are tours, all of the same cost.
BestAreTours ==
  /\ best \subseteq {Single(p) : p \in Tours}
  /\ \A w, x \in best : Value(w) = Value(x)
  /\ settings.relaxation \/ best # {}

\* Where nothing is fixed, what SCIP takes for solved is so up to the threshold.
SolvedIsExact ==
  phase = "optimal" /\ ~ hasFixedEdges => \A p \in Tours : current.offset <= Cost[p] + Threshold

FarkasIsProof ==
  phase = "farkas" => \A w \in CoversAt(node) : \E p \in {w[1], w[2]} : current.rc[p] < 0

PInv ==
  /\ IInv
  /\ lower \in Int /\ reported \in Int
  /\ BestAreTours
  /\ FarkasIsProof
  /\ SolvedIsExact
  /\ PricingIsExact
  /\ BoundIsValid

\* How often a path leaves a vertex, or takes an arc, is a number.
LEMMA LeavesAreNumbers ==
  ASSUME NEW p \in Paths, NEW v, NEW a
  PROVE  /\ Leaves(p, v) \in Nat /\ Count(p, a) \in Nat
         /\ IsFiniteSet({e \in Edges[p] : e[1] = v})
         /\ IsFiniteSet({e \in Edges[p] : arc(e) = a})
<1>1. IsFiniteSet(Edges[p])  BY WalksAssumption
<1>2. IsFiniteSet({e \in Edges[p] : e[1] = v}) /\ IsFiniteSet({e \in Edges[p] : arc(e) = a})
  <2>1. {e \in Edges[p] : e[1] = v} \in SUBSET Edges[p]  OBVIOUS
  <2>2. {e \in Edges[p] : arc(e) = a} \in SUBSET Edges[p]  OBVIOUS
  <2> QED BY <1>1, <2>1, <2>2, FS_Subset
<1> QED BY <1>2, FS_CardinalityType DEF Leaves, Count

\* A set with at most one element has that only.
LEMMA AtMostOne ==
  ASSUME NEW S, IsFiniteSet(S), Cardinality(S) <= 1
  PROVE  \A x, y \in S : x = y
<1> SUFFICES ASSUME NEW x \in S, NEW y \in S
             PROVE  x = y
  OBVIOUS
<1>1. Cardinality(S) \in Nat /\ Cardinality(S) # 0  BY FS_CardinalityType, FS_EmptySet
<1>2. Cardinality(S) = 1  BY <1>1
<1>3. \E z : S = {z}  BY <1>2, FS_Singleton
<1> QED BY <1>3

LEMMA NotEmpty ==
  ASSUME NEW S, IsFiniteSet(S), NEW x \in S
  PROVE  Cardinality(S) \in Nat /\ Cardinality(S) >= 1
<1>1. Cardinality(S) \in Nat /\ Cardinality(S) # 0  BY FS_CardinalityType, FS_EmptySet
<1> QED BY <1>1

\* A path with as many edges as there are vertices that leaves none of them twice
\* leaves every vertex.
LEMMA CountedTours ==
  ASSUME NEW p \in Paths, isTour(p)
  PROVE  p \in Tours
<1> DEFINE f == [e \in Edges[p] |-> e[1]]
<1>1. IsFiniteSet(Edges[p]) /\ IsFiniteSet(Vertices) /\ Edges[p] \subseteq Vertices \X Vertices \X Nat
  BY WalksAssumption
<1>2. f \in [Edges[p] -> Vertices]  BY <1>1
<1>3. \A e, g \in Edges[p] : e[1] = g[1] => e = g
  <2> TAKE e \in Edges[p], g \in Edges[p]
  <2> HAVE e[1] = g[1]
  <2> DEFINE S == {d \in Edges[p] : d[1] = e[1]}
  <2>1. IsFiniteSet(S) /\ e[1] \in Vertices  BY <1>1, LeavesAreNumbers
  <2>2. Cardinality(S) <= 1  BY <2>1 DEF isTour, Leaves
  <2>3. e \in S /\ g \in S  OBVIOUS
  <2> HIDE DEF S
  <2> QED BY <2>1, <2>2, <2>3, AtMostOne
<1>4. f \in Injection(Edges[p], Vertices)
  BY <1>2, <1>3 DEF Injection, IsInjective
<1>5. f \in Surjection(Edges[p], Vertices)
  <2>1. Cardinality(Edges[p]) = Cardinality(Vertices)  BY DEF isTour
  <2> HIDE DEF f
  <2> QED BY <1>1, <1>4, <2>1, FS_Injection
<1>6. \A v \in Vertices : Leaves(p, v) = 1
  <2> TAKE v \in Vertices
  <2>1. PICK e \in Edges[p] : e[1] = v  BY <1>5 DEF Surjection
  <2>2. Leaves(p, v) \in Nat /\ Leaves(p, v) <= 1  BY LeavesAreNumbers DEF isTour
  <2>3. Leaves(p, v) >= 1  BY <2>1, LeavesAreNumbers, NotEmpty DEF Leaves
  <2> QED BY <2>2, <2>3
<1> QED BY <1>6 DEF Tours

\* A path takes no arc more often than it leaves the vertex where it starts.
LEMMA CountsAreLeaves ==
  ASSUME NEW p \in Paths, NEW a
  PROVE  Count(p, a) <= Leaves(p, a[1])
<1> DEFINE S == {e \in Edges[p] : arc(e) = a}
           T == {e \in Edges[p] : e[1] = a[1]}
<1>1. S \in SUBSET T  BY DEF arc
<1>2. IsFiniteSet(T)  BY LeavesAreNumbers
<1> HIDE DEF S, T
<1>3. Cardinality(S) <= Cardinality(T)  BY <1>1, <1>2, FS_Subset
<1> QED BY <1>3 DEF S, T, Count, Leaves

\* A tour alone is a cover, where nothing is fixed.
LEMMA ToursAreCovers ==
  ASSUME NEW p \in Tours
  PROVE  /\ p \in Paths /\ p \in Class /\ Cost[p] \in Nat
         /\ Single(p)[1] = p /\ Single(p)[2] = p
         /\ Value(Single(p)) = 2 * Cost[p]
         /\ Value(Single(p)) \div 2 = Cost[p]
         /\ Single(p) \in CoversAt(Unfixed)
<1>1. p \in Paths /\ p \in Class /\ Cost[p] \in Nat  BY PathsAssumption DEF Tours
<1>2. Single(p)[1] = p /\ Single(p)[2] = p /\ Single(p) \in Paths \X Paths  BY <1>1 DEF Single
<1>3. Value(Single(p)) = 2 * Cost[p] /\ Value(Single(p)) \div 2 = Cost[p]  BY <1>1, <1>2 DEF Value
<1>4. Single(p) \in Covers
  BY <1>2 DEF Covers, Tours
<1>5. \A a \in Arcs : Usage(Single(p), a) <= 2
  <2> TAKE a \in Arcs
  <2>1. PICK q \in Paths : \E e \in Edges[q] : a = arc(e)  BY DEF Arcs
  <2>2. a[1] \in Vertices  BY <2>1, WalksAssumption DEF arc
  <2>3. Count(p, a) <= 1 /\ Count(p, a) \in Nat
    BY <1>1, <2>2, CountsAreLeaves, LeavesAreNumbers DEF Tours
  <2> QED BY <1>2, <2>3 DEF Usage
<1>6. Single(p) \in CoversAt(Unfixed)
  BY <1>4, <1>5 DEF CoversAt, Unfixed
<1> QED BY <1>1, <1>2, <1>3, <1>6

\* The earliest edge of a set of edges.
LEMMA EarliestExists ==
  ASSUME NEW S, IsFiniteSet(S), S # {}, \A e \in S : e[3] \in Int
  PROVE  \E e \in S : \A f \in S : e[3] <= f[3]
<1> DEFINE t == [e \in S |-> e[3]]
<1>1. t \in [S -> Int]  OBVIOUS
<1>2. PICK e \in S : \A f \in S : t[e] <= t[f]
  <2> HIDE DEF t
  <2> QED BY <1>1, CheapestExists
<1> QED BY <1>2

\* On a path every edge but the last has another one that follows it; ...
LEMMA SuccessorExists ==
  ASSUME NEW p \in Paths, NEW e \in Edges[p], e[2] # Root
  PROVE  \E f \in Edges[p] : Follows(p, e, f)
<1> DEFINE S == {f \in Edges[p] : e[3] < f[3]}
<1>1. S # {} /\ S \in SUBSET Edges[p] /\ IsFiniteSet(Edges[p])  BY WalksAssumption
<1>2. \A f \in Edges[p] : f[3] \in Int  BY WalksAssumption
<1>3. PICK f \in S : \A g \in S : f[3] <= g[3]
  <2> HIDE DEF S
  <2> QED BY <1>1, <1>2, FS_Subset, EarliestExists
<1> QED BY <1>3 DEF Follows

\* ... every edge but the first follows one.
LEMMA PredecessorExists ==
  ASSUME NEW p \in Paths, NEW e \in Edges[p], e[1] # Root
  PROVE  \E d \in Edges[p] : Follows(p, d, e)
<1> DEFINE S == {d \in Edges[p] : d[3] < e[3]}
           t == [d \in S |-> 0 - d[3]]
<1>1. \A d \in Edges[p] : d[3] \in Nat  BY WalksAssumption
<1>2. S # {}
  <2>1. PICK d \in Edges[p] : d[3] = 0  BY WalksAssumption
  <2>2. e[3] # 0  BY WalksAssumption
  <2>3. d \in S  BY <1>1, <2>1, <2>2
  <2> QED BY <2>3
<1>3. IsFiniteSet(S) /\ t \in [S -> Int]
  <2>1. S \in SUBSET Edges[p] /\ IsFiniteSet(Edges[p])  BY WalksAssumption
  <2>2. IsFiniteSet(S)
    <3> HIDE DEF S
    <3> QED BY <2>1, FS_Subset
  <2>3. t \in [S -> Int]  BY <1>1
  <2> QED BY <2>2, <2>3
<1>4. PICK d \in S : \A g \in S : t[d] <= t[g]
  <2> HIDE DEF S, t
  <2> QED BY <1>2, <1>3, CheapestExists
<1>5. \A g \in S : g[3] <= d[3]
  <2> TAKE g \in S
  <2>1. g[3] \in Nat /\ d[3] \in Nat  BY <1>1
  <2>2. t[d] = 0 - d[3] /\ t[g] = 0 - g[3] /\ t[d] <= t[g]  BY <1>4
  <2> HIDE DEF t
  <2> QED BY <2>1, <2>2
<1>6. \A g \in Edges[p] : d[3] < g[3] => e[3] <= g[3]
  BY <1>1, <1>5
<1> QED BY <1>6 DEF Follows

\* Of two paths that make up a cover, one that takes every arc twice or not at all,
\* each takes the edges of the other.
LEMMA SameEdges ==
  ASSUME NEW n, NEW w \in CoversAt(n), \A a \in Arcs : Usage(w, a) \in {0, 2},
         NEW p \in Paths, NEW q \in Paths, {p, q} = {w[1], w[2]},
         NEW e \in Edges[p], \A d \in Edges[p] : d[3] < e[3] => d \in Edges[q]
  PROVE  e \in Edges[q]
<1> DEFINE v == e[1]
<1>1. v \in Vertices /\ arc(e) \in Arcs /\ arc(e)[1] = v /\ e = <<e[1], e[2], e[3]>>
  <2>1. e \in Vertices \X Vertices \X Nat  BY WalksAssumption
  <2> QED BY <2>1 DEF Arcs, arc
<1>2. /\ Leaves(p, v) \in Nat /\ Leaves(q, v) \in Nat /\ Leaves(p, v) + Leaves(q, v) = 2
      /\ Count(p, arc(e)) \in Nat /\ Count(q, arc(e)) \in Nat
      /\ Count(p, arc(e)) + Count(q, arc(e)) \in {0, 2}
  <2>1. w[1] \in Paths /\ w[2] \in Paths  BY CoversArePairs
  <2>2. Leaves(w[1], v) + Leaves(w[2], v) = 2  BY <1>1 DEF CoversAt, Covers
  <2>3. Count(w[1], arc(e)) + Count(w[2], arc(e)) \in {0, 2}  BY <1>1 DEF Usage
  <2>4. /\ Leaves(w[1], v) \in Nat /\ Leaves(w[2], v) \in Nat
        /\ Count(w[1], arc(e)) \in Nat /\ Count(w[2], arc(e)) \in Nat
    BY <2>1, LeavesAreNumbers
  <2>5. (p = w[1] /\ q = w[2]) \/ (p = w[2] /\ q = w[1])  OBVIOUS
  <2> QED BY <2>2, <2>3, <2>4, <2>5
<1>3. Leaves(p, v) >= 1 /\ Count(p, arc(e)) >= 1
  <2>1. e \in {d \in Edges[p] : d[1] = v} /\ e \in {d \in Edges[p] : arc(d) = arc(e)}  OBVIOUS
  <2> QED BY <2>1, LeavesAreNumbers, NotEmpty DEF Leaves, Count
<1>4. CASE e[3] = 0
  <2>1. v = Root  BY <1>4, WalksAssumption
  <2>2. Leaves(p, v) <= 1
    <3>1. PICK d \in Edges[p] : \A f \in Edges[p] : f[1] = v => f = d
      BY <1>4, <2>1, WalksAssumption
    <3>2. {f \in Edges[p] : f[1] = v} = {e}  BY <3>1
    <3> QED BY <3>2, FS_Singleton DEF Leaves
  <2>3. Count(p, arc(e)) = 1
    BY <1>1, <1>2, <1>3, <2>2, CountsAreLeaves
  <2>4. Count(q, arc(e)) = 1  BY <1>2, <2>3
  <2>5. {f \in Edges[q] : arc(f) = arc(e)} # {}
    BY <2>4, LeavesAreNumbers, FS_EmptySet DEF Count
  <2>6. PICK f \in Edges[q] : arc(f) = arc(e)  BY <2>5
  <2>7. f[1] = e[1] /\ f[2] = e[2] /\ f[3] = 0
    BY <2>1, <2>6, WalksAssumption DEF arc
  <2>8. f = <<f[1], f[2], f[3]>>
    <3>1. f \in Vertices \X Vertices \X Nat  BY WalksAssumption
    <3> QED BY <3>1
  <2> QED BY <1>1, <1>4, <2>7, <2>8
<1>5. CASE e[3] # 0
  <2>1. v # Root  BY <1>5, WalksAssumption
  <2>2. PICK d \in Edges[p] : Follows(p, d, e)  BY <2>1, PredecessorExists
  <2>3. d[2] = v /\ d[3] < e[3] /\ d \in Edges[q]
    BY <2>2, WalksAssumption DEF Follows
  <2>4. PICK g \in Edges[q] : Follows(q, d, g)  BY <2>1, <2>3, SuccessorExists
  <2>5. g[1] = v /\ g[3] = e[3]
    BY <2>2, <2>3, <2>4, WalksAssumption
  <2>6. Leaves(q, v) >= 1
    <3>1. g \in {f \in Edges[q] : f[1] = v}  BY <2>5
    <3> QED BY <3>1, LeavesAreNumbers, NotEmpty DEF Leaves
  <2>7. Leaves(p, v) = 1 /\ Leaves(q, v) = 1  BY <1>2, <1>3, <2>6
  <2>8. Count(p, arc(e)) = 1  BY <1>1, <1>2, <1>3, <2>7, CountsAreLeaves
  <2>9. {f \in Edges[q] : arc(f) = arc(e)} # {}
    BY <1>2, <2>8, FS_EmptySet DEF Count
  <2>10. PICK h \in Edges[q] : arc(h) = arc(e)  BY <2>9
  <2>11. h = g
    <3> DEFINE S == {f \in Edges[q] : f[1] = v}
    <3>1. h \in S /\ g \in S  BY <2>5, <2>10 DEF arc
    <3>2. IsFiniteSet(S)  BY LeavesAreNumbers
    <3>3. Cardinality(S) <= 1  BY <2>7 DEF Leaves
    <3> HIDE DEF S
    <3> QED BY <3>1, <3>2, <3>3, AtMostOne
  <2>12. g = <<g[1], g[2], g[3]>> /\ g[1] = e[1] /\ g[2] = e[2] /\ g[3] = e[3]
    <3>1. g \in Vertices \X Vertices \X Nat  BY WalksAssumption
    <3> QED BY <2>5, <2>10, <2>11, <3>1 DEF arc
  <2> QED BY <1>1, <2>12
<1> QED BY <1>4, <1>5

\* What has integral arcs is one tour: two paths would part somewhere, and what they
\* took from there on would be taken once.
LEMMA IntegralCoversAreTours ==
  ASSUME NEW n, NEW w \in CoversAt(n), \A a \in Arcs : Usage(w, a) \in {0, 2}
  PROVE  \E p \in Tours : w = Single(p)
<1> DEFINE p == w[1]
           q == w[2]
           D == (Edges[p] \ Edges[q]) \cup (Edges[q] \ Edges[p])
<1>1. p \in Paths /\ q \in Paths /\ w = <<p, q>>
  <2>1. w \in Paths \X Paths  BY DEF CoversAt, Covers
  <2> QED BY <2>1
<1>2. IsFiniteSet(Edges[p]) /\ IsFiniteSet(Edges[q]) /\ \A e \in Edges[p] \cup Edges[q] : e[3] \in Int
  BY <1>1, WalksAssumption
<1>3. IsFiniteSet(D)
  <2>1. D \in SUBSET (Edges[p] \cup Edges[q])  OBVIOUS
  <2> HIDE DEF D, p, q
  <2> QED BY <1>2, <2>1, FS_Union, FS_Subset
<1>4. D = {}
  <2> SUFFICES ASSUME D # {} PROVE FALSE
    OBVIOUS
  <2>1. \A e \in D : e[3] \in Int  BY <1>2
  <2>2. PICK e \in D : \A f \in D : e[3] <= f[3]
    <3> HIDE DEF D
    <3> QED BY <1>3, <2>1, EarliestExists
  <2>3. \A d \in Edges[p] \cup Edges[q] : d[3] < e[3] => d \notin D
    BY <1>2, <2>2
  <2>4. CASE e \in Edges[p]
    <3>1. \A d \in Edges[p] : d[3] < e[3] => d \in Edges[q]  BY <2>3
    <3>2. e \in Edges[q]
      <4> HIDE DEF p, q, D
      <4> QED BY <1>1, <2>4, <3>1, SameEdges DEF p, q
    <3> QED BY <2>2, <2>4, <3>2
  <2>5. CASE e \in Edges[q]
    <3>1. \A d \in Edges[q] : d[3] < e[3] => d \in Edges[p]  BY <2>3
    <3>2. e \in Edges[p]
      <4> HIDE DEF p, q, D
      <4> QED BY <1>1, <2>5, <3>1, SameEdges DEF p, q
    <3> QED BY <2>2, <2>5, <3>2
  <2> QED BY <2>2, <2>4, <2>5
<1>5. p = q
  <2>1. Edges[p] = Edges[q]  BY <1>4
  <2> QED BY <1>1, <2>1, WalksAssumption
<1>6. \A v \in Vertices : Leaves(p, v) = 1
  <2> TAKE v \in Vertices
  <2>1. Leaves(p, v) + Leaves(p, v) = 2  BY <1>5 DEF CoversAt, Covers
  <2>2. Leaves(p, v) \in Nat  BY <1>1, LeavesAreNumbers
  <2> QED BY <2>1, <2>2
<1>7. p \in Tours /\ w = Single(p)
  BY <1>1, <1>5, <1>6 DEF Tours, Single
<1> QED BY <1>7

-----------------------------------------------------------------------------
\* The cutoff bound is the cost of any of the best solutions.
LEMMA CostOfSolutions ==
  ASSUME NEW solutions, solutions \subseteq {Single(p) : p \in Tours},
         \A w, x \in solutions : Value(w) = Value(x), NEW w \in solutions
  PROVE  \E p \in Tours : /\ w = Single(p) /\ Value(w) = 2 * Cost[p]
                          /\ Min({Value(x) \div 2 : x \in solutions}) = Cost[p]
<1>1. PICK p \in Tours : w = Single(p)  OBVIOUS
<1>2. Value(w) = 2 * Cost[p] /\ Cost[p] \in Nat  BY <1>1, ToursAreCovers
<1>3. \A x \in solutions : Value(x) \div 2 = Cost[p]
  <2> TAKE x \in solutions
  <2>1. PICK q \in Tours : x = Single(q)  OBVIOUS
  <2>2. Value(x) = 2 * Cost[q] /\ Value(x) \div 2 = Cost[q] /\ Cost[q] \in Nat  BY <2>1, ToursAreCovers
  <2>3. Value(x) = Value(w)  OBVIOUS
  <2> QED BY <1>2, <2>2, <2>3
<1>4. {Value(x) \div 2 : x \in solutions} = {Cost[p]}  BY <1>3
<1>5. Min({Cost[p]}) = Cost[p]  BY <1>2 DEF Min
<1> QED BY <1>1, <1>2, <1>4, <1>5

\* The solutions that come with paths are no worse.
LEMMA AddingKeepsBest ==
  ASSUME BestAreTours, NEW paths \in SUBSET Paths, AddTimedPaths(paths), UNCHANGED settings
  PROVE  BestAreTours' /\ (best # {} => best' # {} /\ upper' <= upper)
<1> DEFINE found == best \cup {Single(p) : p \in {q \in paths : isTour(q)}}
<1>1. found \subseteq {Single(p) : p \in Tours}
  BY CountedTours DEF BestAreTours
<1>2. best' = {w \in found : \A x \in found : Value(w) <= Value(x)}
  BY DEF AddTimedPaths
<1>3. \A w \in found : Value(w) \in Int
  <2> TAKE w \in found
  <2>1. PICK p \in Tours : w = Single(p)  BY <1>1
  <2> QED BY <2>1, ToursAreCovers
<1>4. found # {} => best' # {}
  <2> SUFFICES ASSUME found # {} PROVE best' # {}
    OBVIOUS
  <2> DEFINE f == [w \in found |-> Value(w)]
  <2>1. IsFiniteSet(found)
    <3>1. IsFiniteSet(Paths \X Paths)  BY FS_Product, PathsAssumption
    <3>2. found \in SUBSET (Paths \X Paths)  BY <1>1, ToursAreCovers DEF Single
    <3> HIDE DEF found
    <3> QED BY <3>1, <3>2, FS_Subset
  <2>2. f \in [found -> Int]  BY <1>3
  <2>3. PICK w \in found : \A x \in found : f[w] <= f[x]
    <3> HIDE DEF f, found
    <3> QED BY <2>1, <2>2, CheapestExists
  <2>4. w \in best'  BY <1>2, <2>3
  <2> QED BY <2>4
<1>5. BestAreTours'
  <2>1. best' \subseteq {Single(p) : p \in Tours}  BY <1>1, <1>2
  <2>2. \A w, x \in best' : Value(w) = Value(x)  BY <1>2, <1>3
  <2>3. settings.relaxation \/ best' # {}  BY <1>4 DEF BestAreTours
  <2> HIDE DEF found
  <2> QED BY <2>1, <2>2, <2>3 DEF BestAreTours
<1>6. ASSUME best # {} PROVE upper' <= upper
  <2>1. PICK x \in best : TRUE  BY <1>6
  <2>2. PICK w \in best' : TRUE  BY <1>4, <1>6
  <2>3. Value(w) <= Value(x)  BY <1>2
  <2>4. PICK p \in Tours : upper = Cost[p] /\ Value(x) = 2 * Cost[p]
    BY <1>6, CostOfSolutions DEF BestAreTours, upper
  <2>5. best' # {} /\ best' \subseteq {Single(q) : q \in Tours} /\ \A y, z \in best' : Value(y) = Value(z)
    BY <1>5, <2>2 DEF BestAreTours
  <2>6. PICK q \in Tours : upper' = Cost[q] /\ Value(w) = 2 * Cost[q]
    BY <2>5, CostOfSolutions DEF upper
  <2>7. Cost[p] \in Nat /\ Cost[q] \in Nat  BY ToursAreCovers
  <2>8. Cost[q] <= Cost[p]  BY <2>3, <2>4, <2>6, <2>7
  <2> QED BY <2>4, <2>6, <2>8
<1> QED BY <1>4, <1>5, <1>6

\* As solutions get better there are fewer tours to look for.
LEMMA WantedShrinks ==
  ASSUME BestAreTours, BestAreTours', UNCHANGED <<settings, node, lower>>,
         best # {} => best' # {} /\ upper' <= upper
  PROVE  Wanted' \subseteq Wanted
<1> SUFFICES ASSUME NEW p \in Wanted'
             PROVE  p \in Wanted
  OBVIOUS
<1>1. p \in Tours /\ Single(p) \in CoversAt(node) /\ Cost[p] \in Nat
  BY ToursAreCovers DEF Wanted
<1>2. CASE settings.relaxation
  BY <1>1, <1>2 DEF Wanted
<1>3. CASE ~ settings.relaxation
  <2>1. lower <= Cost[p] + Eps /\ Cost[p] < upper'  BY <1>3 DEF Wanted
  <2>2. best # {} /\ best' # {} /\ upper' <= upper  BY <1>3 DEF BestAreTours
  <2>3. upper \in Nat
    BY <2>2, CostOfSolutions, ToursAreCovers DEF BestAreTours, upper
  <2>4. upper' \in Nat
    <3>1. best' \subseteq {Single(q) : q \in Tours} /\ \A y, z \in best' : Value(y) = Value(z)
      BY DEF BestAreTours
    <3> QED BY <2>2, <3>1, CostOfSolutions, ToursAreCovers DEF upper
  <2>5. Cost[p] < upper  BY <1>1, <2>1, <2>2, <2>3, <2>4
  <2> QED BY <1>1, <2>1, <2>5 DEF Wanted
<1> QED BY <1>2, <1>3

\* What SCIP may still look for is in the window of the router, ...
LEMMA WantedInWindow ==
  ASSUME StateTypeOK, BestAreTours, NEW p \in Wanted
  PROVE  p \in PathsInWindow
<1>1. p \in Tours /\ Single(p) \in CoversAt(node)  BY DEF Wanted
<1>2. p \in Class /\ p \in Paths /\ Cost[p] \in Nat /\ Single(p)[1] = p /\ Single(p)[2] = p
  BY <1>1, ToursAreCovers
<1>3. InWindow(p)
  <2>1. CASE settings.relaxation
    BY <2>1 DEF InWindow
  <2>2. CASE ~ settings.relaxation
    <3>1. upper \in Nat
      BY <2>2, CostOfSolutions, ToursAreCovers DEF BestAreTours, upper
    <3> QED BY <1>2, <2>2, <3>1, NumbersAssumption DEF Wanted, InWindow
  <2> QED BY <2>1, <2>2
<1>4. \A e \in Edges[p] : arc(e) \notin node.forbidden
  <2> SUFFICES ASSUME NEW e \in Edges[p], arc(e) \in node.forbidden
               PROVE  FALSE
    OBVIOUS
  <2>1. arc(e) \in Arcs  BY <1>2 DEF Arcs
  <2>2. Count(p, arc(e)) + Count(p, arc(e)) = 0  BY <1>1, <1>2, <2>1 DEF CoversAt, Usage
  <2>3. e \in {d \in Edges[p] : arc(d) = arc(e)}  OBVIOUS
  <2>4. Count(p, arc(e)) >= 1 /\ Count(p, arc(e)) \in Nat
    BY <1>2, <2>3, LeavesAreNumbers, NotEmpty DEF Count
  <2> QED BY <2>2, <2>4
<1> QED BY <1>2, <1>3, <1>4 DEF PathsInWindow

\* ... and not valued above its cost.
LEMMA ToursAreValued ==
  ASSUME NEW point \in Point, NEW n, Feasible(point, n), NEW p \in Tours, Single(p) \in CoversAt(n)
  PROVE  point.offset + point.rc[p] <= Cost[p]
<1>1. p \in Paths /\ Cost[p] \in Nat /\ Single(p)[1] = p /\ Single(p)[2] = p /\ Value(Single(p)) = 2 * Cost[p]
  BY ToursAreCovers
<1>2. 2 * point.offset + point.rc[p] + point.rc[p] <= 2 * Cost[p]
  BY <1>1 DEF Feasible
<1>3. point.offset \in Int /\ point.rc[p] \in Int  BY <1>1 DEF Point
<1> QED BY <1>1, <1>2, <1>3

LEMMA ToursAreAboveCenter ==
  ASSUME CenterIsValid, center.lagrangianBound \in Int, NEW p \in Tours
  PROVE  center.lagrangianBound <= Cost[p]
<1>1. /\ p \in Class /\ Cost[p] \in Nat /\ Single(p)[1] = p /\ Single(p)[2] = p
      /\ Value(Single(p)) = 2 * Cost[p] /\ Single(p) \in CoversAt(Unfixed)
  BY ToursAreCovers
<1>2. 2 * center.lagrangianBound <= 2 * Cost[p]
  BY <1>1 DEF CenterIsValid
<1> QED BY <1>1, <1>2

\* What is no column gets a variable.
LEMMA NewAreAdded ==
  ASSUME StateTypeOK, NEW paths \in SUBSET Paths, AddTimedPaths(paths), NEW p \in paths, variables[p] = 0
  PROVE  variables' # variables /\ phase' = "solve"
<1>1. CASE settings.sparse
  <2>1. variables' = [q \in Paths |-> IF q \in Recombined(Columns \cup paths) THEN 1 ELSE 0]
    BY <1>1 DEF AddTimedPaths
  <2>2. p \in Recombined(Columns \cup paths)  BY DEF Recombined
  <2>3. variables'[p] = 1  BY <2>1, <2>2
  <2>4. variables' # variables  BY <2>3
  <2> QED BY <2>4 DEF AddTimedPaths
<1>2. CASE ~ settings.sparse
  <2>1. variables' = [q \in Paths |-> IF q \in paths THEN variables[q] + 1 ELSE variables[q]]
    BY <1>2 DEF AddTimedPaths
  <2>2. variables'[p] = 1  BY <2>1
  <2>3. variables' # variables  BY <2>2
  <2> QED BY <2>3 DEF AddTimedPaths
<1> QED BY <1>1, <1>2

\* Where columns have no negative reduced cost, SCIP takes its program for solved only
\* when no path was found.
LEMMA NothingWasFound ==
  ASSUME StateTypeOK, NEW paths \in SUBSET Paths, AddTimedPaths(paths), phase' # "solve",
         \A p \in paths : current.rc[p] < 0, \A p \in Columns : current.rc[p] >= 0
  PROVE  paths = {}
<1> SUFFICES ASSUME NEW p \in paths PROVE FALSE
  OBVIOUS
<1>1. current.rc[p] \in Int /\ variables[p] \in Nat  BY DEF StateTypeOK, Point
<1>2. p \notin Columns  BY <1>1
<1>3. variables[p] = 0  BY <1>1, <1>2 DEF Columns
<1> QED BY <1>3, NewAreAdded

\* If no path is found there is none.
LEMMA NothingIsNegative ==
  ASSUME NEW rc \in [Paths -> Int], NEW paths \in SUBSET Paths, {} \in FindPaths(rc, paths), NEW p \in paths
  PROVE  rc[p] >= 0
<1>1. Negative(rc, paths) = {}  BY DEF FindPaths
<1>2. rc[p] \in Int  OBVIOUS
<1> QED BY <1>1, <1>2 DEF Negative

\* The bound of what was found.
LEMMA FoundBound ==
  ASSUME NEW point \in Point, NEW n, Feasible(point, n), NEW paths \in SUBSET Paths,
         NEW p \in Tours, p \in paths, Single(p) \in CoversAt(n)
  PROVE  point.offset + MinCost(point.rc, paths) <= Cost[p]
<1>1. point.offset \in Int /\ point.rc \in [Paths -> Int]  BY DEF Point
<1>2. point.offset + point.rc[p] <= Cost[p] /\ Cost[p] \in Nat  BY ToursAreValued, ToursAreCovers
<1>3. MinCost(point.rc, paths) \in Int /\ MinCost(point.rc, paths) <= point.rc[p] /\ point.rc[p] \in Int
  BY <1>1, MinCostBounds
<1> QED BY <1>1, <1>2, <1>3

\* What holds of solutions and bounds once paths were added, by whichever pass: what it
\* has to know if it found none.
LEMMA AddedIsSound ==
  ASSUME PInv, NEW paths \in SUBSET Paths, AddTimedPaths(paths),
         phase \in {"farkas", "redcost"}, \A p \in paths : current.rc[p] < 0,
         UNCHANGED <<settings, node, lower>>,
         reported' \in Int, \A p \in Wanted : reported' <= Cost[p],
         paths = {} /\ phase = "farkas" => Wanted = {},
         paths = {} /\ phase = "redcost" /\ ~ (settings.sparse /\ hasFixedEdges) =>
           \A p \in Wanted : current.offset <= Cost[p] + Threshold,
         paths = {} /\ phase = "redcost" /\ ~ hasFixedEdges =>
           \A p \in Tours : current.offset <= Cost[p] + Threshold
  PROVE  /\ lower' \in Int /\ reported' \in Int
         /\ BestAreTours' /\ FarkasIsProof' /\ SolvedIsExact' /\ PricingIsExact' /\ BoundIsValid'
<1>1. StateTypeOK /\ ColumnsArePriced /\ BestAreTours /\ lower \in Int
  BY DEF PInv, IInv
<1>2. BestAreTours' /\ Wanted' \subseteq Wanted
  BY <1>1, AddingKeepsBest, WantedShrinks
<1>3. BoundIsValid'
  BY <1>2 DEF BoundIsValid
<1>4. phase' \in {"solve", "optimal", "infeasible"}
  BY DEF AddTimedPaths
<1>5. phase' = "infeasible" => phase = "farkas"
  BY DEF AddTimedPaths
<1>6. phase' = "optimal" => phase = "redcost" /\ current' = current
  BY DEF AddTimedPaths
<1>7. phase' # "solve" /\ ~ (phase = "redcost" /\ settings.sparse /\ hasFixedEdges) => paths = {}
  <2> SUFFICES ASSUME phase' # "solve", ~ (phase = "redcost" /\ settings.sparse /\ hasFixedEdges)
               PROVE  paths = {}
    OBVIOUS
  <2>1. \A p \in Columns : current.rc[p] >= 0
    BY <1>1 DEF ColumnsArePriced
  <2> QED BY <1>1, <2>1, NothingWasFound
<1>8. PricingIsExact'
  <2>1. hasFixedEdges' = hasFixedEdges  BY DEF hasFixedEdges
  <2>2. phase' = "optimal" /\ ~ (settings.sparse /\ hasFixedEdges) =>
          \A p \in Wanted' : current'.offset <= Cost[p] + Threshold
    BY <1>2, <1>6, <1>7
  <2>3. phase' = "infeasible" => Wanted' = {}
    BY <1>2, <1>5, <1>7
  <2>4. \A p \in Tours : lower <= Cost[p] + Threshold  BY DEF PInv, PricingIsExact
  <2> QED BY <2>1, <2>2, <2>3, <2>4 DEF PricingIsExact
<1>9. SolvedIsExact'
  <2>1. hasFixedEdges' = hasFixedEdges  BY DEF hasFixedEdges
  <2> QED BY <1>6, <1>7, <2>1 DEF SolvedIsExact
<1>10. FarkasIsProof'
  BY <1>4 DEF FarkasIsProof
<1> QED BY <1>1, <1>2, <1>3, <1>8, <1>9, <1>10

\* Tours cost something, so that no bound at all is one.
LEMMA NoBoundIsValid ==
  ASSUME NEW p \in Wanted
  PROVE  -Inf \in Int /\ -Inf <= Cost[p]
<1>1. Cost[p] \in Nat  BY ToursAreCovers DEF Wanted
<1> QED BY <1>1, NumbersAssumption

LEMMA InitIsExact ==
  ASSUME Init
  PROVE  PInv
<1>1. IInv  BY InitIsSound
<1>2. BestAreTours
  <2>1. InitialTour \in Tours  BY PathsAssumption
  <2> QED BY <2>1 DEF Init, BestAreTours
<1>3. \A p \in Tours : lower <= Cost[p] + Threshold
  <2> TAKE p \in Tours
  <2>1. Cost[p] \in Nat /\ Threshold \in Nat /\ lower = 0  BY ToursAreCovers, NumbersAssumption DEF Init
  <2> QED BY <2>1
<1>4. PricingIsExact /\ SolvedIsExact /\ FarkasIsProof
  BY <1>3 DEF Init, PricingIsExact, SolvedIsExact, FarkasIsProof
<1>5. BoundIsValid
  BY NoBoundIsValid DEF Init, BoundIsValid
<1>6. lower \in Int /\ reported \in Int
  BY NumbersAssumption DEF Init
<1> QED BY <1>1, <1>2, <1>4, <1>5, <1>6 DEF PInv

\* One step per action: the passes by the lemma above, SCIP's own steps directly.
LEMMA StepIsExact ==
  ASSUME PInv, [Next]_vars
  PROVE  PInv'
<1> USE DEF PInv
<1>1. IInv'  BY StepIsSound
<1>2. /\ StateTypeOK /\ current \in Point /\ current.offset \in Int /\ current.rc \in [Paths -> Int]
      /\ center.lagrangianBound \in Int /\ settings.sparse \in BOOLEAN
      /\ Threshold \in Nat /\ -Inf \in Int
  BY PathsAssumption, NumbersAssumption DEF IInv, StateTypeOK, Point
<1>3. CenterIsValid /\ CenterIsValid'
  <2>1. CenterIsValid  BY CenterGivesBound
  <2>2. CenterIsValid'
    <3>1. CenterIsValid' <=> \A w \in CoversAt(Unfixed) :
            {w[1], w[2]} \subseteq Class => 2 * center'.lagrangianBound <= Value(w)
      BY DEF CenterIsValid
    <3> DEFINE m == MinCost(center'.rc, Class)
    <3>2. /\ center'.rc \in [Paths -> Int] /\ center'.offset \in Int /\ center'.lagrangianBound \in Int
          /\ Feasible(center', Unfixed) /\ center'.lagrangianBound <= center'.offset + m
      BY <1>1 DEF IInv, StateTypeOK
    <3> SUFFICES ASSUME NEW w \in CoversAt(Unfixed), {w[1], w[2]} \subseteq Class
                 PROVE  2 * center'.lagrangianBound <= Value(w)
      BY <3>1
    <3>3. m \in Int /\ m <= center'.rc[w[1]] /\ m <= center'.rc[w[2]]
      BY <3>2, MinCostBounds, PathsAssumption
    <3>4. Value(w) \in Int /\ center'.rc[w[1]] \in Int /\ center'.rc[w[2]] \in Int
      BY <3>2, CoversArePairs
    <3>5. 2 * center'.offset + center'.rc[w[1]] + center'.rc[w[2]] <= Value(w)
      BY <3>2 DEF Feasible
    <3> QED BY <3>2, <3>3, <3>4, <3>5
  <2> QED BY <2>1, <2>2
<1>4. center'.lagrangianBound \in Int
  BY <1>1 DEF IInv, StateTypeOK
<1>5. \A p \in Tours : /\ Cost[p] \in Nat /\ p \in Paths /\ p \in Class
                       /\ center.lagrangianBound <= Cost[p] /\ center'.lagrangianBound <= Cost[p]
  <2> TAKE p \in Tours
  <2>1. center.lagrangianBound <= Cost[p]  BY <1>2, <1>3, ToursAreAboveCenter
  <2>2. /\ p \in Class /\ Cost[p] \in Nat /\ Single(p)[1] = p /\ Single(p)[2] = p
        /\ Value(Single(p)) = 2 * Cost[p] /\ Single(p) \in CoversAt(Unfixed)
    BY ToursAreCovers
  <2>3. 2 * center'.lagrangianBound <= 2 * Cost[p]
    BY <1>3, <2>2 DEF CenterIsValid
  <2> QED BY <1>4, <2>1, <2>2, <2>3, ToursAreCovers
<1>6. CASE SolveLP
  <2>1. /\ phase' \in {"redcost", "farkas"} /\ reported' = -Inf
        /\ UNCHANGED <<settings, variables, node, best, lower>>
    BY <1>6 DEF SolveLP
  <2>2. FarkasIsProof'
    <3> SUFFICES ASSUME phase' = "farkas"
                 PROVE  \A w \in CoversAt(node) : \E p \in {w[1], w[2]} : current'.rc[p] < 0
      BY <2>1 DEF FarkasIsProof
    <3>1. current' \in FarkasPoints(Columns, node)
      BY <1>6 DEF SolveLP
    <3> QED BY <3>1 DEF FarkasPoints
  <2>3. BestAreTours' /\ SolvedIsExact'
    BY <2>1 DEF BestAreTours, SolvedIsExact
  <2>4. PricingIsExact'
    BY <2>1 DEF PricingIsExact
  <2>5. Wanted' = Wanted
    BY <2>1 DEF Wanted, upper
  <2>6. BoundIsValid'
    BY <2>1, <2>5, NoBoundIsValid DEF BoundIsValid
  <2> QED BY <1>1, <1>2, <2>1, <2>2, <2>3, <2>4, <2>6
<1>7. CASE Farkas
  <2>1. PICK paths \in FindPaths(current.rc, PathsInWindow) : AddTimedPaths(paths)
    BY <1>7 DEF Farkas
  <2>2. paths \in SUBSET Paths /\ \A p \in paths : current.rc[p] < 0
    BY <2>1, PathsAssumption DEF FindPaths, Negative, PathsInWindow
  <2>3. UNCHANGED <<settings, node, lower, reported>> /\ phase = "farkas"
    BY <1>7 DEF Farkas
  <2>4. ASSUME paths = {}, NEW p \in Wanted PROVE FALSE
    <3>1. p \in PathsInWindow  BY <1>2, <2>4, WantedInWindow
    <3>2. PathsInWindow \in SUBSET Paths  BY PathsAssumption DEF PathsInWindow
    <3>3. {} \in FindPaths(current.rc, PathsInWindow)  BY <2>4
    <3>4. current.rc[p] >= 0  BY <1>2, <3>1, <3>2, <3>3, NothingIsNegative
    <3>5. p \in Tours /\ Single(p) \in CoversAt(node)  BY <2>4 DEF Wanted
    <3>6. current.rc[p] < 0  BY <2>3, <3>5, ToursAreCovers DEF FarkasIsProof
    <3>7. current.rc[p] \in Int  BY <1>2, <1>5, <3>5
    <3> QED BY <3>4, <3>6, <3>7
  <2>5. \A p \in Wanted : reported' <= Cost[p]  BY <2>3 DEF BoundIsValid
  <2>6. reported' \in Int  BY <2>3
  <2>7. paths = {} /\ phase = "farkas" => Wanted = {}  BY <2>4
  <2> QED BY <1>1, <2>1, <2>2, <2>3, <2>5, <2>6, <2>7, AddedIsSound
<1>8. CASE PricePlain
  <2> DEFINE m == MinCost(current.rc, PathsInWindow)
  <2>1. PICK paths \in FindPaths(current.rc, PathsInWindow) :
          AddTimedPaths(paths) /\ reported' = IF paths = {} THEN -Inf ELSE current.offset + m
    BY <1>8 DEF PricePlain
  <2>2. paths \in SUBSET Paths /\ \A p \in paths : current.rc[p] < 0
    BY <2>1, PathsAssumption DEF FindPaths, Negative, PathsInWindow
  <2>3. UNCHANGED <<settings, node, lower>> /\ phase = "redcost" /\ Plain /\ Feasible(current, node)
    BY <1>8 DEF PricePlain, IInv
  <2>4. PathsInWindow \in SUBSET Paths  BY PathsAssumption DEF PathsInWindow
  <2>5. m \in Int  BY <1>2, <2>4, MinCostBounds
  <2>6. reported' \in Int  BY <1>2, <2>1, <2>5
  <2>7. \A p \in Wanted : p \in Tours /\ p \in PathsInWindow /\ Single(p) \in CoversAt(node)
    BY <1>2, WantedInWindow DEF Wanted
  <2>8. \A p \in Wanted : reported' <= Cost[p]
    <3> TAKE p \in Wanted
    <3>1. current.offset + m <= Cost[p]
      BY <1>2, <2>3, <2>4, <2>7, FoundBound
    <3> QED BY <2>1, <3>1, NoBoundIsValid
  <2>9. ASSUME paths = {}, NEW p \in Wanted PROVE current.offset <= Cost[p] + Threshold
    <3>1. {} \in FindPaths(current.rc, PathsInWindow)  BY <2>9
    <3>2. current.rc[p] >= 0  BY <1>2, <2>4, <2>7, <3>1, NothingIsNegative
    <3>3. current.offset + current.rc[p] <= Cost[p]
      BY <1>2, <2>3, <2>7, ToursAreValued
    <3>4. current.rc[p] \in Int /\ Cost[p] \in Nat  BY <1>2, <1>5, <2>7
    <3> QED BY <1>2, <3>2, <3>3, <3>4
  <2>10. ASSUME ~ hasFixedEdges, NEW p \in Tours PROVE current.offset <= Cost[p] + Threshold
    <3>1. current.offset < center.lagrangianBound
      BY <2>3, <2>10 DEF Plain, IInv
    <3> QED BY <1>2, <1>5, <3>1
  <2> QED BY <1>1, <2>1, <2>2, <2>3, <2>6, <2>8, <2>9, <2>10, AddedIsSound
<1>9. CASE Prove
  <2>1. PICK paths \in FindPaths(current.rc, Class) : AddTimedPaths(paths)
    BY <1>9 DEF Prove
  <2>2. paths \in SUBSET Paths /\ \A p \in paths : current.rc[p] < 0
    BY <2>1, PathsAssumption DEF FindPaths, Negative
  <2>3. /\ UNCHANGED <<settings, node, lower>> /\ phase = "redcost" /\ reported' = center'.lagrangianBound
        /\ node = Unfixed /\ Feasible(current, Unfixed)
    BY <1>2, <1>9, NothingIsFixed DEF Prove, IInv
  <2>4. ASSUME paths = {}, NEW p \in Tours PROVE current.offset <= Cost[p] + Threshold
    <3>1. {} \in FindPaths(current.rc, Class)  BY <2>4
    <3>2. current.rc[p] >= 0  BY <1>2, <1>5, <3>1, PathsAssumption, NothingIsNegative
    <3>3. current.offset + current.rc[p] <= Cost[p]
      BY <1>2, <2>3, ToursAreCovers, ToursAreValued
    <3>4. current.rc[p] \in Int /\ Cost[p] \in Nat  BY <1>2, <1>5
    <3> QED BY <1>2, <3>2, <3>3, <3>4
  <2>5. \A p \in Wanted : p \in Tours  BY DEF Wanted
  <2>6. \A p \in Wanted : reported' <= Cost[p]  BY <1>5, <2>3, <2>5
  <2>7. reported' \in Int  BY <1>4, <2>3
  <2> QED BY <1>1, <2>1, <2>2, <2>3, <2>4, <2>5, <2>6, <2>7, AddedIsSound
<1>10. CASE Stabilize
  <2>1. /\ phase = "redcost" /\ ~ Plain /\ center' = Moved /\ UNCHANGED <<settings, node, lower>>
    BY <1>10 DEF Stabilize
  <2>2. PICK paths \in FindPaths(StabilizedRC, Class) :
          \/ CutOff /\ reported' = -Inf /\ phase' = "optimal" /\ UNCHANGED <<variables, best, current>>
          \/ /\ CurrentPaths(paths) # {} /\ reported' = center'.lagrangianBound
             /\ AddTimedPaths(CurrentPaths(paths))
          \/ UNCHANGED <<variables, best, phase, current, reported>>
    BY <1>10 DEF Stabilize
  <2>3. \A p \in Wanted : p \in Tours  BY DEF Wanted
  <2>4. CASE CutOff /\ reported' = -Inf /\ phase' = "optimal" /\ UNCHANGED <<variables, best, current>>
    <3>1. \A p \in Tours : current.offset <= Cost[p] + Threshold
      <4> TAKE p \in Tours
      <4>1. current.offset <= center'.lagrangianBound + Threshold  BY <2>1, <2>4 DEF CutOff
      <4> QED BY <1>2, <1>4, <1>5, <4>1
    <3>2. Wanted' = Wanted /\ BestAreTours'
      BY <2>1, <2>4 DEF Wanted, upper, BestAreTours
    <3>3. PricingIsExact'
      BY <2>1, <2>3, <2>4, <3>1, <3>2 DEF PricingIsExact
    <3>4. SolvedIsExact' /\ FarkasIsProof'
      BY <2>4, <3>1 DEF SolvedIsExact, FarkasIsProof
    <3>5. BoundIsValid'
      BY <2>4, <3>2, NoBoundIsValid DEF BoundIsValid
    <3> QED BY <1>1, <1>2, <2>1, <2>4, <3>2, <3>3, <3>4, <3>5
  <2>5. CASE /\ CurrentPaths(paths) # {} /\ reported' = center'.lagrangianBound
             /\ AddTimedPaths(CurrentPaths(paths))
    <3> DEFINE found == CurrentPaths(paths)
    <3>1. found \in SUBSET Paths
      BY PathsAssumption DEF CurrentPaths, FindPaths, Negative
    <3>2. \A p \in found : current.rc[p] < 0
      <4>1. \A p \in Paths : current.rc[p] \in Int  BY <1>2
      <4> QED BY <3>1, <4>1, NumbersAssumption DEF CurrentPaths
    <3>3. AddTimedPaths(found) /\ found # {} /\ reported' \in Int  BY <1>4, <2>5
    <3>4. \A p \in Wanted : reported' <= Cost[p]  BY <1>5, <2>3, <2>5
    <3> HIDE DEF found
    <3> QED BY <1>1, <2>1, <3>1, <3>2, <3>3, <3>4, AddedIsSound
  <2>6. CASE UNCHANGED <<variables, best, phase, current, reported>>
    <3>1. Wanted' = Wanted /\ BestAreTours' /\ hasFixedEdges' = hasFixedEdges
      BY <2>1, <2>6 DEF Wanted, upper, BestAreTours, hasFixedEdges
    <3>2. PricingIsExact' /\ SolvedIsExact' /\ FarkasIsProof' /\ BoundIsValid'
      BY <2>1, <2>6, <3>1 DEF PricingIsExact, SolvedIsExact, FarkasIsProof, BoundIsValid
    <3> QED BY <1>1, <2>1, <2>6, <3>1, <3>2
  <2> QED BY <2>2, <2>4, <2>5, <2>6
<1>11. CASE NextNode
  <2>1. /\ phase \in {"optimal", "infeasible"} /\ phase' = "solve" /\ reported' = -Inf
        /\ UNCHANGED <<settings, variables, best>>
        /\ lower' = IF phase = "optimal" /\ ~ hasFixedEdges THEN Max({lower, current.offset}) ELSE lower
    BY <1>11 DEF NextNode
  <2>2. Max({lower, current.offset}) \in {lower, current.offset}
    BY <1>2 DEF Max
  <2>3. lower' = lower \/ (phase = "optimal" /\ ~ hasFixedEdges /\ lower' = current.offset)
    BY <2>1, <2>2
  <2>4. lower' \in Int /\ \A p \in Tours : lower' <= Cost[p] + Threshold
    BY <1>2, <2>3 DEF SolvedIsExact, PricingIsExact
  <2>5. PricingIsExact'
    BY <2>1, <2>4 DEF PricingIsExact
  <2>6. BestAreTours' /\ SolvedIsExact' /\ FarkasIsProof'
    BY <2>1 DEF BestAreTours, SolvedIsExact, FarkasIsProof
  <2>7. BoundIsValid'
    <3>1. \A p \in Wanted' : p \in Tours  BY DEF Wanted
    <3>2. \A p \in Tours : -Inf <= Cost[p]  BY <1>5, NumbersAssumption
    <3> QED BY <2>1, <3>1, <3>2 DEF BoundIsValid
  <2> QED BY <1>1, <1>2, <2>1, <2>4, <2>5, <2>6, <2>7
<1>12. CASE Solution
  <2>1. /\ phase = "optimal"
        /\ UNCHANGED <<settings, variables, node, lower, phase, current, center, halvings, proveDirectly, reported>>
    BY <1>12 DEF Solution
  <2>2. PICK w \in CoversAt(node) :
          /\ \A a \in Arcs : Usage(w, a) \in {0, 2}
          /\ Value(w) \div 2 < upper /\ best' = {w}
    BY <1>12 DEF Solution, CoversBy
  <2>3. PICK p \in Tours : w = Single(p)  BY <2>2, IntegralCoversAreTours
  <2>4. BestAreTours'  BY <2>1, <2>2, <2>3 DEF BestAreTours
  <2>5. best # {} => best' # {} /\ upper' <= upper
    <3> SUFFICES ASSUME best # {} PROVE upper' <= upper
      BY <2>2
    <3>1. upper \in Nat
      BY CostOfSolutions, ToursAreCovers DEF BestAreTours, upper
    <3>2. best' \subseteq {Single(q) : q \in Tours} /\ (\A y, z \in best' : Value(y) = Value(z)) /\ w \in best'
      BY <2>2, <2>4 DEF BestAreTours
    <3>3. PICK q \in Tours : w = Single(q) /\ upper' = Cost[q]
      BY <3>2, CostOfSolutions DEF upper
    <3>4. Value(w) \div 2 = Cost[q] /\ Cost[q] \in Nat  BY <3>3, ToursAreCovers
    <3> QED BY <2>2, <3>1, <3>3, <3>4
  <2>6. Wanted' \subseteq Wanted  BY <2>1, <2>4, <2>5, WantedShrinks
  <2>7. PricingIsExact' /\ SolvedIsExact' /\ FarkasIsProof' /\ BoundIsValid'
    BY <2>1, <2>6 DEF PricingIsExact, SolvedIsExact, FarkasIsProof, BoundIsValid, hasFixedEdges
  <2> QED BY <1>1, <2>1, <2>4, <2>7
<1>13. CASE Ended \/ UNCHANGED vars
  <2>1. UNCHANGED vars  BY <1>13 DEF Ended
  <2>2. Wanted' = Wanted /\ BestAreTours' /\ hasFixedEdges' = hasFixedEdges
    BY <2>1 DEF vars, Wanted, upper, BestAreTours, hasFixedEdges
  <2>3. PricingIsExact' /\ SolvedIsExact' /\ FarkasIsProof' /\ BoundIsValid'
    BY <2>1, <2>2 DEF vars, PricingIsExact, SolvedIsExact, FarkasIsProof, BoundIsValid
  <2> QED BY <1>1, <2>1, <2>2, <2>3 DEF vars
<1> QED BY <1>6, <1>7, <1>8, <1>9, <1>10, <1>11, <1>12, <1>13 DEF Next, PerformPricing

LEMMA BoundsInvariance == Spec => []PInv
<1>1. Init => PInv  BY InitIsExact
<1>2. PInv /\ [Next]_vars => PInv'  BY StepIsExact
<1> QED BY <1>1, <1>2, PTL DEF Spec

\* Every bound the pricer gives to SCIP is one: no tour that may still be looked for
\* costs less, whatever was priced, moved, rounded and fixed before.
THEOREM BoundIsAlwaysValid == Spec => []BoundIsValid
<1>1. PInv => BoundIsValid  BY DEF PInv
<1> QED BY <1>1, BoundsInvariance, PTL

\* Whatever SCIP takes for solved is so up to the threshold, its lower bound is one up
\* to the threshold, and a node that is called infeasible has no tour left to look for.
THEOREM PricingIsAlwaysExact == Spec => []PricingIsExact
<1>1. PInv => PricingIsExact  BY DEF PInv
<1> QED BY <1>1, BoundsInvariance, PTL

\* A solution with integral arcs, of halves of two paths, is one tour taken once, the
\* one solve reads from it: two paths through the same arcs at the same times do not
\* differ, and paths that part take some arc once.
THEOREM SolutionsAreTours == Spec => []SolutionIsTour
<1>1. PInv => SolutionIsTour
  <2> SUFFICES ASSUME PInv, NEW w \in best
               PROVE  solve(w) # {} /\ solve(w) \subseteq Tours
    BY DEF SolutionIsTour
  <2>1. PICK p \in Tours : w = Single(p)  BY DEF PInv, BestAreTours
  <2>2. solve(w) = {p}  BY <2>1, ToursAreCovers DEF solve
  <2> QED BY <2>1, <2>2
<1> QED BY <1>1, BoundsInvariance, PTL

\* After a misprice the center of the path-based program has moved.  Of the sparse
\* program, which has no threshold, this is checked on an instance only.
THEOREM MispriceAlwaysMovesCenter ==
  ASSUME \A s \in Settings : ~ s.sparse
  PROVE  Spec => MispriceMovesCenter
<1>1. IInv /\ [Next]_vars =>
        [Stabilize /\ phase' = "redcost" => center'.lagrangianBound > center.lagrangianBound + Eps]_vars
  <2> SUFFICES ASSUME IInv, Stabilize, phase' = "redcost"
               PROVE  center'.lagrangianBound > center.lagrangianBound + Eps
    OBVIOUS
  <2>1. phase = "redcost" /\ ~ Plain /\ center' = Moved /\ ~ settings.sparse
    BY DEF Stabilize, IInv, StateTypeOK
  <2>2. PICK paths \in FindPaths(StabilizedRC, Class) :
          \/ phase' = "optimal"
          \/ AddTimedPaths(CurrentPaths(paths))
          \/ ~ CutOff /\ CurrentPaths(paths) = {}
    BY DEF Stabilize
  <2>3. ~ AddTimedPaths(CurrentPaths(paths))  BY DEF AddTimedPaths
  <2>4. ~ CutOff /\ CurrentPaths(paths) = {}  BY <2>2, <2>3
  <2>5. Improved  BY <2>1, <2>4, MispriceImproves
  <2> QED BY <2>1, <2>5 DEF Moved, Improved
<1> QED BY <1>1, Invariance, PTL DEF Spec, MispriceMovesCenter
=============================================================================
