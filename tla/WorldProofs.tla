---------------------------- MODULE WorldProofs ----------------------------
(***************************************************************************)
(* The lengths branches keep and answer, and what vectors and coordinates  *)
(* compute, for any number of nodes and branches and any positions.        *)
(***************************************************************************)
EXTENDS World, FiniteSetTheorems, TLAPS

-----------------------------------------------------------------------------
(* Vectors: what their operators promise holds for all integers            *)

\* common_part is the intersection of two intervals, in either order, and 0, 0
\* when there is none.
THEOREM CommonPart ==
    \A a, b \in Vector : CommonPartIsIntersection(a, b, Int)
  BY DEF CommonPartIsIntersection, common_part, IsInterval, Within, Meet,
         Vector, Vec, Zero

\* operator< is a strict total order.
THEOREM Order ==
    \A a, b, c \in Vector : LessOrders(a, b, c)
  BY DEF LessOrders, Less, Equal, Vector

\* Division of natural numbers.
LEMMA DivMod ==
    ASSUME NEW m \in Nat, NEW e \in Nat, e > 0
    PROVE  m \div e \in Int /\ m % e \in Int /\ m = (e * (m \div e)) + (m % e)
  BY SMT

\* The quotient and the remainder of two numbers, of either sign.
LEMMA QuotRem ==
    ASSUME NEW n \in Int, NEW d \in Int, d # 0
    PROVE  /\ Quot(n, d) \in Int /\ Rem(n, d) \in Int
           /\ (d * Quot(n, d)) + Rem(n, d) = n
  <1>1. Abs(n) \in Nat /\ Abs(d) \in Nat /\ Abs(d) > 0
    BY DEF Abs
  <1>2. PICK q \in Int, r \in Int :
          /\ q = Abs(n) \div Abs(d) /\ r = Abs(n) % Abs(d)
          /\ Abs(n) = (Abs(d) * q) + r
    BY <1>1, DivMod
  <1>3. Quot(n, d) = IF (n < 0) = (d < 0) THEN q ELSE -q
    BY <1>2 DEF Quot
  <1>4. Rem(n, d) = IF n < 0 THEN -r ELSE r
    BY <1>2 DEF Rem, Abs
  <1>5. Abs(n) = (Abs(d) * q) + r
    BY <1>2
  <1>6. (-d) * q = -(d * q) /\ d * (-q) = -(d * q) /\ d * q \in Int
    BY <1>1
  <1>7. CASE n < 0 /\ d < 0
    <2>1. Quot(n, d) = q /\ Rem(n, d) = -r /\ -n = ((-d) * q) + r
      BY <1>3, <1>4, <1>5, <1>7 DEF Abs
    <2> QED
      BY <1>6, <2>1
  <1>8. CASE n < 0 /\ ~(d < 0)
    <2>1. Quot(n, d) = -q /\ Rem(n, d) = -r /\ -n = (d * q) + r
      BY <1>3, <1>4, <1>5, <1>8 DEF Abs
    <2> QED
      BY <1>6, <2>1
  <1>9. CASE ~(n < 0) /\ d < 0
    <2>1. Quot(n, d) = -q /\ Rem(n, d) = r /\ n = ((-d) * q) + r
      BY <1>3, <1>4, <1>5, <1>9 DEF Abs
    <2> QED
      BY <1>6, <2>1
  <1>10. CASE ~(n < 0) /\ ~(d < 0)
    <2>1. Quot(n, d) = q /\ Rem(n, d) = r /\ n = (d * q) + r
      BY <1>3, <1>4, <1>5, <1>10 DEF Abs
    <2> QED
      BY <1>6, <2>1
  <1> QED
    BY <1>7, <1>8, <1>9, <1>10

\* a is b * ( a / b ) + a % b in both coordinates, and a % b what is left.
THEOREM Recomposition ==
    \A a, b \in Vector : DivideRecomposes(a, b)
  <1> SUFFICES ASSUME NEW a \in Vector, NEW b \in Vector,
                      b.m_x # 0, b.m_y # 0
               PROVE  /\ Equal(Plus(Times(b, Divide(a, b)), Modulo(a, b)), a)
                      /\ Equal(Minus(a, Times(b, Divide(a, b))), Modulo(a, b))
    BY DEF DivideRecomposes
  <1>1. a.m_x \in Int /\ a.m_y \in Int /\ b.m_x \in Int /\ b.m_y \in Int
    BY DEF Vector
  <1>2. /\ Quot(a.m_x, b.m_x) \in Int /\ Rem(a.m_x, b.m_x) \in Int
        /\ (b.m_x * Quot(a.m_x, b.m_x)) + Rem(a.m_x, b.m_x) = a.m_x
    BY <1>1, QuotRem
  <1>3. /\ Quot(a.m_y, b.m_y) \in Int /\ Rem(a.m_y, b.m_y) \in Int
        /\ (b.m_y * Quot(a.m_y, b.m_y)) + Rem(a.m_y, b.m_y) = a.m_y
    BY <1>1, QuotRem
  <1>4. /\ a.m_x - (b.m_x * Quot(a.m_x, b.m_x)) = Rem(a.m_x, b.m_x)
        /\ a.m_y - (b.m_y * Quot(a.m_y, b.m_y)) = Rem(a.m_y, b.m_y)
    BY <1>1, <1>2, <1>3
  <1> QED
    BY <1>2, <1>3, <1>4 DEF Equal, Plus, Minus, Times, Divide, Modulo, Vec

-----------------------------------------------------------------------------
(* Roots and distances                                                     *)

\* The root of a natural number is a natural number.
LEMMA RootType ==
    ASSUME NEW n \in Nat
    PROVE  Root(n) \in Nat
  <1>1. IsFiniteSet(1 .. n)
    BY FS_Interval
  <1>2. IsFiniteSet({r \in 1 .. n : r * r <= n})
    BY <1>1, FS_Subset
  <1> QED
    BY <1>2, FS_CardinalityType DEF Root

\* A greater number has no smaller root.
LEMMA RootMonotonic ==
    ASSUME NEW n \in Nat, NEW m \in Nat, n <= m
    PROVE  Root(n) <= Root(m)
  <1>1. IsFiniteSet(1 .. m)
    BY FS_Interval
  <1>2. IsFiniteSet({r \in 1 .. m : r * r <= m})
    BY <1>1, FS_Subset
  <1>3. {r \in 1 .. n : r * r <= n} \subseteq {r \in 1 .. m : r * r <= m}
    OBVIOUS
  <1> QED
    BY <1>2, <1>3, FS_Subset DEF Root

\* What an axis adds to the square of a distance is a natural number.
LEMMA SquareType ==
    ASSUME NEW i \in Int, NEW j \in Int
    PROVE  Square(Abs(i - j)) \in Nat
  <1>1. Abs(i - j) \in Nat
    BY DEF Abs
  <1>2. \A k \in Nat : k * k \in Nat
    OBVIOUS
  <1> QED
    BY <1>1, <1>2 DEF Square

\* A position a node is given has three axes.
LEMMA PositionAxes ==
    ASSUME NEW p \in Positions
    PROVE  /\ p \in Seq(Int) /\ Len(p) = 3
           /\ p[1] \in Int /\ p[2] \in Int /\ p[3] \in Int
  <1>1. PICK x \in Int, y \in Int, z \in Int : p = <<x, y, z>>
    BY WorldAssumption DEF WorldAssumption
  <1> QED
    BY <1>1

\* The square of a distance that can be measured is a natural number.
LEMMA SpanType ==
    ASSUME NEW c \in Positions \cup {Unset}, NEW b \in Positions \cup {Unset},
           Measurable(c, b)
    PROVE  SquaredSpan(c, b) \in Nat
  <1>1. CASE c = Unset
    BY <1>1 DEF SquaredSpan, SquaredAlong, Unset, AXISX, AXISY, AXISZ
  <1>2. CASE c # Unset
    <2>1. c \in Positions /\ Len(c) = 3
      BY <1>2, PositionAxes
    <2>2. b \in Positions
      BY <2>1 DEF Measurable, Unset
    <2>3. /\ Square(Abs(c[1] - b[1])) \in Nat
          /\ Square(Abs(c[2] - b[2])) \in Nat
          /\ Square(Abs(c[3] - b[3])) \in Nat
      BY <2>1, <2>2, PositionAxes, SquareType
    <2> QED
      BY <2>1, <2>3 DEF SquaredSpan, SquaredAlong, Get, AXISX, AXISY, AXISZ
  <1> QED
    BY <1>1, <1>2

-----------------------------------------------------------------------------
(* The invariant                                                           *)

\* It holds at first: no branch was measured.
LEMMA Initially == Init => WorldInv
  <1> SUFFICES ASSUME Init
               PROVE  WorldInv
    OBVIOUS
  <1>1. TypeOK
    <2>1. pos \in [Nodes -> Positions \cup {Unset, Unbuilt}]
      BY DEF Init
    <2>2. /\ startNode \in [Branches -> Nodes \cup {NoNode}]
          /\ endNode \in [Branches -> Nodes \cup {NoNode}]
          /\ cachedLen \in [Branches -> Int] /\ ret \in [Branches -> Int]
          /\ changed \subseteq Branches
      BY DEF Init
    <2>3. crashed \in BOOLEAN
      BY DEF Init
    <2> QED
      BY <2>1, <2>2, <2>3 DEF TypeOK
  <1>2. EndsBuilt
    BY DEF Init, EndsBuilt, Ends
  <1>3. CacheIsDistance
    BY DEF Init, CacheIsDistance
  <1> QED
    BY <1>1, <1>2, <1>3 DEF WorldInv

\* The nodes that are built stay built, and a branch that was not changed and
\* has the nodes it had, where they were, keeps its distance.
LEMMA Untouched ==
    ASSUME NEW b \in Branches, EndsBuilt, HasLen(b),
           startNode'[b] = startNode[b], endNode'[b] = endNode[b],
           \A n \in Built : n \in Ends(b) => pos'[n] = pos[n]
    PROVE  HasLen(b)' /\ Distance(b)' = Distance(b)
  <1>1. startNode[b] \in Built /\ endNode[b] \in Built
    BY DEF EndsBuilt, HasLen, Ends
  <1>2. pos'[startNode[b]] = pos[startNode[b]]
        /\ pos'[endNode[b]] = pos[endNode[b]]
    BY <1>1 DEF Ends
  <1> QED
    BY <1>2 DEF HasLen, Distance

\* The distance of ends that have one is an integer.
LEMMA DistanceType ==
    ASSUME NEW b \in Branches, TypeOK, EndsBuilt, HasLen(b)
    PROVE  Distance(b) \in Int
  <1>1. /\ pos[endNode[b]] \in Positions \cup {Unset}
        /\ pos[startNode[b]] \in Positions \cup {Unset}
    BY DEF TypeOK, EndsBuilt, HasLen, Ends, Built
  <1> QED
    BY <1>1, SpanType, RootType DEF Distance, HasLen

\* A new node is the end of no branch yet.
LEMMA ConstructPreserves ==
    ASSUME WorldInv, NEW n \in Nodes, NEW p \in Positions \cup {Unset},
           Construct(n, p)
    PROVE  WorldInv'
  <1> USE DEF WorldInv
  <1>1. TypeOK'
    BY DEF TypeOK, Construct, branchVars
  <1>2. EndsBuilt'
    BY WorldAssumption DEF TypeOK, EndsBuilt, Construct, Ends, Built,
       branchVars, WorldAssumption
  <1>3. CacheIsDistance'
    <2> SUFFICES ASSUME NEW b \in Branches \ changed
                 PROVE  HasLen(b)' /\ cachedLen'[b] = Distance(b)'
      BY DEF Construct, CacheIsDistance, branchVars
    <2>1. HasLen(b) /\ cachedLen[b] = Distance(b)
      BY DEF CacheIsDistance
    <2>2. \A m \in Built : pos'[m] = pos[m]
      BY DEF Construct, Built, TypeOK
    <2> QED
      BY <2>1, <2>2, Untouched DEF Construct, branchVars
  <1> QED
    BY <1>1, <1>2, <1>3

\* The branches of a node that moves count as changed.
LEMMA SetPosPreserves ==
    ASSUME WorldInv, NEW n \in Nodes, NEW p \in Positions, SetPos(n, p)
    PROVE  WorldInv'
  <1> USE DEF WorldInv
  <1>1. TypeOK'
    BY DEF TypeOK, SetPos, branchVars
  <1>2. EndsBuilt'
    BY WorldAssumption DEF TypeOK, EndsBuilt, SetPos, Ends, Built, branchVars,
       WorldAssumption
  <1>3. CacheIsDistance'
    <2> SUFFICES ASSUME NEW b \in Branches \ changed, n \notin Ends(b)
                 PROVE  HasLen(b)' /\ cachedLen'[b] = Distance(b)'
      BY DEF SetPos, CacheIsDistance, branchVars
    <2>1. HasLen(b) /\ cachedLen[b] = Distance(b)
      BY DEF CacheIsDistance
    <2>2. \A m \in Built : m \in Ends(b) => pos'[m] = pos[m]
      BY DEF SetPos, TypeOK, Built
    <2> QED
      BY <2>1, <2>2, Untouched DEF SetPos, branchVars
  <1> QED
    BY <1>1, <1>2, <1>3

\* So does a branch with another end.
LEMMA BecomePreserves ==
    ASSUME WorldInv, NEW b \in Branches, NEW s \in Built \cup {NoNode},
           NEW e \in Built \cup {NoNode}, NEW l \in Int, Become(b, s, e, l)
    PROVE  WorldInv'
  <1> USE DEF WorldInv
  <1>1. TypeOK'
    BY DEF TypeOK, Become, Built
  <1>2. EndsBuilt'
    BY DEF TypeOK, EndsBuilt, Become, Ends, Built
  <1>3. CacheIsDistance'
    <2> SUFFICES ASSUME NEW c \in Branches \ changed, c # b
                 PROVE  HasLen(c)' /\ cachedLen'[c] = Distance(c)'
      BY DEF Become, CacheIsDistance
    <2>1. HasLen(c) /\ cachedLen[c] = Distance(c)
      BY DEF CacheIsDistance
    <2>2. /\ startNode'[c] = startNode[c] /\ endNode'[c] = endNode[c]
          /\ cachedLen'[c] = cachedLen[c] /\ pos' = pos
      BY DEF Become, TypeOK
    <2> QED
      BY <2>1, <2>2, Untouched
  <1> QED
    BY <1>1, <1>2, <1>3

\* A branch that is measured keeps the distance of its ends.
LEMMA GetLenPreserves ==
    ASSUME WorldInv, NEW b \in Branches, NEW flush \in BOOLEAN,
           GetLen(b, flush)
    PROVE  WorldInv'
  <1> USE DEF WorldInv
  <1>1. CASE UsesCache(b, flush)
    <2>1. TypeOK'
      BY <1>1 DEF TypeOK, GetLen
    <2>2. EndsBuilt'
      BY <1>1 DEF EndsBuilt, GetLen, Ends, Built
    <2>3. CacheIsDistance'
      BY <1>1 DEF CacheIsDistance, GetLen, HasLen, Distance
    <2> QED
      BY <2>1, <2>2, <2>3
  <1>2. CASE ~UsesCache(b, flush)
    <2>1. /\ HasLen(b) /\ UNCHANGED <<pos, startNode, endNode, crashed>>
          /\ cachedLen' = [cachedLen EXCEPT ![b] = Distance(b)]
          /\ ret' = [ret EXCEPT ![b] = cachedLen'[b]]
          /\ changed' = changed \ {b}
      BY <1>2 DEF GetLen, Measured
    <2>2. Distance(b) \in Int
      BY <2>1, DistanceType
    <2>3. TypeOK'
      BY <2>1, <2>2 DEF TypeOK
    <2>4. EndsBuilt'
      BY <2>1 DEF EndsBuilt, Ends, Built
    <2>5. ASSUME NEW c \in Branches
          PROVE  (HasLen(c)' <=> HasLen(c)) /\ Distance(c)' = Distance(c)
      BY <2>1 DEF HasLen, Distance
    <2>6. CacheIsDistance'
      BY <2>1, <2>5 DEF CacheIsDistance, TypeOK
    <2> QED
      BY <2>3, <2>4, <2>6
  <1> QED
    BY <1>1, <1>2

\* Every step keeps the invariant.
LEMMA Preserved == WorldInv /\ [Next]_vars => WorldInv'
  <1> SUFFICES ASSUME WorldInv, [Next]_vars
               PROVE  WorldInv'
    OBVIOUS
  <1>1. ASSUME NEW n \in Nodes, NewNode(n)
        PROVE  WorldInv'
    BY <1>1, ConstructPreserves DEF NewNode
  <1>2. ASSUME NEW n \in Nodes, NEW p \in Positions, NewNodeAt(n, p)
        PROVE  WorldInv'
    BY <1>2, ConstructPreserves DEF NewNodeAt
  <1>3. ASSUME NEW n \in Nodes, NEW orig \in Nodes, CopyNode(n, orig)
        PROVE  WorldInv'
    BY <1>3, ConstructPreserves DEF CopyNode
  <1>4. ASSUME NEW n \in Nodes, NEW p \in Positions, SetPos(n, p)
        PROVE  WorldInv'
    BY <1>4, SetPosPreserves
  <1>5. ASSUME NEW b \in Branches, NewBranch(b)
        PROVE  WorldInv'
    BY <1>5, BecomePreserves DEF NewBranch
  <1>6. ASSUME NEW b \in Branches, CopyBranch(b)
        PROVE  WorldInv'
    BY <1>6, BecomePreserves, WorldAssumption DEF CopyBranch, WorldAssumption
  <1>7. ASSUME NEW b \in Branches, NEW s \in Built, NEW e \in Built,
               NewBranchBetween(b, s, e)
        PROVE  WorldInv'
    BY <1>7, BecomePreserves DEF NewBranchBetween
  <1>8. ASSUME NEW b \in Branches, NEW n \in Built,
               SetStartNode(b, n) \/ SetEndNode(b, n)
        PROVE  WorldInv'
    <2>1. /\ startNode[b] \in Built \cup {NoNode}
          /\ endNode[b] \in Built \cup {NoNode}
          /\ cachedLen[b] \in Int
      BY DEF WorldInv, TypeOK, EndsBuilt, Ends
    <2> QED
      BY <1>8, <2>1, BecomePreserves DEF SetStartNode, SetEndNode
  <1>9. ASSUME NEW b \in Branches, NEW flush \in BOOLEAN, GetLen(b, flush)
        PROVE  WorldInv'
    BY <1>9, GetLenPreserves
  <1>10. ASSUME NEW b \in Branches, NEW flush \in BOOLEAN,
                LenCrashes(b, flush)
         PROVE  WorldInv'
    BY <1>10 DEF LenCrashes, branchVars, WorldInv, TypeOK, EndsBuilt, Ends,
       Built, CacheIsDistance, HasLen, Distance
  <1>11. CASE UNCHANGED vars
    BY <1>11 DEF vars, branchVars, WorldInv, TypeOK, EndsBuilt, Ends, Built,
       CacheIsDistance, HasLen, Distance
  <1> QED
    BY <1>1, <1>2, <1>3, <1>4, <1>5, <1>6, <1>7, <1>8, <1>9, <1>10, <1>11
       DEF Next

\* A length that is kept is the distance of the ends unless one was moved or
\* replaced, whatever the nodes, branches and positions.
THEOREM Invariance == Spec => []WorldInv
  BY Initially, Preserved, PTL DEF Spec

\* Len answers the distance of the ends with flush, and without when nothing
\* changed, and ends the process for no branch between placed nodes.
THEOREM Answers == Spec => LenAnswers
  <1> DEFINE Step ==
        \A b \in Branches :
          /\ \A flush \in BOOLEAN :
               /\ GetLen(b, flush)
               /\ flush \/ b \notin changed \/ cachedLen[b] = 0
               => HasLen(b) /\ ret'[b] = Distance(b)
          /\ Ends(b) \subseteq Placed
               => \A flush \in BOOLEAN : ~LenCrashes(b, flush)
  <1>1. ASSUME WorldInv
        PROVE  Step
    <2> SUFFICES ASSUME NEW b \in Branches, NEW flush \in BOOLEAN
                 PROVE  /\ /\ GetLen(b, flush)
                           /\ flush \/ b \notin changed \/ cachedLen[b] = 0
                           => HasLen(b) /\ ret'[b] = Distance(b)
                        /\ Ends(b) \subseteq Placed => ~LenCrashes(b, flush)
      OBVIOUS
    <2> USE <1>1 DEF WorldInv
    <2>1. ASSUME GetLen(b, flush),
                 flush \/ b \notin changed \/ cachedLen[b] = 0
          PROVE  HasLen(b) /\ ret'[b] = Distance(b)
      <3>1. CASE UsesCache(b, flush)
        BY <2>1, <3>1 DEF GetLen, UsesCache, CacheIsDistance, TypeOK
      <3>2. CASE ~UsesCache(b, flush)
        BY <2>1, <3>2 DEF GetLen, Measured, TypeOK
      <3> QED
        BY <3>1, <3>2
    <2>2. ASSUME Ends(b) \subseteq Placed
          PROVE  HasLen(b)
      <3>1. startNode[b] \in Placed /\ endNode[b] \in Placed
        BY <2>2 DEF Ends
      <3>2. pos[startNode[b]] \in Positions /\ pos[endNode[b]] \in Positions
        BY <3>1 DEF Placed, Built, TypeOK
      <3>3. Measurable(pos[endNode[b]], pos[startNode[b]])
        BY <3>2, PositionAxes DEF Measurable
      <3> QED
        BY <3>1, <3>3, WorldAssumption
           DEF HasLen, Placed, Built, WorldAssumption
    <2> QED
      BY <2>1, <2>2 DEF LenCrashes
  <1>2. WorldInv /\ [Next]_vars => [Step]_vars
    BY <1>1
  <1>3. Spec => [][Step]_vars
    BY <1>2, Invariance, PTL DEF Spec
  <1> QED
    BY <1>3, PTL DEF LenAnswers

-----------------------------------------------------------------------------
(* Vectors and coordinates                                                 *)

\* A placed node has a point below it in the plane.
LEMMA PlanarType ==
    ASSUME TypeOK, NEW n \in Placed
    PROVE  /\ pos[n] \in Positions
           /\ Planar(n) = Vec(pos[n][1], pos[n][2])
           /\ Planar(n) \in Vector
  <1>1. pos[n] \in Positions
    BY DEF TypeOK, Placed, Built
  <1> QED
    BY <1>1, PositionAxes DEF Planar, Get, AXISX, AXISY, Vec, Vector

\* The operators of TwoDVector keep their laws wherever the nodes are.
THEOREM VectorLaws == Spec => []VectorsInv
  <1>1. ASSUME TypeOK
        PROVE  VectorsInv
    <2> SUFFICES ASSUME NEW m \in Placed, NEW n \in Placed,
                        NEW near \in SUBSET Int
                 PROVE  LET a == Planar(m)
                            b == Planar(n)
                        IN  /\ CommonPartIsIntersection(a, b, near)
                            /\ LessOrders(a, b, switch_values(a))
                            /\ DivideRecomposes(a, b)
                            /\ DivideRecomposes(a, Scalar(b.m_x))
      <3>1. ASSUME NEW m \in Placed, NEW n \in Placed
            PROVE  {k + i : k \in {Planar(m).m_x, Planar(m).m_y,
                                   Planar(n).m_x, Planar(n).m_y},
                            i \in {-1, 0, 1}} \in SUBSET Int
        BY <1>1, PlanarType DEF Vector
      <3> QED
        BY <3>1 DEF VectorsInv
    <2>1. Planar(m) \in Vector /\ Planar(n) \in Vector
      BY <1>1, PlanarType
    <2>2. switch_values(Planar(m)) \in Vector /\ Scalar(Planar(n).m_x) \in Vector
      BY <2>1 DEF switch_values, Scalar, Vec, Vector
    <2>3. CommonPartIsIntersection(Planar(m), Planar(n), near)
      BY <2>1, CommonPart DEF CommonPartIsIntersection
    <2> QED
      BY <2>1, <2>2, <2>3, Order, Recomposition
  <1>2. WorldInv => VectorsInv
    BY <1>1 DEF WorldInv
  <1> QED
    BY <1>2, Invariance, PTL

\* The three ways to measure a distance agree, and a projection brings nodes
\* no further apart.
THEOREM Distances == Spec => []DistancesAgree
  <1>1. ASSUME TypeOK, NEW m \in Placed, NEW n \in Placed
        PROVE  LET p == NormalProjection(pos[m])
                   q == NormalProjection(pos[n])
               IN  /\ SquaredTwoD(p, q) = SquaredSpan(p, q)
                   /\ SquaredTwoD(p, q) = SquaredDistance(Planar(m), Planar(n))
                   /\ Root(SquaredSpan(p, q))
                        <= Root(SquaredSpan(pos[m], pos[n]))
    <2> DEFINE p == NormalProjection(pos[m])
               q == NormalProjection(pos[n])
    <2>1. pos[m] \in Positions /\ pos[n] \in Positions
      BY <1>1, PlanarType
    <2>2. PICK x \in Int, y \in Int, z \in Int : pos[m] = <<x, y, z>>
      BY <2>1, WorldAssumption DEF WorldAssumption
    <2>3. PICK u \in Int, v \in Int, w \in Int : pos[n] = <<u, v, w>>
      BY <2>1, WorldAssumption DEF WorldAssumption
    <2>4. /\ Len(p) = 2 /\ p[1] = x /\ p[2] = y
          /\ Len(q) = 2 /\ q[1] = u /\ q[2] = v
      <3>1. Len(pos[m]) = 3 /\ pos[m] \in Seq(Int)
            /\ Len(pos[n]) = 3 /\ pos[n] \in Seq(Int)
        BY <2>1, PositionAxes
      <3> QED
        BY <2>2, <2>3, <3>1 DEF NormalProjection
    <2>5. PICK i \in Nat, j \in Nat, k \in Nat :
            /\ i = Square(Abs(x - u)) /\ j = Square(Abs(y - v))
            /\ k = Square(Abs(z - w))
      BY SquareType
    <2>6. SquaredTwoD(p, q) = i + j
      BY <2>4, <2>5 DEF SquaredTwoD, Get, AXISX, AXISY
    <2>7. SquaredSpan(p, q) = i + j
      BY <2>4, <2>5
         DEF SquaredSpan, SquaredAlong, Get, AXISX, AXISY, AXISZ
    <2>8. SquaredSpan(pos[m], pos[n]) = i + j + k
      BY <2>2, <2>3, <2>5
         DEF SquaredSpan, SquaredAlong, Get, AXISX, AXISY, AXISZ
    <2>9. Planar(m) = Vec(x, y) /\ Planar(n) = Vec(u, v)
      BY <1>1, <2>2, <2>3, PlanarType
    <2>10. SquaredDistance(Planar(m), Planar(n)) = i + j
      BY <2>5, <2>9 DEF SquaredDistance, Vec, Square
    <2>11. Root(i + j) <= Root(i + j + k)
      BY RootMonotonic
    <2> QED
      BY <2>6, <2>7, <2>8, <2>10, <2>11
  <1>2. WorldInv => DistancesAgree
    BY <1>1 DEF WorldInv, DistancesAgree
  <1> QED
    BY <1>2, Invariance, PTL
=============================================================================
