------------------------------- MODULE World -------------------------------
(***************************************************************************)
(* Nodes of the map and the branches between them:                         *)
(* src/core/model/{Node,Branch}.{hpp,cpp}.  A branch keeps the length it   *)
(* measured last and measures again when that is 0 or when it is told to.  *)
(* Its list of tracks is empty: no operation puts one there.               *)
(*                                                                         *)
(* The copy constructors copy nothing.  What a copied branch has for a     *)
(* length is what was in its memory.                                       *)
(***************************************************************************)
EXTENDS Integers, Sequences, Coordinate

CONSTANTS
    Nodes,
    Branches,
    NoNode,         \* a null NodePtr
    Unbuilt,        \* a node that was not constructed
    Positions,      \* the positions nodes are given
    Leftover        \* what memory may hold where a length comes to be

ASSUME WorldAssumption ==
    /\ NoNode \notin Nodes
    /\ Positions \subseteq Int \X Int \X Int
    /\ Unbuilt \notin Positions \cup {Unset}
    /\ Leftover \subseteq Int

VARIABLES
    pos,            \* the position of a node
    startNode, endNode, cachedLen,  \* of a branch
    ret,            \* history: what the last Len of a branch returned
    changed,        \* history: the branches with an end that was moved or
                    \* replaced since they were measured, or never were
    crashed         \* the process is gone

branchVars == <<startNode, endNode, cachedLen>>
vars == <<pos, branchVars, ret, changed, crashed>>

Ends(b) == {startNode[b], endNode[b]}

Built == {n \in Nodes : pos[n] # Unbuilt}

-----------------------------------------------------------------------------
(* Nodes                                                                   *)

Construct(n, p) ==
    /\ ~crashed /\ pos[n] = Unbuilt
    /\ pos' = [pos EXCEPT ![n] = p]
    /\ UNCHANGED <<branchVars, ret, changed, crashed>>

NewNode(n) == Construct(n, Unset)

NewNodeAt(n, p) == Construct(n, p)

\* Node( orig ): the position of orig is not taken over.
CopyNode(n, orig) == orig \in Built /\ Construct(n, Unset)

\* The branches of the node are not told.
SetPos(n, p) ==
    /\ ~crashed /\ n \in Built
    /\ pos' = [pos EXCEPT ![n] = p]
    /\ changed' = changed \cup {b \in Branches : n \in Ends(b)}
    /\ UNCHANGED <<branchVars, ret, crashed>>

-----------------------------------------------------------------------------
(* Branches.  One is built in the place of the one of the same name.       *)

Become(b, s, e, l) ==
    /\ ~crashed
    /\ startNode' = [startNode EXCEPT ![b] = s]
    /\ endNode' = [endNode EXCEPT ![b] = e]
    /\ cachedLen' = [cachedLen EXCEPT ![b] = l]
    /\ changed' = changed \cup {b}
    /\ UNCHANGED <<pos, ret, crashed>>

NewBranch(b) == Become(b, NoNode, NoNode, 0)

NewBranchBetween(b, s, e) == Become(b, s, e, 0)

CopyBranch(b) == \E l \in Leftover : Become(b, NoNode, NoNode, l)

SetStartNode(b, n) == Become(b, n, endNode[b], cachedLen[b])

SetEndNode(b, n) == Become(b, startNode[b], n, cachedLen[b])

-----------------------------------------------------------------------------
(* Len                                                                     *)

HasLen(b) ==
    /\ startNode[b] # NoNode /\ endNode[b] # NoNode
    /\ Measurable(pos[endNode[b]], pos[startNode[b]])

Distance(b) == Root(SquaredSpan(pos[endNode[b]], pos[startNode[b]]))

\* Mutant: the length that was kept is returned when it should be flushed.
UsesCacheAlways(b, flush) == cachedLen[b] # 0

UsesCache(b, flush) == ~flush /\ cachedLen[b] # 0

\* Mutant: the distance is added to what was there, as lengths of tracks are.
MeasuredMore(b) == cachedLen[b] + Distance(b)

Measured(b) == Distance(b)

GetLen(b, flush) ==
    /\ ~crashed
    /\ IF UsesCache(b, flush)
       THEN /\ ret' = [ret EXCEPT ![b] = cachedLen[b]]
            /\ UNCHANGED <<cachedLen, changed>>
       ELSE /\ HasLen(b)
            /\ cachedLen' = [cachedLen EXCEPT ![b] = Measured(b)]
            /\ ret' = [ret EXCEPT ![b] = cachedLen'[b]]
            /\ changed' = changed \ {b}
    /\ UNCHANGED <<pos, startNode, endNode, crashed>>

\* A null pointer is used, or Get throws.
LenCrashes(b, flush) ==
    /\ ~crashed
    /\ ~UsesCache(b, flush) /\ ~HasLen(b)
    /\ crashed' = TRUE
    /\ UNCHANGED <<pos, branchVars, ret, changed>>

-----------------------------------------------------------------------------
Init ==
    /\ pos = [n \in Nodes |-> Unbuilt]
    /\ startNode = [b \in Branches |-> NoNode]
    /\ endNode = [b \in Branches |-> NoNode]
    /\ cachedLen = [b \in Branches |-> 0]
    /\ ret = [b \in Branches |-> 0]
    /\ changed = Branches
    /\ crashed = FALSE

Next ==
    \/ \E n \in Nodes :
         \/ NewNode(n)
         \/ \E p \in Positions : NewNodeAt(n, p) \/ SetPos(n, p)
         \/ \E orig \in Nodes : CopyNode(n, orig)
    \/ \E b \in Branches :
         \/ NewBranch(b)
         \/ CopyBranch(b)
         \/ \E s, e \in Built : NewBranchBetween(b, s, e)
         \/ \E n \in Built : SetStartNode(b, n) \/ SetEndNode(b, n)
         \/ \E flush \in BOOLEAN : GetLen(b, flush) \/ LenCrashes(b, flush)

Spec == Init /\ [][Next]_vars

-----------------------------------------------------------------------------
(* Properties                                                              *)

TypeOK ==
    /\ pos \in [Nodes -> Positions \cup {Unset, Unbuilt}]
    /\ startNode \in [Branches -> Nodes \cup {NoNode}]
    /\ endNode \in [Branches -> Nodes \cup {NoNode}]
    /\ cachedLen \in [Branches -> Int] /\ ret \in [Branches -> Int]
    /\ changed \subseteq Branches
    /\ crashed \in BOOLEAN

\* A branch has built nodes for its ends, or none.
EndsBuilt ==
    \A b \in Branches : Ends(b) \subseteq Built \cup {NoNode}

\* Branch.hpp, cachedLen: the length that is kept is the distance of the ends
\* as long as neither was moved or replaced.
CacheIsDistance ==
    \A b \in Branches \ changed : HasLen(b) /\ cachedLen[b] = Distance(b)

WorldInv == TypeOK /\ EndsBuilt /\ CacheIsDistance

Placed == {n \in Built : pos[n] # Unset}

\* Branch.cpp, Len: with flush it answers the distance of the ends as they
\* are now, and without when nothing changed since it was measured or it has
\* nothing but 0; it ends the process for no branch between placed nodes.
LenAnswers ==
    [][\A b \in Branches :
         /\ \A flush \in BOOLEAN :
              /\ GetLen(b, flush)
              /\ flush \/ b \notin changed \/ cachedLen[b] = 0
              => HasLen(b) /\ ret'[b] = Distance(b)
         /\ Ends(b) \subseteq Placed
              => \A flush \in BOOLEAN : ~LenCrashes(b, flush)]_vars

Planar(n) == Vec(Get(pos[n], AXISX), Get(pos[n], AXISY))

\* TwoDVector.hpp: the laws of the operators, for the points of the plane
\* below two nodes.
VectorsInv ==
    \A m, n \in Placed :
      LET a == Planar(m)
          b == Planar(n)
          c == switch_values(a)
          edges == {a.m_x, a.m_y, b.m_x, b.m_y}
          near == {k + i : k \in edges, i \in {-1, 0, 1}}
      IN  /\ CommonPartIsIntersection(a, b, near)
          /\ LessOrders(a, b, c)
          /\ DivideRecomposes(a, b)
          /\ DivideRecomposes(a, Scalar(b.m_x))

\* Coordinate.hpp and TwoDVector.hpp have three ways to measure a distance: in
\* the plane they agree, and nodes are never closer than their projections.
DistancesAgree ==
    \A m, n \in Placed :
      LET p == NormalProjection(pos[m])
          q == NormalProjection(pos[n])
      IN  /\ SquaredTwoD(p, q) = SquaredSpan(p, q)
          /\ SquaredTwoD(p, q) = SquaredDistance(Planar(m), Planar(n))
          /\ Root(SquaredSpan(p, q)) <= Root(SquaredSpan(pos[m], pos[n]))
=============================================================================
