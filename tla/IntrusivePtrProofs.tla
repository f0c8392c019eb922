------------------------- MODULE IntrusivePtrProofs -------------------------
(***************************************************************************)
(* The lifetime of a RawConnectionStatus, for any number of pointers.      *)
(***************************************************************************)
EXTENDS IntrusivePtr, FiniteSetTheorems, TLAPS

\* At first the owner has the one pointer.
LEMMA Initially == Init => PtrInv
  <1>1. IsFiniteSet({Owner}) /\ Cardinality({Owner}) = 1
    BY FS_Singleton
  <1>2. IsFiniteSet({}) /\ Cardinality({}) = 0
    BY FS_EmptySet
  <1> SUFFICES ASSUME Init
               PROVE  PtrInv
    OBVIOUS
  <1>3. mIntrusiveCount = Cardinality(held) + Cardinality(releasing)
    BY <1>1, <1>2 DEF Init
  <1>4. CountIsPointers
    BY <1>1, <1>2, <1>3 DEF Init, CountIsPointers
  <1>5. DeletedUnused /\ LeakNeedsOverlap
    BY DEF Init, DeletedUnused, LeakNeedsOverlap
  <1> QED
    BY <1>4, <1>5 DEF PtrInv

\* How many pointers there are of each kind is a natural number, and 0 when
\* there are none.
LEMMA Counts ==
    ASSUME CountIsPointers
    PROVE  /\ Cardinality(held) \in Nat /\ Cardinality(releasing) \in Nat
           /\ Cardinality(held) = 0 <=> held = {}
           /\ Cardinality(releasing) = 0 <=> releasing = {}
  BY FS_CardinalityType, FS_EmptySet DEF CountIsPointers

\* A copy is made of a pointer, so the status is not deleted.
LEMMA AddRefPreserves ==
    ASSUME PtrInv, NEW p \in Pointers, NEW q \in Pointers, AddRef(p, q)
    PROVE  PtrInv'
  <1>1. IsFiniteSet(held') /\ Cardinality(held') = Cardinality(held) + 1
    BY FS_AddElement DEF PtrInv, CountIsPointers, AddRef
  <1>2. CountIsPointers'
    BY <1>1, Counts DEF PtrInv, CountIsPointers, AddRef
  <1>3. DeletedUnused'
    BY DEF PtrInv, DeletedUnused, AddRef
  <1>4. LeakNeedsOverlap'
    BY DEF LeakNeedsOverlap, AddRef
  <1> QED
    BY <1>2, <1>3, <1>4 DEF PtrInv

\* With a count of 1 there is one pointer and nobody else is to count down.
LEMMA ReleaseLastPreserves ==
    ASSUME PtrInv, NEW p \in Pointers, ReleaseLast(p)
    PROVE  PtrInv'
  <1>1. IsFiniteSet(held') /\ Cardinality(held') = Cardinality(held) - 1
    BY FS_RemoveElement DEF PtrInv, CountIsPointers, ReleaseLast
  <1>2. Cardinality(held) = 1 /\ Cardinality(releasing) = 0
    BY Counts DEF PtrInv, CountIsPointers, ReleaseLast
  <1>3. held' = {} /\ releasing' = {}
    BY <1>1, <1>2, Counts, FS_EmptySet DEF PtrInv, ReleaseLast
  <1>4. CountIsPointers'
    BY <1>1, <1>2, <1>3 DEF PtrInv, CountIsPointers, ReleaseLast
  <1> QED
    BY <1>3, <1>4 DEF PtrInv, DeletedUnused, LeakNeedsOverlap, ReleaseLast

\* The last pointer goes here only while another release is under way.
LEMMA ReleasePreserves ==
    ASSUME PtrInv, NEW p \in Pointers, Release(p)
    PROVE  PtrInv'
  <1>1. IsFiniteSet(held') /\ Cardinality(held') = Cardinality(held) - 1
    BY FS_RemoveElement DEF PtrInv, CountIsPointers, Release
  <1>2. /\ IsFiniteSet(releasing')
        /\ Cardinality(releasing') = Cardinality(releasing) + 1
    BY FS_AddElement DEF PtrInv, CountIsPointers, Release
  <1>3. CountIsPointers'
    BY <1>1, <1>2, Counts DEF PtrInv, CountIsPointers, Release
  <1>4. DeletedUnused'
    BY DEF PtrInv, DeletedUnused, Release
  <1>5. LeakNeedsOverlap'
    \* Without an overlap p is the only one that is releasing, and the count
    \* that was not 1 counted another pointer.
    <2> SUFFICES ASSUME ~overlapped'
                 PROVE  held' # {}
      BY DEF LeakNeedsOverlap
    <2>1. Cardinality(releasing) = 0
      BY Counts DEF PtrInv, Release
    <2>2. Cardinality(held) \in Nat /\ Cardinality(held) # 1
      BY <2>1, Counts DEF PtrInv, CountIsPointers, Release
    <2>3. Cardinality(held') # 0
      BY <1>1, <2>2
    <2> QED
      BY <2>3, FS_EmptySet
  <1> QED
    BY <1>3, <1>4, <1>5 DEF PtrInv

\* Whoever counts down was counted.
LEMMA ReleaseDecPreserves ==
    ASSUME PtrInv, NEW p \in Pointers, ReleaseDec(p)
    PROVE  PtrInv'
  <1>1. /\ IsFiniteSet(releasing')
        /\ Cardinality(releasing') = Cardinality(releasing) - 1
    BY FS_RemoveElement DEF PtrInv, CountIsPointers, ReleaseDec
  <1>2. CountIsPointers'
    BY <1>1, Counts DEF PtrInv, CountIsPointers, ReleaseDec
  <1>3. DeletedUnused' /\ LeakNeedsOverlap'
    BY DEF PtrInv, DeletedUnused, LeakNeedsOverlap, ReleaseDec
  <1> QED
    BY <1>2, <1>3 DEF PtrInv

\* Every step keeps the invariant.
LEMMA Preserved == PtrInv /\ [Next]_vars => PtrInv'
  <1> SUFFICES ASSUME PtrInv, [Next]_vars
               PROVE  PtrInv'
    OBVIOUS
  <1>1. CASE UNCHANGED vars
    BY <1>1 DEF vars, PtrInv, CountIsPointers, DeletedUnused,
       LeakNeedsOverlap
  <1>2. CASE Next
    BY <1>2, AddRefPreserves, ReleaseLastPreserves, ReleasePreserves,
       ReleaseDecPreserves DEF Next
  <1> QED
    BY <1>1, <1>2

\* However the copies and releases of the pointers interleave, the status is
\* deleted when nobody needs it, and leaked only after two releases that
\* overlapped.
THEOREM StatusLifetime == Spec => []PtrInv
  BY Initially, Preserved, PTL DEF Spec

\* The status is deleted once at most, and no pointer to it is made or
\* released afterwards.
THEOREM DeletedForGood == Spec => [][~deleted]_vars
  <1>1. PtrInv /\ [Next]_vars => [~deleted]_vars
    BY DEF PtrInv, DeletedUnused, Next, AddRef, ReleaseLast, Release,
       ReleaseDec
  <1> QED
    BY <1>1, StatusLifetime, PTL DEF Spec
=============================================================================
