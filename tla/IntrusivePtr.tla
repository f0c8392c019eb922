---------------------------- MODULE IntrusivePtr ----------------------------
(***************************************************************************)
(* The pointers to one RawConnectionStatus: boost::intrusive_ptr with the  *)
(* two functions of src/core/Atomic.hpp.  Connection has the first, and    *)
(* every handler and every method that is given the status a copy, on the  *)
(* threads these run on.  A release compares and counts down in two steps. *)
(***************************************************************************)
EXTENDS Integers, FiniteSets

CONSTANTS
    Pointers,
    Owner           \* mStatus of the Connection

VARIABLES
    mIntrusiveCount,
    held,           \* the pointers to the status
    releasing,      \* those about to count down
    deleted,        \* the status is gone
    overlapped      \* history: a release found another under way

vars == <<mIntrusiveCount, held, releasing, deleted, overlapped>>

\* The pointer p is made from q: intrusive_ptr_add_ref
AddRef(p, q) ==
    /\ q \in held /\ p \notin held \cup releasing
    /\ mIntrusiveCount' = mIntrusiveCount + 1
    /\ held' = held \cup {p}
    /\ UNCHANGED <<releasing, deleted, overlapped>>

\* intrusive_ptr_release with a count of 1
ReleaseLast(p) ==
    /\ p \in held /\ mIntrusiveCount = 1
    /\ mIntrusiveCount' = 0
    /\ held' = held \ {p}
    /\ deleted' = TRUE
    /\ UNCHANGED <<releasing, overlapped>>

\* The comparison fails, ...
Release(p) ==
    /\ p \in held /\ mIntrusiveCount # 1
    /\ held' = held \ {p}
    /\ releasing' = releasing \cup {p}
    /\ overlapped' = (overlapped \/ releasing # {})
    /\ UNCHANGED <<mIntrusiveCount, deleted>>

\* ... and the count goes down.
ReleaseDec(p) ==
    /\ p \in releasing
    /\ mIntrusiveCount' = mIntrusiveCount - 1
    /\ releasing' = releasing \ {p}
    /\ UNCHANGED <<held, deleted, overlapped>>

Init ==
    /\ mIntrusiveCount = 1 /\ held = {Owner} /\ releasing = {}
    /\ deleted = FALSE /\ overlapped = FALSE

Next ==
    \E p \in Pointers :
        \/ \E q \in Pointers : AddRef(p, q)
        \/ ReleaseLast(p) \/ Release(p) \/ ReleaseDec(p)

Spec == Init /\ [][Next]_vars

-----------------------------------------------------------------------------
(* Properties                                                              *)

\* The count is the number of those that point to the status or have still to
\* count down.
CountIsPointers ==
    /\ IsFiniteSet(held) /\ IsFiniteSet(releasing)
    /\ held \cap releasing = {}
    /\ mIntrusiveCount = Cardinality(held) + Cardinality(releasing)
    /\ deleted \in BOOLEAN /\ overlapped \in BOOLEAN

\* Atomic.hpp, RawConnection.hpp: when the status is deleted nobody points to
\* it or has still to count down, and the CHECK_EQ of its destructor holds.
DeletedUnused ==
    deleted => held = {} /\ releasing = {} /\ mIntrusiveCount = 0

\* Atomic.hpp: the status is leaked, its last pointer gone and nobody left to
\* delete it, only when two releases overlapped: both found a count of 2.
LeakNeedsOverlap ==
    ~deleted /\ held = {} => overlapped

PtrInv == CountIsPointers /\ DeletedUnused /\ LeakNeedsOverlap
=============================================================================
