-------------------------- MODULE MCRawConnection --------------------------
(* Instances of RawConnection for TLC.                                     *)
EXTENDS RawConnection, TLC

Symmetry == Permutations(IOThreads) \cup Permutations(Callers)
=============================================================================
