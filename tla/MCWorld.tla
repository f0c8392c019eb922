------------------------------ MODULE MCWorld ------------------------------
(* World for TLC: positions around the origin, on two levels.              *)
EXTENDS World, TLC

CONSTANTS
    West, East,     \* bound: how far from the origin
    Height          \* bound: the highest level

Map == (-West .. East) \X (-West .. East) \X (0 .. Height)

Symmetry == Permutations(Nodes)
=============================================================================
