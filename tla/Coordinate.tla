----------------------------- MODULE Coordinate -----------------------------
(***************************************************************************)
(* The points of src/core/Coordinate.hpp with a lenType, an int, for a     *)
(* measure.  The class has its number of dimensions for a parameter and    *)
(* keeps its values in a vector that has as many only when a constructor   *)
(* was given them: a coordinate is a sequence that may be shorter.         *)
(***************************************************************************)
EXTENDS Integers, Sequences, FiniteSets, TwoDVector

AXISX == 0
AXISY == 1
AXISZ == 2

\* Coordinate( )
Unset == <<>>

\* value.at( axis ), for an axis that is there
Get(c, axis) == c[axis + 1]

\* The value of the last axis is thrown away.
NormalProjection(c) == SubSeq(c, 1, Len(c) - 1)

Square(n) == n * n

\* Mutant: the first axis only.
SquaredTwoDFirst(c, b) == Square(Abs(Get(c, AXISX) - Get(b, AXISX)))

\* The square of the distance of two points of a plane, TwoDCoordinate.
SquaredTwoD(c, b) ==
    Square(Abs(Get(c, AXISX) - Get(b, AXISX)))
        + Square(Abs(Get(c, AXISY) - Get(b, AXISY)))

\* Get, that must not throw, ends the process when b has no such axis.
Measurable(c, b) == Len(c) <= Len(b)

\* What an axis adds to the square of a distance, if c has it.
SquaredAlong(c, b, axis) ==
    IF axis < Len(c) THEN Square(Abs(Get(c, axis) - Get(b, axis))) ELSE 0

\* The square of the distance for any number of axes: those c has.
SquaredSpan(c, b) ==
    SquaredAlong(c, b, AXISX) + SquaredAlong(c, b, AXISY)
        + SquaredAlong(c, b, AXISZ)

\* The root of a whole number, as a lenType: the fraction is lost.
Root(n) == Cardinality({r \in 1 .. n : r * r <= n})
=============================================================================
