----------------------------- MODULE TwoDVector -----------------------------
(***************************************************************************)
(* The pairs of numbers of src/core/TwoDVector.hpp, points of a plane or   *)
(* ends of an interval, with numeric_t = int.  Every binary operator is    *)
(* there four times, with a vector or a number on the right and with the   *)
(* result in a new vector or in the left one: all of them compute the same *)
(* here, with Scalar for the number.  Integers are unbounded.              *)
(***************************************************************************)
EXTENDS Integers

Vector == [m_x : Int, m_y : Int]

Vec(x, y) == [m_x |-> x, m_y |-> y]

\* TwoDVector( )
Zero == Vec(0, 0)

Scalar(n) == Vec(n, n)

Abs(n) == IF n < 0 THEN -n ELSE n

-----------------------------------------------------------------------------
(* Operators                                                               *)

Plus(a, b)  == Vec(a.m_x + b.m_x, a.m_y + b.m_y)
Minus(a, b) == Vec(a.m_x - b.m_x, a.m_y - b.m_y)
Times(a, b) == Vec(a.m_x * b.m_x, a.m_y * b.m_y)

\* Integer division of the language rounds towards 0, ...
Quot(n, d) ==
    IF (n < 0) = (d < 0) THEN Abs(n) \div Abs(d) ELSE -(Abs(n) \div Abs(d))

\* ... and a remainder has the sign of the dividend.
Rem(n, d) == IF n < 0 THEN -(Abs(n) % Abs(d)) ELSE n % Abs(d)

Divide(a, b) == Vec(Quot(a.m_x, b.m_x), Quot(a.m_y, b.m_y))
Modulo(a, b) == Vec(Rem(a.m_x, b.m_x), Rem(a.m_y, b.m_y))

switch_values(a) == Vec(a.m_y, a.m_x)

Equal(a, b) == a.m_x = b.m_x /\ a.m_y = b.m_y

\* operator<
Less(l, r) == l.m_x < r.m_x \/ (l.m_x = r.m_x /\ l.m_y < r.m_y)

\* The square of distance( ), which is the root of a whole number.
SquaredDistance(a, b) ==
    Abs(a.m_x - b.m_x) * Abs(a.m_x - b.m_x)
        + Abs(a.m_y - b.m_y) * Abs(a.m_y - b.m_y)

\* Mutant: the end of the second interval is not looked at.
common_part_open(a, b) ==
    LET first  == IF a.m_x < b.m_x THEN a ELSE b
        second == IF a.m_x < b.m_x THEN b ELSE a
    IN  IF first.m_y < second.m_x THEN Zero ELSE Vec(second.m_x, first.m_y)

\* What two intervals have in common.
common_part(a, b) ==
    LET first  == IF a.m_x < b.m_x THEN a ELSE b
        second == IF a.m_x < b.m_x THEN b ELSE a
    IN  IF first.m_y < second.m_x
        THEN Zero
        ELSE Vec(second.m_x, IF second.m_y < first.m_y THEN second.m_y
                                                       ELSE first.m_y)

-----------------------------------------------------------------------------
(* What the operators are for                                              *)

IsInterval(a) == a.m_x <= a.m_y

Within(k, a) == a.m_x <= k /\ k <= a.m_y

Meet(a, b) == a.m_x <= b.m_y /\ b.m_x <= a.m_y

\* TwoDVector.hpp, common_part: of two intervals that meet it is what is in
\* both, in whichever order they come; intervals that do not meet have 0, 0 in
\* common, which is an interval as well.  K is a set of numbers to look at.
CommonPartIsIntersection(a, b, K) ==
    IsInterval(a) /\ IsInterval(b) =>
        /\ common_part(a, b) = common_part(b, a)
        /\ IF Meet(a, b)
           THEN \A k \in K :
                  Within(k, common_part(a, b)) <=> Within(k, a) /\ Within(k, b)
           ELSE common_part(a, b) = Zero

\* operator< is the strict total order that a map or a set needs of its key.
LessOrders(a, b, c) ==
    /\ ~Less(a, a)
    /\ Less(a, b) \/ Less(b, a) \/ Equal(a, b)
    /\ Less(a, b) => ~Less(b, a) /\ ~Equal(a, b)
    /\ Less(a, b) /\ Less(b, c) => Less(a, c)

\* operator/ and operator% belong together, for operands of either sign: the
\* remainder is what the quotient leaves.
DivideRecomposes(a, b) ==
    b.m_x # 0 /\ b.m_y # 0 =>
        /\ Equal(Plus(Times(b, Divide(a, b)), Modulo(a, b)), a)
        /\ Equal(Minus(a, Times(b, Divide(a, b))), Modulo(a, b))
=============================================================================
