----------------------------- MODULE Fractions6 -----------------------------
(***************************************************************************)
(* Python's Fraction: a pair of a numerator and a positive denominator in  *)
(* lowest terms, so that equal fractions are equal values.                 *)
(***************************************************************************)
EXTENDS Integers

RECURSIVE Gcd(_, _)
Gcd(m, n) == IF n = 0 THEN m ELSE Gcd(n, m % n)

Abs(n) == IF n < 0 THEN -n ELSE n

Fraction(n, d) ==
    LET g == Gcd(Abs(n), Abs(d))
        s == IF d < 0 THEN -1 ELSE 1
    IN <<s * (n \div g), s * (d \div g)>>

Whole(n) == <<n, 1>>
Plus(x, y) == Fraction(x[1] * y[2] + y[1] * x[2], x[2] * y[2])
Minus(x, y) == Fraction(x[1] * y[2] - y[1] * x[2], x[2] * y[2])
Times(x, y) == Fraction(x[1] * y[1], x[2] * y[2])
Over(x, y) == Fraction(x[1] * y[2], x[2] * y[1])
Least(x, y) == IF x[1] * y[2] <= y[1] * x[2] THEN x ELSE y
Most(x, y) == IF x[1] * y[2] <= y[1] * x[2] THEN y ELSE x
AtMost(x, y) == x[1] * y[2] <= y[1] * x[2]
Below(x, y) == x[1] * y[2] < y[1] * x[2]
=============================================================================
