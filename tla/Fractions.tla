----------------------------- MODULE Fractions -----------------------------
(* Exact arithmetic for the interpolations of the library tables, which the  *)
(* code does in double and float: a number is <<numerator, denominator>>     *)
(* with a positive denominator.  Rounding is not modelled.                   *)
EXTENDS Integers

Whole(n) == <<n, 1>>
Plus(a, b) == IF a[2] = b[2] THEN <<a[1] + b[1], a[2]>>
              ELSE <<a[1] * b[2] + b[1] * a[2], a[2] * b[2]>>
Negative(a) == <<-a[1], a[2]>>
Minus(a, b) == Plus(a, Negative(b))
Times(a, b) == <<a[1] * b[1], a[2] * b[2]>>
Over(a, b) == IF b[1] > 0 THEN <<a[1] * b[2], a[2] * b[1]>>
              ELSE <<-a[1] * b[2], -a[2] * b[1]>>
Same(a, b) == a[1] * b[2] = b[1] * a[2]
Less(a, b) == a[1] * b[2] < b[1] * a[2]
AtMost(a, b) == ~Less(b, a)

=============================================================================
