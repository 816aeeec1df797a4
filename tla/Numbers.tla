------------------------------ MODULE Numbers ------------------------------
(***************************************************************************)
(* The numbers that Quad code computes with: Python's int, without bounds, *)
(* and float, taken to be exact within its range: a fraction n/d in lowest *)
(* terms, or with d = 0 an infinity (n is 1 or -1) or nan (n = 0).  A      *)
(* truth value is the int 0 or 1.                                          *)
(***************************************************************************)
EXTENDS Integers

CONSTANTS
  MAX_FLOAT, \* the largest float
  MAX_TEXT   \* the largest int that Python turns into a text, or reads from one

Abs(n)  == IF n < 0 THEN -n ELSE n
Sign(n) == IF n < 0 THEN -1 ELSE IF n = 0 THEN 0 ELSE 1

CommonDivisors(n, d) == {k \in 1 .. d : n % k = 0 /\ d % k = 0}
Whole(n) == [type |-> "INT", n |-> n, d |-> 1]
\* A float that is too large is infinite
Fraction(n, d) ==
  LET D == CommonDivisors(n, d)
      g == CHOOSE k \in D : \A m \in D : m <= k
  IN  IF Abs(n) > MAX_FLOAT * d \/ d = 0 THEN [type |-> "FLOAT", n |-> Sign(n), d |-> 0]
      ELSE [type |-> "FLOAT", n |-> n \div g, d |-> d \div g]
Number(type, n, d) == IF type = "INT" THEN Whole(n) ELSE Fraction(n, d)
Truth(b) == IF b THEN Whole(1) ELSE Whole(0)

IsFinite(x) == x.d # 0
IsNan(x)    == x.d = 0 /\ x.n = 0
IsZero(x)   == x.d # 0 /\ x.n = 0
\* Where float() and print() raise an exception
FitsFloat(x) == x.type = "INT" => Abs(x.n) <= MAX_FLOAT
HasText(x)   == x.type = "INT" => Abs(x.n) <= MAX_TEXT

\* int(), of what is finite: towards zero
ToInt(x) == IF x.n >= 0 THEN Whole(x.n \div x.d) ELSE Whole(-((-x.n) \div x.d))
ToFloat(x) == Fraction(x.n, x.d)
\* Python's // rounds down, like \div, which wants a positive divisor
FloorDiv(a, b) == IF b > 0 THEN a \div b ELSE (-a) \div (-b)

\* Comparisons: nan is neither equal to anything nor less
Equal(a, b) == a.n = b.n /\ a.d = b.d /\ ~IsNan(a)
Less(a, b) ==
  /\ ~IsNan(a) /\ ~IsNan(b)
  /\ IF IsFinite(a) \/ IsFinite(b) THEN a.n * b.d < b.n * a.d ELSE a.n < b.n

\* Two infinities add up to one, or to nan
Plus(type, a, b) ==
  IF IsFinite(a) \/ IsFinite(b) THEN Number(type, a.n * b.d + b.n * a.d, a.d * b.d)
  ELSE Number(type, IF a.n = b.n THEN a.n ELSE 0, 0)

Relation == {"EQL", "NQL", "LSS", "GRT"}
Arithmetic == {"ADD", "SUB", "MLT", "DIV"}

\* a do b, for two numbers of one type
Compute(do, type, a, b) ==
  CASE do = "EQL" -> Truth(Equal(a, b))
    [] do = "NQL" -> Truth(~Equal(a, b))
    [] do = "LSS" -> Truth(Less(a, b))
    [] do = "GRT" -> Truth(Less(b, a))
    [] do = "ADD" -> Plus(type, a, b)
    [] do = "SUB" -> Plus(type, a, [b EXCEPT !.n = -@])
    [] do = "MLT" -> Number(type, a.n * b.n, a.d * b.d)
    [] do = "DIV" /\ type = "INT" -> Whole(FloorDiv(a.n, b.n))
    [] do = "DIV" /\ type = "FLOAT" -> Fraction(a.n * b.d * Sign(b.n), a.d * Abs(b.n))
=============================================================================
