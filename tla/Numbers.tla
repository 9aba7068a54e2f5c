------------------------------ MODULE Numbers ------------------------------
(***************************************************************************)
(* NumberType<double>: doubles of which one positive and one negative      *)
(* value stand for infinity.  A double is an exact fraction here: the      *)
(* weights of a call graph are counts and quotients of counts.  The        *)
(* checks of the code for a sum that wraps around are left out, since a    *)
(* sum of doubles of this size cannot.                                     *)
(***************************************************************************)
EXTENDS Integers

CONSTANT POS_INFINITY    \* the value that stands for infinity, 100000

ASSUME InfinityAssumption == POS_INFINITY \in Nat \ {0}

Frac(n, d) == [num |-> n, den |-> d]
Number(n) == Frac(n, 1)

Zero == Number(0)
Infinity == Number(POS_INFINITY)
NegInfinity == Number(-POS_INFINITY)

Less(a, b) == a.num * b.den < b.num * a.den
Equal(a, b) == a.num * b.den = b.num * a.den
AtMost(a, b) == a.num * b.den <= b.num * a.den

isPosInfinity(a) == Equal(a, Infinity)
isNegInfinity(a) == Equal(a, NegInfinity)

AbsInt(n) == IF n < 0 THEN -n ELSE n
Abs(a) == Frac(AbsInt(a.num), a.den)

(***************************************************************************)
(* The arithmetic of doubles themselves.                                   *)
(***************************************************************************)
plus(a, b) ==
  IF a.den = b.den THEN Frac(a.num + b.num, a.den)
                   ELSE Frac(a.num * b.den + b.num * a.den, a.den * b.den)
minus(a, b) == plus(a, Frac(-b.num, b.den))
times(a, b) == Frac(a.num * b.num, a.den * b.den)
over(a, b) == Frac(a.num * b.den, a.den * b.num)   \* for b > 0

(***************************************************************************)
(* safe_sum: infinity absorbs what does not have the other sign; a finite  *)
(* number of the other sign is added as to any number.                     *)
(***************************************************************************)
safe_sum(a, b) ==
  CASE \/ isPosInfinity(a) /\ b.num >= 0
       \/ isPosInfinity(b) /\ a.num >= 0 -> Infinity
    [] \/ isPosInfinity(a) /\ isNegInfinity(b)
       \/ isPosInfinity(b) /\ isNegInfinity(a) -> Zero
    [] \/ isNegInfinity(a) /\ b.num <= 0
       \/ isNegInfinity(b) /\ a.num <= 0 -> NegInfinity
    [] OTHER -> plus(a, b)

\* operator - and -=
safe_difference(a, b) == safe_sum(a, Frac(-b.num, b.den))

Signed(positive) == IF positive THEN Infinity ELSE NegInfinity

(***************************************************************************)
(* The product of two finite numbers other than 0: without its sign, and   *)
(* infinite when it is less than the first factor.                         *)
(***************************************************************************)
finiteProduct(a, b) ==
  LET product == Abs(times(a, b))
  IN  IF Less(product, Abs(a)) THEN Signed(~(a.num < 0 \/ b.num < 0)) ELSE product

(***************************************************************************)
(* safe_mult.  The sign of an infinite product is that of the second       *)
(* factor, or of the first where one of them is the negative infinity.     *)
(***************************************************************************)
safe_mult(a, b) ==
  IF a.num = 0 \/ b.num = 0 THEN Zero
  ELSE CASE \/ isPosInfinity(a) /\ ~isNegInfinity(b)
            \/ isPosInfinity(b) /\ ~isNegInfinity(a) -> Signed(b.num > 0)
         [] \/ isPosInfinity(a) /\ isNegInfinity(b)
            \/ isPosInfinity(b) /\ isNegInfinity(a) -> NegInfinity
         [] \/ isNegInfinity(a) /\ ~isPosInfinity(b)
            \/ isNegInfinity(b) /\ ~isPosInfinity(a) -> Signed(a.num > 0)
         [] OTHER -> finiteProduct(a, b)
=============================================================================
