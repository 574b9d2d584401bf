-------------------------------- MODULE Ieee --------------------------------
(***************************************************************************)
(* What the operations of a floating-point unit promise: the result is the *)
(* exact one, rounded once to the format, and the flags say what happened. *)
(* The exact result is a number n * 2^e with a sign.  Where it has         *)
(* infinitely many digits, or too many for TLC's integers, the last bit of *)
(* n stands for all that follow: there are always more than two bits       *)
(* between it and the last bit of any result.                              *)
(***************************************************************************)
EXTENDS FloatFormat

ExactNumber(sign, n, e) == [sign |-> sign, n |-> n, e |-> e]

ValueOf(f, a) ==
  IF a.exp = 0 THEN ExactNumber(a.sign, a.sig, 1 - Bias(f) - f.F)
               ELSE ExactNumber(a.sign, a.sig + Hidden(f), a.exp - Bias(f) - f.F)

isFinite(f, a) == a.exp < InfExp(f)

-----------------------------------------------------------------------------
(* Rounding *)

Above(sign) == IF sign = 1 THEN round_min ELSE round_max

\* n / 2^k to an integer, k >= 0.
ToInteger(rm, sign, n, k) ==
  LET far == k > 30
      q == IF far THEN 0 ELSE n \div 2 ^ k
      r == IF far THEN n ELSE n % 2 ^ k
      half == IF far \/ k = 0 THEN n + 1 ELSE 2 ^ (k - 1)
      up == CASE r = 0 -> FALSE
              [] rm = round_near_even -> r > half \/ (r = half /\ q % 2 = 1)
              [] rm = round_near_maxMag -> r >= half
              [] OTHER -> rm = Above(sign)
  IN  [m |-> IF up THEN q + 1 ELSE q, inexact |-> r # 0]

\* n * 2^e to a multiple of 2^q.
ToMultiple(rm, x, q) ==
  IF x.e >= q THEN [m |-> x.n * 2 ^ (x.e - q), inexact |-> FALSE]
              ELSE ToInteger(rm, x.sign, x.n, q - x.e)

\* The float m * 2^q.
Encode(f, sign, m, q) ==
  IF m < Hidden(f) THEN [sign |-> sign, exp |-> 0, sig |-> m]
  ELSE IF m = 2 * Hidden(f) THEN [sign |-> sign, exp |-> q + Bias(f) + f.F + 1, sig |-> 0]
  ELSE [sign |-> sign, exp |-> q + Bias(f) + f.F, sig |-> m - Hidden(f)]

\* x # 0 in the format f.
RoundTo(f, rm, x) ==
  LET top == Log2(x.n) + x.e
      least == 1 - Bias(f)
      q == IF top < least THEN least - f.F ELSE top - f.F
      r == ToMultiple(rm, x, q)
      unbounded == ToMultiple(rm, x, top - f.F)
      tiny == Log2(unbounded.m) + top - f.F < least
      overflow == r.m # 0 /\ Log2(r.m) + q > Bias(f)
      away == rm \in {round_near_even, round_near_maxMag, Above(x.sign)}
  IN  IF overflow
      THEN Result(IF away THEN [sign |-> x.sign, exp |-> InfExp(f), sig |-> 0]
                  ELSE [sign |-> x.sign, exp |-> InfExp(f) - 1, sig |-> Hidden(f) - 1],
                  {"OF", "NX"})
      ELSE Result(Encode(f, x.sign, r.m, q),
                  When(r.inexact, "NX") \cup When(r.inexact /\ tiny, "UF"))

-----------------------------------------------------------------------------
(* The exact results *)

\* x with its highest bit at 22.
Aligned(x) ==
  LET k == 22 - Log2(x.n) IN ExactNumber(x.sign, x.n * 2 ^ k, x.e - k)

ExactSum(x, y) ==
  LET ax == Aligned(x)
      ay == Aligned(y)
      hi == IF ax.e >= ay.e THEN ax ELSE ay
      lo == IF ax.e >= ay.e THEN ay ELSE ax
      d == hi.e - lo.e
      low == IF d <= 7 THEN lo.n * 2 ^ (7 - d)
             ELSE IF d - 7 > 30 THEN 1 ELSE jam(lo.n \div 2 ^ (d - 7), lo.n % 2 ^ (d - 7) # 0)
      n == IF hi.sign = lo.sign THEN hi.n * 2 ^ 7 + low ELSE hi.n * 2 ^ 7 - low
  IN  IF x.n = 0 THEN y ELSE IF y.n = 0 THEN x
      ELSE IF n < 0 THEN ExactNumber(lo.sign, 0 - n, hi.e - 7)
      ELSE ExactNumber(hi.sign, n, hi.e - 7)

ExactProduct(x, y) == ExactNumber((x.sign + y.sign) % 2, x.n * y.n, x.e + y.e)

ExactQuotient(x, y) ==
  LET k == 28 - Log2(x.n)
      q == (x.n * 2 ^ k) \div y.n
  IN  ExactNumber((x.sign + y.sign) % 2,
                  2 * q + (IF (x.n * 2 ^ k) % y.n = 0 THEN 0 ELSE 1), x.e - y.e - k - 1)

\* root is the integer part of a square root.
ExactRoot(x, root(_)) ==
  LET k == 27 - Log2(x.n) + ((x.e - (27 - Log2(x.n))) % 2)
      n == x.n * 2 ^ k
      r == root(n)
  IN  ExactNumber(0, 2 * r + (IF r * r = n THEN 0 ELSE 1), (x.e - k) \div 2 - 1)

-----------------------------------------------------------------------------
(* The operations.  An operation with a NaN is a NaN. *)

SumOfZeros(f, rm, s, t) == [sign |-> IF s = t THEN s ELSE IF rm = round_min THEN 1 ELSE 0,
                            exp |-> 0, sig |-> 0]
Inf(f, sign) == [sign |-> sign, exp |-> InfExp(f), sig |-> 0]
NoNumber(f, flags) ==
  Result([sign |-> 0, exp |-> InfExp(f), sig |-> Hidden(f) \div 2], flags)
FromNaNs(f, S) == NoNumber(f, When(\E a \in S : isSigNaN(f, a), "NV"))

\* A sum of which s and t are the signs if both are zero.
RoundSum(f, rm, x, y) ==
  LET z == ExactSum(x, y)
  IN  IF z.n = 0 THEN Result(SumOfZeros(f, rm, x.sign, y.sign), {}) ELSE RoundTo(f, rm, z)

IeeeAdd(f, rm, a, b) ==
  IF isNaN(f, a) \/ isNaN(f, b) THEN FromNaNs(f, {a, b})
  ELSE IF isInf(f, a) /\ isInf(f, b) /\ a.sign # b.sign THEN NoNumber(f, {"NV"})
  ELSE IF isInf(f, a) THEN Result(a, {})
  ELSE IF isInf(f, b) THEN Result(b, {})
  ELSE RoundSum(f, rm, ValueOf(f, a), ValueOf(f, b))

IeeeFma(f, rm, a, b, c) ==
  LET sign == (a.sign + b.sign) % 2
      inf == isInf(f, a) \/ isInf(f, b)
  IN  IF inf /\ (isZero(a) \/ isZero(b)) THEN NoNumber(f, {"NV"})
      ELSE IF \E x \in {a, b, c} : isNaN(f, x) THEN FromNaNs(f, {a, b, c})
      ELSE IF inf /\ isInf(f, c) /\ c.sign # sign THEN NoNumber(f, {"NV"})
      ELSE IF inf THEN Result(Inf(f, sign), {})
      ELSE IF isInf(f, c) THEN Result(c, {})
      ELSE RoundSum(f, rm, ExactProduct(ValueOf(f, a), ValueOf(f, b)), ValueOf(f, c))

IeeeMul(f, rm, a, b) ==
  LET sign == (a.sign + b.sign) % 2
  IN  IF isNaN(f, a) \/ isNaN(f, b) THEN FromNaNs(f, {a, b})
      ELSE IF isInf(f, a) \/ isInf(f, b)
      THEN IF isZero(a) \/ isZero(b) THEN NoNumber(f, {"NV"}) ELSE Result(Inf(f, sign), {})
      ELSE IF isZero(a) \/ isZero(b) THEN Result(SumOfZeros(f, rm, sign, sign), {})
      ELSE RoundTo(f, rm, ExactProduct(ValueOf(f, a), ValueOf(f, b)))

IeeeDiv(f, rm, a, b) ==
  LET sign == (a.sign + b.sign) % 2
  IN  IF isNaN(f, a) \/ isNaN(f, b) THEN FromNaNs(f, {a, b})
      ELSE IF (isInf(f, a) /\ isInf(f, b)) \/ (isZero(a) /\ isZero(b)) THEN NoNumber(f, {"NV"})
      ELSE IF isInf(f, a) THEN Result(Inf(f, sign), {})
      ELSE IF isZero(b) THEN Result(Inf(f, sign), {"DZ"})
      ELSE IF isInf(f, b) \/ isZero(a) THEN Result(SumOfZeros(f, rm, sign, sign), {})
      ELSE RoundTo(f, rm, ExactQuotient(ValueOf(f, a), ValueOf(f, b)))

IeeeSqrt(f, rm, a, root(_)) ==
  IF isNaN(f, a) THEN FromNaNs(f, {a})
  ELSE IF isZero(a) THEN Result(a, {})
  ELSE IF a.sign = 1 THEN NoNumber(f, {"NV"})
  ELSE IF isInf(f, a) THEN Result(a, {})
  ELSE RoundTo(f, rm, ExactRoot(ValueOf(f, a), root))

-----------------------------------------------------------------------------
(* Conversions *)

IeeeToInt(f, rm, low, high, a) ==
  LET x == ValueOf(f, a)
      big == a.exp > Bias(f) + 24
      r == ToMultiple(rm, x, 0)
      z == IF a.sign = 1 THEN 0 - r.m ELSE r.m
  IN  IF isNaN(f, a) THEN Result(high, {"NV"})
      ELSE IF big THEN Result(IF a.sign = 1 THEN low ELSE high, {"NV"})
      ELSE IF z < low THEN Result(low, {"NV"})
      ELSE IF z > high THEN Result(high, {"NV"})
      ELSE Result(z, When(r.inexact, "NX"))

IeeeFromInt(f, rm, i) ==
  IF i = 0 THEN Result([sign |-> 0, exp |-> 0, sig |-> 0], {})
  ELSE RoundTo(f, rm, ExactNumber(IF i < 0 THEN 1 ELSE 0, IF i < 0 THEN 0 - i ELSE i, 0))

IeeeConvert(from, to, rm, a) ==
  IF isNaN(from, a) THEN NoNumber(to, When(isSigNaN(from, a), "NV"))
  ELSE IF isInf(from, a) THEN Result(Inf(to, a.sign), {})
  ELSE IF isZero(a) THEN Result([sign |-> a.sign, exp |-> 0, sig |-> 0], {})
  ELSE RoundTo(to, rm, ValueOf(from, a))

\* The place of a number among all of its format; both zeros have one place.
Place(f, a) == IF a.sign = 1 THEN 0 - (a.exp * Hidden(f) + a.sig) ELSE a.exp * Hidden(f) + a.sig
=============================================================================
