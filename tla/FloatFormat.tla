---------------------------- MODULE FloatFormat ----------------------------
(***************************************************************************)
(* What the 32-bit and the 64-bit half of SoftFloat (softfloat/s_*.c and   *)
(* softfloat/specialize.h) have in common.  The code is written twice, for *)
(* two formats; here a format is a record: E bits of exponent, F bits of   *)
(* fraction, and G guard bits below the fraction in a word of F + 2 + G    *)
(* bits (8, 23, 7 for a float32_t in a uint32_t, 11, 52, 10 for a          *)
(* float64_t in a uint64_t).                                               *)
(*                                                                         *)
(* A float is its three bit fields, a result the float and the exception   *)
(* flags that were raised on the way to it.  Rounding modes are the        *)
(* numbers of softfloat.h.                                                 *)
(***************************************************************************)
EXTENDS Integers, SequencesExt

round_near_even == 0
round_minMag == 1
round_min == 2
round_max == 3
round_near_maxMag == 4

Word(f) == f.F + 2 + f.G
Bias(f) == 2 ^ (f.E - 1) - 1
InfExp(f) == 2 ^ f.E - 1
Hidden(f) == 2 ^ f.F
Float(f) == [sign : {0, 1}, exp : 0..InfExp(f), sig : 0..(Hidden(f) - 1)]

Result(z, flags) == [z |-> z, flags |-> flags]
When(condition, flag) == IF condition THEN {flag} ELSE {}
Flip(a) == [a EXCEPT !.sign = 1 - @]

-----------------------------------------------------------------------------
(* Bit fields and NaNs *)

\* uiA without its sign.
Magnitude(f, a) == a.exp * Hidden(f) + a.sig

\* The fields are added, so that a significand may carry into the exponent.
packToUI(f, sign, exp, sig) ==
  LET bits == exp * Hidden(f) + sig
  IN  [sign |-> sign, exp |-> bits \div Hidden(f), sig |-> bits % Hidden(f)]

Zero(f, sign) == packToUI(f, sign, 0, 0)
Infinity(f, sign) == packToUI(f, sign, InfExp(f), 0)
defaultNaN(f) == packToUI(f, 0, InfExp(f), 2 ^ (f.F - 1))
isZero(a) == a.exp = 0 /\ a.sig = 0
isInf(f, a) == a.exp = InfExp(f) /\ a.sig = 0
isNaN(f, a) == a.exp = InfExp(f) /\ a.sig # 0
isSigNaN(f, a) == isNaN(f, a) /\ a.sig < 2 ^ (f.F - 1)

propagateNaN(f, a, b) ==
  Result(defaultNaN(f), When(isSigNaN(f, a) \/ isSigNaN(f, b), "NV"))
invalid(f) == Result(defaultNaN(f), {"NV"})

-----------------------------------------------------------------------------
(* Shifts.  A word is w bits wide. *)

\* The position of the highest bit of a # 0.
Log2(a) == CHOOSE k \in 0..30 : 2 ^ k <= a /\ (k = 30 \/ a < 2 ^ (k + 1))
countLeadingZeros(w, a) == IF a = 0 THEN w ELSE w - 1 - Log2(a)

\* What is shifted out leaves a bit behind.
jam(a, bits) == IF bits /\ a % 2 = 0 THEN a + 1 ELSE a
shiftRightJam(w, a, dist) ==
  IF dist < w - 1 THEN jam(a \div 2 ^ dist, a % 2 ^ dist # 0)
                  ELSE IF a = 0 THEN 0 ELSE 1

\* What is shifted out is kept in a second word.
shiftRightJamExtra(w, a, dist) ==
  IF dist <= w
  THEN [v |-> a \div 2 ^ dist, extra |-> (a % 2 ^ dist) * 2 ^ (w - dist)]
  ELSE [v |-> 0, extra |-> IF a = 0 THEN 0 ELSE 1]

\* The exponent and the significand, with its hidden bit, of a # 0.
normSubnormalSig(f, sig) ==
  LET shiftCount == countLeadingZeros(Word(f), sig) - (f.G + 1)
  IN  [exp |-> 1 - shiftCount, sig |-> sig * 2 ^ shiftCount]
Normal(f, a) ==
  IF a.exp = 0 THEN normSubnormalSig(f, a.sig)
               ELSE [exp |-> a.exp, sig |-> a.sig + Hidden(f)]

-----------------------------------------------------------------------------
(* Rounding *)

roundIncrement(rm, sign, guard) ==
  CASE rm \in {round_near_even, round_near_maxMag} -> 2 ^ (guard - 1)
    [] rm = (IF sign = 1 THEN round_min ELSE round_max) -> 2 ^ guard - 1
    [] OTHER -> 0

\* sig without its guard bits.
rounded(rm, sign, guard, sig) ==
  LET z == (sig + roundIncrement(rm, sign, guard)) \div 2 ^ guard
  IN  IF rm = round_near_even /\ sig % 2 ^ guard = 2 ^ (guard - 1) THEN z - (z % 2) ELSE z

\* A mutant: tininess is detected before rounding.
roundPack_tiny_before(f, rm, sign, exp, sig) ==
  LET inc == roundIncrement(rm, sign, f.G)
      s == IF exp < 0 THEN shiftRightJam(Word(f), sig, -exp) ELSE sig
      roundBits == s % 2 ^ f.G
      z == rounded(rm, sign, f.G, s)
      last == InfExp(f) - 2
  IN  IF exp > last \/ (exp = last /\ sig + inc >= 2 ^ (Word(f) - 1))
      THEN Result(packToUI(f, sign, InfExp(f), IF inc = 0 THEN -1 ELSE 0), {"OF", "NX"})
      ELSE Result(packToUI(f, sign, IF z = 0 \/ exp < 0 THEN 0 ELSE exp, z),
                  When(roundBits # 0, "NX") \cup When(exp < 0 /\ roundBits # 0, "UF"))

\* Tininess is detected after rounding (init_detectTininess).
roundPack(f, rm, sign, exp, sig) ==
  LET inc == roundIncrement(rm, sign, f.G)
      isTiny == exp < -1 \/ (exp = -1 /\ sig + inc < 2 ^ (Word(f) - 1))
      s == IF exp < 0 THEN shiftRightJam(Word(f), sig, -exp) ELSE sig
      roundBits == s % 2 ^ f.G
      z == rounded(rm, sign, f.G, s)
      last == InfExp(f) - 2
  IN  IF exp > last \/ (exp = last /\ sig + inc >= 2 ^ (Word(f) - 1))
      THEN Result(packToUI(f, sign, InfExp(f), IF inc = 0 THEN -1 ELSE 0), {"OF", "NX"})
      ELSE Result(packToUI(f, sign, IF z = 0 \/ exp < 0 THEN 0 ELSE exp, z),
                  When(roundBits # 0, "NX") \cup When(isTiny /\ roundBits # 0, "UF"))

normRoundPack(f, rm, sign, exp, sig) ==
  LET shiftCount == countLeadingZeros(Word(f), sig) - 1
      e == exp - shiftCount
  IN  IF shiftCount >= f.G /\ e \in 0..(InfExp(f) - 3)
      THEN Result(packToUI(f, sign, IF sig = 0 THEN 0 ELSE e, sig * 2 ^ (shiftCount - f.G)), {})
      ELSE roundPack(f, rm, sign, e, sig * 2 ^ shiftCount)

\* A significand one bit short of its place.
fixed(f, exp, sig) ==
  IF sig < 2 ^ (Word(f) - 2) THEN [exp |-> exp - 1, sig |-> 2 * sig]
                             ELSE [exp |-> exp, sig |-> sig]
fixRoundPack(f, rm, sign, exp, sig) ==
  roundPack(f, rm, sign, fixed(f, exp, sig).exp, fixed(f, exp, sig).sig)

-----------------------------------------------------------------------------
(* Sums of magnitudes *)

\* The significand of the operand with the smaller exponent, brought to the
\* exponent of the other.  lead is the place of the hidden bit.
aligned(f, a, guard, dist) ==
  LET sig == a.sig * 2 ^ guard
  IN  shiftRightJam(Word(f), IF a.exp = 0 THEN 2 * sig ELSE sig + 2 ^ (f.F + guard), dist)

addMags(f, rm, a, b, signZ) ==
  LET hi == IF a.exp < b.exp THEN b ELSE a
      lo == IF a.exp < b.exp THEN a ELSE b
      lead == 2 ^ (Word(f) - 3)
      sigZ == lead + hi.sig * 2 ^ (f.G - 1) + aligned(f, lo, f.G - 1, hi.exp - lo.exp)
  IN  IF isNaN(f, a) \/ isNaN(f, b) THEN propagateNaN(f, a, b)
      ELSE IF hi.exp = InfExp(f) THEN Result(Infinity(f, signZ), {})
      ELSE IF hi.exp = 0 THEN Result(packToUI(f, signZ, 0, a.sig + b.sig), {})
      ELSE IF hi.exp = lo.exp
      THEN roundPack(f, rm, signZ, hi.exp, 2 * lead + (a.sig + b.sig) * 2 ^ (f.G - 1))
      ELSE fixRoundPack(f, rm, signZ, hi.exp, sigZ)

subMags(f, rm, a, b, signZ) ==
  LET aBigger == Magnitude(f, a) > Magnitude(f, b)
      hi == IF aBigger THEN a ELSE b
      lo == IF aBigger THEN b ELSE a
      sign == IF aBigger THEN signZ ELSE 1 - signZ
      exp == IF hi.exp = 0 THEN 1 ELSE hi.exp
      sigHi == hi.sig * 2 ^ f.G
      sigLo == lo.sig * 2 ^ f.G
      sigZ == IF hi.exp = lo.exp THEN sigHi - sigLo
              ELSE 2 ^ (Word(f) - 2) + sigHi - aligned(f, lo, f.G, hi.exp - lo.exp)
  IN  IF isNaN(f, a) \/ isNaN(f, b) THEN propagateNaN(f, a, b)
      ELSE IF isInf(f, a) /\ isInf(f, b) THEN invalid(f)
      ELSE IF isInf(f, hi) THEN Result(Infinity(f, sign), {})
      ELSE IF Magnitude(f, a) = Magnitude(f, b)
      THEN Result(Zero(f, IF rm = round_min THEN 1 ELSE 0), {})
      ELSE normRoundPack(f, rm, sign, exp - 1, sigZ)
=============================================================================
