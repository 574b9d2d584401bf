----------------------------- MODULE SoftFloat -----------------------------
(***************************************************************************)
(* The entry points of SoftFloat (softfloat/f32_*.c, f64_*.c, i*_to_*.c,   *)
(* ui*_to_*.c) as functions of the rounding mode and their operands, in    *)
(* the build of platform.h (SOFTFLOAT_FAST_INT64, SOFTFLOAT_FAST_DIV64TO32 *)
(* and INLINE_LEVEL).  Functions that the code has once per format, and    *)
(* once per integer type, are instances of one definition.                 *)
(*                                                                         *)
(* f64_div and the square roots multiply with an estimate of a reciprocal. *)
(* The estimate is never above the true value and less than two units      *)
(* below it (primitives.h), the functions add the two units, and correct   *)
(* the result by its remainder where it is too near to a rounding boundary *)
(* to be trusted.  Here est says how far the sum is above the true value,  *)
(* and every est there may be is tried.                                    *)
(***************************************************************************)
EXTENDS FloatFormat

CONSTANTS F32, F64,    \* the two formats
          IntGuard,    \* the guard bits of a 32-bit integer
          ToIntShift   \* how far f32_to_i32 and f32_to_ui32 shift up

Formats == {F32, F64}
w32 == Word(F32)
w64 == Word(F64)

Slack == 2     \* what is added to an estimate
Coarse == 4    \* the unit in which a doubtful result is corrected
Estimates == 0..Slack

\* The formats differ in ways the code relies on: a 32-bit integer fits a
\* float64_t, an integer that does not fit its type is caught by the test
\* for the bits above it, and the estimates leave room for the correction.
ASSUME FormatsAssumption ==
  /\ F64.F >= w32 + IntGuard
  /\ F32.F + ToIntShift >= w32 + IntGuard /\ F32.F + ToIntShift < w64
  /\ F64.F >= w32 - 2 /\ F64.E > F32.E
  /\ InfExp(F32) > Bias(F32) + w64
  /\ \A f \in Formats : Coarse < 2 ^ (f.G - 1)

-----------------------------------------------------------------------------
(* Addition, subtraction, multiplication *)

softfloat_addMagsF32(rm, a, b, sign) == addMags(F32, rm, a, b, sign)
softfloat_addMagsF64(rm, a, b, sign) == addMags(F64, rm, a, b, sign)
softfloat_subMagsF32(rm, a, b, sign) == subMags(F32, rm, a, b, sign)
softfloat_subMagsF64(rm, a, b, sign) == subMags(F64, rm, a, b, sign)

f32_add(rm, a, b) == IF a.sign = b.sign THEN softfloat_addMagsF32(rm, a, b, a.sign)
                                        ELSE softfloat_subMagsF32(rm, a, b, a.sign)
f64_add(rm, a, b) == IF a.sign = b.sign THEN softfloat_addMagsF64(rm, a, b, a.sign)
                                        ELSE softfloat_subMagsF64(rm, a, b, a.sign)
f32_sub(rm, a, b) == IF a.sign = b.sign THEN softfloat_subMagsF32(rm, a, b, a.sign)
                                        ELSE softfloat_addMagsF32(rm, a, b, a.sign)
f64_sub(rm, a, b) == IF a.sign = b.sign THEN softfloat_subMagsF64(rm, a, b, a.sign)
                                        ELSE softfloat_addMagsF64(rm, a, b, a.sign)

XorSign(a, b) == (a.sign + b.sign) % 2

mul(f, rm, a, b) ==
  LET sign == XorSign(a, b)
      na == Normal(f, a)
      nb == Normal(f, b)
      product == (na.sig * 2 ^ f.G) * (nb.sig * 2 ^ (f.G + 1))
      sigZ == jam(product \div 2 ^ Word(f), product % 2 ^ Word(f) # 0)
  IN  IF isNaN(f, a) \/ isNaN(f, b) THEN propagateNaN(f, a, b)
      ELSE IF isInf(f, a) \/ isInf(f, b)
      THEN IF isZero(a) \/ isZero(b) THEN invalid(f) ELSE Result(Infinity(f, sign), {})
      ELSE IF isZero(a) \/ isZero(b) THEN Result(Zero(f, sign), {})
      ELSE fixRoundPack(f, rm, sign, na.exp + nb.exp - Bias(f), sigZ)

f32_mul(rm, a, b) == mul(F32, rm, a, b)
f64_mul(rm, a, b) == mul(F64, rm, a, b)

-----------------------------------------------------------------------------
(* Division and square root *)

\* The operands of a division that is more than special cases: the exponent
\* of the quotient, the dividend scaled so that it has Word(f) - 1 bits, the
\* divisor.
dividing(f, a, b) ==
  LET na == Normal(f, a)
      nb == Normal(f, b)
      less == na.sig < nb.sig
      exp == na.exp - nb.exp + Bias(f) - 1
  IN  [exp |-> IF less THEN exp - 1 ELSE exp,
       num |-> na.sig * 2 ^ (IF less THEN Word(f) - 1 ELSE Word(f) - 2),
       den |-> nb.sig]

div(f, a, b, quotient) ==
  LET sign == XorSign(a, b)
  IN  IF isNaN(f, a) \/ isNaN(f, b) THEN propagateNaN(f, a, b)
      ELSE IF isInf(f, a) THEN IF isInf(f, b) THEN invalid(f) ELSE Result(Infinity(f, sign), {})
      ELSE IF isInf(f, b) THEN Result(Zero(f, sign), {})
      ELSE IF isZero(b) THEN IF isZero(a) THEN invalid(f) ELSE Result(Infinity(f, sign), {"DZ"})
      ELSE IF isZero(a) THEN Result(Zero(f, sign), {})
      ELSE quotient

f32_div(rm, a, b) ==
  LET d == dividing(F32, a, b)
      sigZ == d.num \div d.den
      sig == IF sigZ % 2 ^ (F32.G - 1) = 0 THEN jam(sigZ, d.num % d.den # 0) ELSE sigZ
  IN  div(F32, a, b, roundPack(F32, rm, XorSign(a, b), d.exp, sig))

\* What is left of an estimate when its last bits are cleared.
Trimmed(sigZ) == sigZ - (sigZ % Coarse)

\* The estimate sigZ of a value; excess has the sign of what the trimmed
\* estimate is above the value.
corrected(f, sigZ, back, excess) ==
  IF sigZ % 2 ^ (f.G - 1) >= Slack THEN sigZ
  ELSE Trimmed(sigZ) + (IF excess > 0 THEN 0 - back ELSE IF excess = 0 THEN 0 ELSE 1)

f64_div(rm, a, b, est) ==
  LET d == dividing(F64, a, b)
      sigZ == d.num \div d.den + (IF d.num % d.den = 0 /\ est = Slack THEN Slack - 1 ELSE est)
  IN  div(F64, a, b, roundPack(F64, rm, XorSign(a, b), d.exp,
                               corrected(F64, sigZ, Coarse, Trimmed(sigZ) * d.den - d.num)))

\* The integer part of a square root, bit by bit.
Isqrt(x) ==
  FoldLeft(LAMBDA r, k : IF (r + 2 ^ k) * (r + 2 ^ k) <= x THEN r + 2 ^ k ELSE r,
           0, [i \in 1..15 |-> 15 - i])

sqrt(f, rm, a, est) ==
  LET n == Normal(f, a)
      expZ == (n.exp - Bias(f)) \div 2 + Bias(f) - 1
      x == n.sig * 2 ^ (2 * Word(f) - f.F - (IF n.exp % 2 = 1 THEN 4 ELSE 3))
      root == Isqrt(x)
      sigZ == root + (IF root * root = x /\ est = Slack THEN Slack - 1 ELSE est)
  IN  IF isNaN(f, a) THEN propagateNaN(f, a, Zero(f, 0))
      ELSE IF isZero(a) \/ (isInf(f, a) /\ a.sign = 0) THEN Result(a, {})
      ELSE IF a.sign = 1 THEN invalid(f)
      ELSE roundPack(f, rm, 0, expZ, corrected(f, sigZ, 1, Trimmed(sigZ) * Trimmed(sigZ) - x))

f32_sqrt(rm, a, est) == sqrt(F32, rm, a, est)
f64_sqrt(rm, a, est) == sqrt(F64, rm, a, est)

-----------------------------------------------------------------------------
(* Fused multiplication and addition *)

\* Everything but the sum of a product and a number that are both finite, and
\* of which the product is not zero.
mulAdd(f, rm, a, b, c, sum) ==
  LET sign == XorSign(a, b)
  IN  IF isNaN(f, a) \/ isNaN(f, b)
      THEN Result(defaultNaN(f), When(\E x \in {a, b, c} : isSigNaN(f, x), "NV"))
      ELSE IF isInf(f, a) \/ isInf(f, b)
      THEN IF isZero(a) \/ isZero(b) THEN invalid(f)
           ELSE IF isNaN(f, c) THEN propagateNaN(f, Infinity(f, sign), c)
           ELSE IF isInf(f, c) /\ c.sign # sign THEN invalid(f)
           ELSE Result(Infinity(f, sign), {})
      ELSE IF isNaN(f, c) THEN propagateNaN(f, Zero(f, 0), c)
      ELSE IF isInf(f, c) THEN Result(c, {})
      ELSE IF isZero(a) \/ isZero(b)
      THEN IF isZero(c) /\ c.sign # sign
           THEN Result(Zero(f, IF rm = round_min THEN 1 ELSE 0), {}) ELSE Result(c, {})
      ELSE sum

\* The product in a double word, with its highest bit but two set.
product(f, a, b) ==
  LET na == Normal(f, a)
      nb == Normal(f, b)
      exp == na.exp + nb.exp - (Bias(f) - 1)
      sig == (na.sig * 2 ^ f.G) * (nb.sig * 2 ^ f.G)
  IN  IF sig < 2 ^ (2 * Word(f) - 3) THEN [exp |-> exp - 1, sig |-> 2 * sig]
                                     ELSE [exp |-> exp, sig |-> sig]

softfloat_shiftRightJam128(a, dist) == shiftRightJam(2 * w64, a, dist)
softfloat_shortShiftRightJam128(a, dist) == jam(a \div 2 ^ dist, a % 2 ^ dist # 0)

\* The word of f above a double word, jammed.
high(f, sig) == jam(sig \div 2 ^ Word(f), sig % 2 ^ Word(f) # 0)

\* The difference of two double words, cancelled to one word.
cancelled32(rm, sign, exp, sig) ==
  LET shiftCount == countLeadingZeros(2 * w32, sig) - 1
      down == w32 - shiftCount
  IN  roundPack(F32, rm, sign, exp - shiftCount,
                IF down > 0 THEN jam(sig \div 2 ^ down, sig % 2 ^ down # 0)
                            ELSE sig * 2 ^ (0 - down))

softfloat_mulAddF32(rm, a, b, c) ==
  LET p == product(F32, a, b)
      sign == XorSign(a, b)
      nc == Normal(F32, c)
      sigC == nc.sig * 2 ^ (F32.G - 1)
      sig64C == sigC * 2 ^ w32
      expDiff == p.exp - nc.exp
      diff == IF expDiff < 0 THEN sig64C - shiftRightJam(2 * w32, p.sig, 0 - expDiff)
                             ELSE p.sig - shiftRightJam(2 * w32, sig64C, expDiff)
      exp == IF expDiff < 0 THEN nc.exp ELSE p.exp
      sum == IF expDiff <= 0 THEN sigC + shiftRightJam(2 * w32, p.sig, w32 - expDiff)
                             ELSE high(F32, p.sig + shiftRightJam(2 * w32, sig64C, expDiff))
  IN  mulAdd(F32, rm, a, b, c,
        IF isZero(c)
        THEN roundPack(F32, rm, sign, p.exp - 1, shiftRightJam(2 * w32, p.sig, w32 - 1))
        ELSE IF sign = c.sign
        THEN fixRoundPack(F32, rm, sign, IF expDiff <= 0 THEN nc.exp ELSE p.exp, sum)
        ELSE IF diff = 0 THEN Result(Zero(F32, IF rm = round_min THEN 1 ELSE 0), {})
        ELSE IF diff < 0 THEN cancelled32(rm, 1 - sign, exp, 0 - diff)
        ELSE cancelled32(rm, IF expDiff < 0 THEN c.sign ELSE sign, exp, diff))

\* The same for the 64-bit word, whose double word is a pair of words: the
\* lower one moves up if the higher one is empty.
cancelled64(rm, sign, exp, sig) ==
  LET v64 == sig \div 2 ^ w64
      v0 == sig % 2 ^ w64
      top == IF v64 = 0 THEN v0 ELSE v64
      e == IF v64 = 0 THEN exp - w64 ELSE exp
      shiftCount == countLeadingZeros(w64, top) - 1
      sigZ == IF shiftCount < 0 THEN shiftRightJam(w64, top, 0 - shiftCount)
              ELSE IF v64 = 0 THEN v0 * 2 ^ shiftCount
              ELSE high(F64, sig * 2 ^ shiftCount)
  IN  roundPack(F64, rm, sign, e - shiftCount, sigZ)

softfloat_mulAddF64(rm, a, b, c) ==
  LET p == product(F64, a, b)
      sign == XorSign(a, b)
      nc == Normal(F64, c)
      sigC == nc.sig * 2 ^ (F64.G - 1)
      sig128C == sigC * 2 ^ w64
      expDiff == p.exp - nc.exp
      v64 == p.sig \div 2 ^ w64
      v0 == p.sig % 2 ^ w64
      \* Only the higher word of the product is shifted, unless that would lose
      \* the bit that a cancellation needs.
      shifted64 == shiftRightJam(w64, v64, IF expDiff < 0 THEN 0 - expDiff ELSE 0)
      shifted128 == IF expDiff = -1 THEN softfloat_shortShiftRightJam128(p.sig, 1)
                                    ELSE shifted64 * 2 ^ w64 + v0
      diff == IF expDiff < 0 THEN sig128C - shifted128
                             ELSE p.sig - softfloat_shiftRightJam128(sig128C, expDiff)
      exp == IF expDiff < 0 THEN nc.exp ELSE p.exp
      sum == IF expDiff <= 0 THEN jam(sigC + shifted64, v0 # 0)
                             ELSE high(F64, p.sig + softfloat_shiftRightJam128(sig128C, expDiff))
  IN  mulAdd(F64, rm, a, b, c,
        IF isZero(c) THEN roundPack(F64, rm, sign, p.exp - 1, jam(2 * v64, v0 # 0))
        ELSE IF sign = c.sign THEN fixRoundPack(F64, rm, sign, exp, sum)
        ELSE IF diff = 0 THEN Result(Zero(F64, IF rm = round_min THEN 1 ELSE 0), {})
        ELSE IF diff < 0 THEN cancelled64(rm, 1 - sign, exp, 0 - diff)
        ELSE cancelled64(rm, IF expDiff < 0 THEN c.sign ELSE sign, exp, diff))

f32_mulAdd(rm, a, b, c) == softfloat_mulAddF32(rm, a, b, c)
f64_mulAdd(rm, a, b, c) == softfloat_mulAddF64(rm, a, b, c)
=============================================================================
