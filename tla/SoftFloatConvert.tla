-------------------------- MODULE SoftFloatConvert --------------------------
(***************************************************************************)
(* The conversions, comparisons and classifications of SoftFloat.  An      *)
(* integer type is its width and whether it is signed; its values are      *)
(* mathematical integers.                                                  *)
(***************************************************************************)
EXTENDS SoftFloat

-----------------------------------------------------------------------------
(* To an integer.  exact is TRUE in every call of the simulator. *)

fromPosOverflow(w, signed) == IF signed THEN 2 ^ (w - 1) - 1 ELSE 2 ^ w - 1
fromNegOverflow(w, signed) == IF signed THEN 0 - 2 ^ (w - 1) ELSE 0
overflowed(w, signed, sign) ==
  Result(IF sign = 1 THEN fromNegOverflow(w, signed) ELSE fromPosOverflow(w, signed), {"NV"})

\* NaNs become the largest integer.
invalidInt(f, w, signed, a) == overflowed(w, signed, IF isNaN(f, a) THEN 0 ELSE a.sign)

\* The magnitude z with this sign is a number of the type.
fits(w, signed, sign, z) ==
  z = 0 \/ (IF signed THEN z < 2 ^ (w - 1) + sign ELSE sign = 0 /\ z < 2 ^ w)
withSign(sign, z) == IF sign = 1 THEN 0 - z ELSE z

roundPackTo32(signed, rm, sign, sig) ==
  LET z == rounded(rm, sign, IntGuard, sig)
  IN  IF \/ sig + roundIncrement(rm, sign, IntGuard) >= 2 ^ (w32 + IntGuard)
         \/ ~fits(w32, signed, sign, z)
      THEN overflowed(w32, signed, sign)
      ELSE Result(withSign(sign, z), When(sig % 2 ^ IntGuard # 0, "NX"))

softfloat_roundPackToI32(rm, sign, sig) == roundPackTo32(TRUE, rm, sign, sig)
softfloat_roundPackToUI32(rm, sign, sig) == roundPackTo32(FALSE, rm, sign, sig)

\* A mutant: a tie is not rounded to even.
roundPackTo64_tie_up(signed, rm, sign, sig, extra) ==
  LET doIncrement == IF rm \in {round_near_even, round_near_maxMag} THEN extra >= 2 ^ (w64 - 1)
                     ELSE rm = (IF sign = 1 THEN round_min ELSE round_max) /\ extra # 0
      z == IF doIncrement THEN sig + 1 ELSE sig
  IN  IF ~fits(w64, signed, sign, z) THEN overflowed(w64, signed, sign)
      ELSE Result(withSign(sign, z), When(extra # 0, "NX"))

roundPackTo64(signed, rm, sign, sig, extra) ==
  LET half == 2 ^ (w64 - 1)
      doIncrement == IF rm \in {round_near_even, round_near_maxMag} THEN extra >= half
                     ELSE rm = (IF sign = 1 THEN round_min ELSE round_max) /\ extra # 0
      up == IF rm = round_near_even /\ extra % half = 0 /\ sig % 2 = 0 THEN sig ELSE sig + 1
      z == IF doIncrement THEN up ELSE sig
  IN  IF (doIncrement /\ sig + 1 = 2 ^ w64) \/ ~fits(w64, signed, sign, z)
      THEN overflowed(w64, signed, sign)
      ELSE Result(withSign(sign, z), When(extra # 0, "NX"))

softfloat_roundPackToI64(rm, sign, sig, extra) == roundPackTo64(TRUE, rm, sign, sig, extra)
softfloat_roundPackToUI64(rm, sign, sig, extra) == roundPackTo64(FALSE, rm, sign, sig, extra)

WithHidden(f, a) == IF a.exp = 0 THEN a.sig ELSE a.sig + Hidden(f)

\* The significand of a with IntGuard bits below the point, and the sign of
\* what a NaN is taken for.
guarded(f, up, a) ==
  LET sig == WithHidden(f, a) * 2 ^ up
      shiftDist == Bias(f) + f.F + up - IntGuard - a.exp
  IN  IF shiftDist > 0 THEN shiftRightJam(w64, sig, shiftDist) ELSE sig
intSign(f, a) == IF isNaN(f, a) THEN 0 ELSE a.sign

f32_to_i32(rm, a) == softfloat_roundPackToI32(rm, intSign(F32, a), guarded(F32, ToIntShift, a))
f32_to_ui32(rm, a) == softfloat_roundPackToUI32(rm, intSign(F32, a), guarded(F32, ToIntShift, a))
f64_to_i32(rm, a) == softfloat_roundPackToI32(rm, intSign(F64, a), guarded(F64, 0, a))
f64_to_ui32(rm, a) == softfloat_roundPackToUI32(rm, intSign(F64, a), guarded(F64, 0, a))

extraOf32(a) ==
  LET sig64 == WithHidden(F32, a) * 2 ^ (w64 - (F32.F + 1))
  IN  shiftRightJamExtra(w64, sig64, Bias(F32) + w64 - 1 - a.exp)
f32_to_i64(rm, a) ==
  IF Bias(F32) + w64 - 1 < a.exp THEN invalidInt(F32, w64, TRUE, a)
  ELSE softfloat_roundPackToI64(rm, a.sign, extraOf32(a).v, extraOf32(a).extra)
f32_to_ui64(rm, a) ==
  IF Bias(F32) + w64 - 1 < a.exp THEN invalidInt(F32, w64, FALSE, a)
  ELSE softfloat_roundPackToUI64(rm, a.sign, extraOf32(a).v, extraOf32(a).extra)

extraOf64(a) ==
  LET shiftDist == Bias(F64) + F64.F - a.exp
  IN  IF shiftDist <= 0
      THEN [v |-> WithHidden(F64, a) * 2 ^ (0 - shiftDist), extra |-> 0]
      ELSE shiftRightJamExtra(w64, WithHidden(F64, a), shiftDist)
f64_to_i64(rm, a) ==
  IF Bias(F64) + w64 - 1 < a.exp THEN invalidInt(F64, w64, TRUE, a)
  ELSE softfloat_roundPackToI64(rm, a.sign, extraOf64(a).v, extraOf64(a).extra)
f64_to_ui64(rm, a) ==
  IF Bias(F64) + w64 - 1 < a.exp THEN invalidInt(F64, w64, FALSE, a)
  ELSE softfloat_roundPackToUI64(rm, a.sign, extraOf64(a).v, extraOf64(a).extra)

\* Towards zero, without the general rounding.
r_minMag(f, w, signed, a) ==
  LET shiftDist == Bias(f) + f.F - a.exp
      sig == a.sig + Hidden(f)
      z == IF shiftDist <= 0 THEN sig * 2 ^ (0 - shiftDist) ELSE sig \div 2 ^ shiftDist
      inexact == shiftDist > 0 /\ sig % 2 ^ shiftDist # 0
  IN  IF a.exp < Bias(f) THEN Result(0, When(~isZero(a), "NX"))
      ELSE IF a.exp > Bias(f) + w - 1 \/ ~fits(w, signed, a.sign, z)
      THEN invalidInt(f, w, signed, a)
      ELSE Result(withSign(a.sign, z), When(inexact, "NX"))

f32_to_i32_r_minMag(a) == r_minMag(F32, w32, TRUE, a)
f32_to_ui32_r_minMag(a) == r_minMag(F32, w32, FALSE, a)
f32_to_i64_r_minMag(a) == r_minMag(F32, w64, TRUE, a)
f32_to_ui64_r_minMag(a) == r_minMag(F32, w64, FALSE, a)
f64_to_i32_r_minMag(a) == r_minMag(F64, w32, TRUE, a)
f64_to_ui32_r_minMag(a) == r_minMag(F64, w32, FALSE, a)
f64_to_i64_r_minMag(a) == r_minMag(F64, w64, TRUE, a)
f64_to_ui64_r_minMag(a) == r_minMag(F64, w64, FALSE, a)

\* To an integer that stays a float.
roundToInt(f, rm, a) ==
  LET up == IF a.sign = 1 THEN round_min ELSE round_max
      toOne == \/ rm = round_near_even /\ a.sig # 0 /\ a.exp = Bias(f) - 1
               \/ rm = round_near_maxMag /\ a.exp = Bias(f) - 1
               \/ rm = up
      lastBit == 2 ^ (Bias(f) + f.F - a.exp)
      m == Magnitude(f, a)
      half == m + lastBit \div 2
      added == CASE rm = round_near_maxMag -> half
                 [] rm = round_near_even ->
                      IF half % lastBit = 0 /\ (half \div lastBit) % 2 = 1
                      THEN half - lastBit ELSE half
                 [] rm = up -> m + lastBit - 1
                 [] OTHER -> m
      z == added - (added % lastBit)
  IN  IF a.exp < Bias(f)
      THEN IF isZero(a) THEN Result(a, {})
           ELSE Result(packToUI(f, a.sign, IF toOne THEN Bias(f) ELSE 0, 0), {"NX"})
      ELSE IF a.exp >= Bias(f) + f.F
      THEN IF isNaN(f, a) THEN propagateNaN(f, a, Zero(f, 0)) ELSE Result(a, {})
      ELSE Result(packToUI(f, a.sign, 0, z), When(z # m, "NX"))

f32_roundToInt(rm, a) == roundToInt(F32, rm, a)
f64_roundToInt(rm, a) == roundToInt(F64, rm, a)

-----------------------------------------------------------------------------
(* From an integer *)

softfloat_roundPackToF32(rm, sign, exp, sig) == roundPack(F32, rm, sign, exp, sig)
softfloat_roundPackToF64(rm, sign, exp, sig) == roundPack(F64, rm, sign, exp, sig)
softfloat_normRoundPackToF32(rm, sign, exp, sig) == normRoundPack(F32, rm, sign, exp, sig)
softfloat_normRoundPackToF64(rm, sign, exp, sig) == normRoundPack(F64, rm, sign, exp, sig)

SignOf(i) == IF i < 0 THEN 1 ELSE 0
Abs(i) == IF i < 0 THEN 0 - i ELSE i

\* The smallest integer has no absolute value, and takes a way of its own.
i32_to_f32(rm, i) ==
  IF i \in {0, 0 - 2 ^ (w32 - 1)}
  THEN Result(IF i < 0 THEN packToUI(F32, 1, Bias(F32) + w32 - 1, 0) ELSE Zero(F32, 0), {})
  ELSE softfloat_normRoundPackToF32(rm, SignOf(i), Bias(F32) + w32 - 3, Abs(i))
i64_to_f64(rm, i) ==
  IF i \in {0, 0 - 2 ^ (w64 - 1)}
  THEN Result(IF i < 0 THEN packToUI(F64, 1, Bias(F64) + w64 - 1, 0) ELSE Zero(F64, 0), {})
  ELSE softfloat_normRoundPackToF64(rm, SignOf(i), Bias(F64) + w64 - 3, Abs(i))

ui32_to_f32(rm, i) ==
  IF i = 0 THEN Result(Zero(F32, 0), {})
  ELSE IF i >= 2 ^ (w32 - 1)
  THEN softfloat_roundPackToF32(rm, 0, Bias(F32) + w32 - 2, jam(i \div 2, i % 2 = 1))
  ELSE softfloat_normRoundPackToF32(rm, 0, Bias(F32) + w32 - 3, i)
ui64_to_f64(rm, i) ==
  IF i = 0 THEN Result(Zero(F64, 0), {})
  ELSE IF i >= 2 ^ (w64 - 1)
  THEN softfloat_roundPackToF64(rm, 0, Bias(F64) + w64 - 2, shiftRightJam(w64, i, 1))
  ELSE softfloat_normRoundPackToF64(rm, 0, Bias(F64) + w64 - 3, i)

\* A 64-bit magnitude, which may be much longer than the significand.
longToF32(rm, sign, abs) ==
  LET shiftCount == countLeadingZeros(w64, abs) - (w64 - (F32.F + 1))
      up == shiftCount + F32.G
      sig == IF up < 0 THEN shiftRightJam(w64, abs, 0 - up) ELSE abs * 2 ^ up
  IN  IF abs = 0 THEN Result(Zero(F32, 0), {})
      ELSE IF shiftCount >= 0
      THEN Result(packToUI(F32, sign, Bias(F32) + F32.F - 1 - shiftCount, abs * 2 ^ shiftCount), {})
      ELSE softfloat_roundPackToF32(rm, sign, Bias(F32) + w32 - 3 - up, sig)
i64_to_f32(rm, i) == longToF32(rm, SignOf(i), Abs(i))
ui64_to_f32(rm, i) == longToF32(rm, 0, i)

\* A 32-bit magnitude, which always fits.
shortToF64(sign, abs) ==
  LET shiftCount == countLeadingZeros(w32, abs) + F64.F + 1 - w32
  IN  IF abs = 0 THEN Result(Zero(F64, 0), {})
      ELSE Result(packToUI(F64, sign, Bias(F64) + F64.F - 1 - shiftCount, abs * 2 ^ shiftCount), {})
i32_to_f64(i) == shortToF64(SignOf(i), Abs(i))
ui32_to_f64(i) == shortToF64(0, i)

-----------------------------------------------------------------------------
(* From one format to the other *)

\* softfloat_f32UIToCommonNaN, softfloat_commonNaNToF64UI and their twins.
convertNaN(from, to, a) == Result(defaultNaN(to), When(isSigNaN(from, a), "NV"))

f32_to_f64(a) ==
  LET n == normSubnormalSig(F32, a.sig)
      exp == IF a.exp = 0 THEN n.exp - 1 ELSE a.exp
      sig == IF a.exp = 0 THEN n.sig ELSE a.sig
  IN  IF isNaN(F32, a) THEN convertNaN(F32, F64, a)
      ELSE IF isInf(F32, a) THEN Result(Infinity(F64, a.sign), {})
      ELSE IF isZero(a) THEN Result(Zero(F64, a.sign), {})
      ELSE Result(packToUI(F64, a.sign, exp + Bias(F64) - Bias(F32), sig * 2 ^ (F64.F - F32.F)), {})

f64_to_f32(rm, a) ==
  LET sig32 == shiftRightJam(w64, a.sig, F64.F - (w32 - 2))
  IN  IF isNaN(F64, a) THEN convertNaN(F64, F32, a)
      ELSE IF isInf(F64, a) THEN Result(Infinity(F32, a.sign), {})
      ELSE IF a.exp = 0 /\ sig32 = 0 THEN Result(Zero(F32, a.sign), {})
      ELSE softfloat_roundPackToF32(rm, a.sign, a.exp - (Bias(F64) - Bias(F32) + 1),
                                    sig32 + 2 ^ (w32 - 2))

-----------------------------------------------------------------------------
(* Comparison and classification *)

\* A comparison with a NaN is false; a signaling one raises the flag for
\* every NaN, a quiet one for signaling NaNs only.
compared(f, signaling, a, b, holds) ==
  IF isNaN(f, a) \/ isNaN(f, b)
  THEN Result(FALSE, When(signaling \/ isSigNaN(f, a) \/ isSigNaN(f, b), "NV"))
  ELSE Result(holds, {})

BothZero(a, b) == isZero(a) /\ isZero(b)
eq(f, signaling, a, b) == compared(f, signaling, a, b, a = b \/ BothZero(a, b))
le(f, signaling, a, b) ==
  compared(f, signaling, a, b,
           IF a.sign # b.sign THEN a.sign = 1 \/ BothZero(a, b)
           ELSE a = b \/ ((a.sign = 1) # (Magnitude(f, a) < Magnitude(f, b))))
lt(f, signaling, a, b) ==
  compared(f, signaling, a, b,
           IF a.sign # b.sign THEN a.sign = 1 /\ ~BothZero(a, b)
           ELSE a # b /\ ((a.sign = 1) # (Magnitude(f, a) < Magnitude(f, b))))

f32_eq(a, b) == eq(F32, FALSE, a, b)
f64_eq(a, b) == eq(F64, FALSE, a, b)
f32_eq_signaling(a, b) == eq(F32, TRUE, a, b)
f64_eq_signaling(a, b) == eq(F64, TRUE, a, b)
f32_le(a, b) == le(F32, TRUE, a, b)
f64_le(a, b) == le(F64, TRUE, a, b)
f32_le_quiet(a, b) == le(F32, FALSE, a, b)
f64_le_quiet(a, b) == le(F64, FALSE, a, b)
f32_lt(a, b) == lt(F32, TRUE, a, b)
f64_lt(a, b) == lt(F64, TRUE, a, b)
f32_lt_quiet(a, b) == lt(F32, FALSE, a, b)
f64_lt_quiet(a, b) == lt(F64, FALSE, a, b)

\* The bits that are set, of which there is to be one.
classify(f, a) ==
  LET infOrNaN == a.exp = InfExp(f)
      subnormalOrZero == a.exp = 0
      bit(sign, k) == IF sign = 1 THEN k ELSE 7 - k
  IN  When(infOrNaN /\ a.sig = 0, bit(a.sign, 0))
      \cup When(~infOrNaN /\ ~subnormalOrZero, bit(a.sign, 1))
      \cup When(subnormalOrZero /\ a.sig # 0, bit(a.sign, 2))
      \cup When(subnormalOrZero /\ a.sig = 0, bit(a.sign, 3))
      \cup When(isNaN(f, a) /\ isSigNaN(f, a), 8)
      \cup When(isNaN(f, a) /\ ~isSigNaN(f, a), 9)
f32_classify(a) == classify(F32, a)
f64_classify(a) == classify(F64, a)
=============================================================================
