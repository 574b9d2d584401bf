----------------------------- MODULE Fpu_proofs -----------------------------
(* What the floating-point instructions do to the registers around them, for *)
(* every format, any number of harts and any programs: the flags accrue in   *)
(* the hart that raised them, and a state that is not dirty is saved.        *)
(* Nothing is assumed of what SoftFloat computes; of the flags it raises it  *)
(* is shown that they are flags.                                             *)
EXTENDS Fpu, TLAPS

-----------------------------------------------------------------------------
(* The flags of a result.                                                    *)
Raises(r) == r.flags \in SUBSET Flags

LEMMA ResultRaises ==
  ASSUME NEW z, NEW F \in SUBSET Flags
  PROVE  Raises(Result(z, F))
BY DEF Raises, Result

LEMMA WhenFlags ==
  ASSUME NEW cond, NEW flag \in Flags
  PROVE  When(cond, flag) \in SUBSET Flags
BY DEF When

LEMMA FlagNames ==
  /\ "NX" \in Flags /\ "UF" \in Flags /\ "NV" \in Flags
  /\ {} \in SUBSET Flags /\ {"NX"} \in SUBSET Flags /\ {"NV"} \in SUBSET Flags
  /\ {"DZ"} \in SUBSET Flags /\ {"OF", "NX"} \in SUBSET Flags
BY DEF Flags

LEMMA NaNRaises ==
  ASSUME NEW f, NEW a, NEW b
  PROVE  Raises(propagateNaN(f, a, b)) /\ Raises(invalid(f))
BY ResultRaises, WhenFlags, FlagNames DEF propagateNaN, invalid

LEMMA RoundPackRaises ==
  ASSUME NEW f, NEW rm, NEW sign, NEW exp, NEW sig
  PROVE  Raises(roundPack(f, rm, sign, exp, sig))
<1> DEFINE inc == roundIncrement(rm, sign, f.G)
           isTiny == exp < -1 \/ (exp = -1 /\ sig + inc < 2 ^ (Word(f) - 1))
           s == IF exp < 0 THEN shiftRightJam(Word(f), sig, -exp) ELSE sig
           roundBits == s % 2 ^ f.G
           z == rounded(rm, sign, f.G, s)
           last == InfExp(f) - 2
           over == exp > last \/ (exp = last /\ sig + inc >= 2 ^ (Word(f) - 1))
           A == packToUI(f, sign, InfExp(f), IF inc = 0 THEN -1 ELSE 0)
           B == packToUI(f, sign, IF z = 0 \/ exp < 0 THEN 0 ELSE exp, z)
           nx == roundBits # 0
           uf == isTiny /\ roundBits # 0
<1>1. roundPack(f, rm, sign, exp, sig) =
        IF over THEN Result(A, {"OF", "NX"}) ELSE Result(B, When(nx, "NX") \cup When(uf, "UF"))
  BY DEF roundPack
<1> HIDE DEF over, A, B, nx, uf
<1>2. When(nx, "NX") \in SUBSET Flags /\ When(uf, "UF") \in SUBSET Flags
  BY WhenFlags, FlagNames
<1>3. When(nx, "NX") \cup When(uf, "UF") \in SUBSET Flags
  BY <1>2
<1>4. Raises(Result(A, {"OF", "NX"})) /\ Raises(Result(B, When(nx, "NX") \cup When(uf, "UF")))
  BY <1>3, ResultRaises, FlagNames
<1> QED BY <1>1, <1>4

LEMMA FixRaises ==
  ASSUME NEW f, NEW rm, NEW sign, NEW exp, NEW sig
  PROVE  Raises(fixRoundPack(f, rm, sign, exp, sig))
BY RoundPackRaises DEF fixRoundPack

LEMMA NormRaises ==
  ASSUME NEW f, NEW rm, NEW sign, NEW exp, NEW sig
  PROVE  Raises(normRoundPack(f, rm, sign, exp, sig))
BY RoundPackRaises, ResultRaises, FlagNames, Zenon DEF normRoundPack

LEMMA AddRaises ==
  ASSUME NEW f, NEW rm, NEW a, NEW b, NEW sign
  PROVE  Raises(addMags(f, rm, a, b, sign))
BY NaNRaises, RoundPackRaises, FixRaises, ResultRaises, FlagNames, Zenon DEF addMags

LEMMA SubRaises ==
  ASSUME NEW f, NEW rm, NEW a, NEW b, NEW sign
  PROVE  Raises(subMags(f, rm, a, b, sign))
BY NaNRaises, NormRaises, ResultRaises, FlagNames, Zenon DEF subMags

LEMMA MulRaises ==
  ASSUME NEW f, NEW rm, NEW a, NEW b
  PROVE  Raises(mul(f, rm, a, b))
BY NaNRaises, FixRaises, ResultRaises, FlagNames, Zenon DEF mul

LEMMA DivRaises ==
  ASSUME NEW f, NEW a, NEW b, NEW q, Raises(q)
  PROVE  Raises(div(f, a, b, q))
BY NaNRaises, ResultRaises, FlagNames, Zenon DEF div

LEMMA SqrtRaises ==
  ASSUME NEW f, NEW rm, NEW a, NEW est
  PROVE  Raises(sqrt(f, rm, a, est))
BY NaNRaises, RoundPackRaises, ResultRaises, FlagNames, Zenon DEF sqrt

LEMMA MulAddRaises ==
  ASSUME NEW f, NEW rm, NEW a, NEW b, NEW d, NEW sum, Raises(sum)
  PROVE  Raises(mulAdd(f, rm, a, b, d, sum))
BY NaNRaises, WhenFlags, ResultRaises, FlagNames, Zenon DEF mulAdd

(* The arithmetic instructions.                                              *)
LEMMA BinaryRaises ==
  ASSUME NEW op \in Arithmetic, NEW s, NEW a, NEW b, NEW est
  PROVE  Raises(Binary(op, s, a, b, est))
<1>1. Raises(f32_add(RM, a, b)) /\ Raises(f64_add(RM, a, b))
  BY AddRaises, SubRaises, Zenon DEF f32_add, f64_add, softfloat_addMagsF32,
     softfloat_addMagsF64, softfloat_subMagsF32, softfloat_subMagsF64
<1>2. Raises(f32_sub(RM, a, b)) /\ Raises(f64_sub(RM, a, b))
  BY AddRaises, SubRaises, Zenon DEF f32_sub, f64_sub, softfloat_addMagsF32,
     softfloat_addMagsF64, softfloat_subMagsF32, softfloat_subMagsF64
<1>3. Raises(f32_mul(RM, a, b)) /\ Raises(f64_mul(RM, a, b))
  BY MulRaises DEF f32_mul, f64_mul
<1>4. Raises(f32_div(RM, a, b)) /\ Raises(f64_div(RM, a, b, est))
  BY DivRaises, RoundPackRaises, Zenon DEF f32_div, f64_div
<1> QED BY <1>1, <1>2, <1>3, <1>4 DEF Binary, fp, Arithmetic

LEMMA FusedRaises ==
  ASSUME NEW a, NEW b, NEW d
  PROVE  Raises(f32_mulAdd(RM, a, b, d)) /\ Raises(f64_mulAdd(RM, a, b, d))
<1>1. \A rm, sign, exp, sig : Raises(cancelled32(rm, sign, exp, sig))
  BY RoundPackRaises, Zenon DEF cancelled32
<1>2. \A rm, sign, exp, sig : Raises(cancelled64(rm, sign, exp, sig))
  BY RoundPackRaises, Zenon DEF cancelled64
<1>3. Raises(f32_mulAdd(RM, a, b, d))
  BY <1>1, MulAddRaises, RoundPackRaises, FixRaises, ResultRaises, FlagNames, Zenon
  DEF f32_mulAdd, softfloat_mulAddF32
<1>4. Raises(f64_mulAdd(RM, a, b, d))
  BY <1>2, MulAddRaises, RoundPackRaises, FixRaises, ResultRaises, FlagNames, Zenon
  DEF f64_mulAdd, softfloat_mulAddF64
<1> QED BY <1>3, <1>4

(* Conversions.                                                              *)
LEMMA OverflowRaises ==
  ASSUME NEW w, NEW signed, NEW sign
  PROVE  Raises(overflowed(w, signed, sign))
BY ResultRaises, FlagNames, Zenon DEF overflowed

LEMMA RoundTo32Raises ==
  ASSUME NEW signed, NEW rm, NEW sign, NEW sig
  PROVE  Raises(roundPackTo32(signed, rm, sign, sig))
BY OverflowRaises, ResultRaises, WhenFlags, FlagNames, Zenon DEF roundPackTo32

LEMMA RoundTo64Raises ==
  ASSUME NEW signed, NEW rm, NEW sign, NEW sig, NEW extra
  PROVE  Raises(roundPackTo64(signed, rm, sign, sig, extra))
BY OverflowRaises, ResultRaises, WhenFlags, FlagNames, Zenon DEF roundPackTo64

LEMMA InvalidIntRaises ==
  ASSUME NEW f, NEW w, NEW signed, NEW a
  PROVE  Raises(invalidInt(f, w, signed, a))
BY OverflowRaises DEF invalidInt

LEMMA MinMagRaises ==
  ASSUME NEW f, NEW w, NEW signed, NEW a
  PROVE  Raises(r_minMag(f, w, signed, a))
BY InvalidIntRaises, ResultRaises, WhenFlags, FlagNames, Zenon DEF r_minMag

LEMMA ToIntRaises ==
  ASSUME NEW t \in IntTypes, NEW s, NEW a
  PROVE  Raises(ToInt(t, s, a)) /\ Raises(ToIntMinMag(t, s, a))
<1>1. /\ Raises(f32_to_i32(RM, a)) /\ Raises(f64_to_i32(RM, a))
      /\ Raises(f32_to_ui32(RM, a)) /\ Raises(f64_to_ui32(RM, a))
  BY RoundTo32Raises DEF f32_to_i32, f64_to_i32, f32_to_ui32, f64_to_ui32,
     softfloat_roundPackToI32, softfloat_roundPackToUI32
<1>2. /\ Raises(f32_to_i64(RM, a)) /\ Raises(f64_to_i64(RM, a))
      /\ Raises(f32_to_ui64(RM, a)) /\ Raises(f64_to_ui64(RM, a))
  BY RoundTo64Raises, InvalidIntRaises, Zenon DEF f32_to_i64, f64_to_i64, f32_to_ui64,
     f64_to_ui64, softfloat_roundPackToI64, softfloat_roundPackToUI64
<1>3. Raises(ToInt(t, s, a))
  BY <1>1, <1>2 DEF ToInt, fp, IntTypes
<1>4. Raises(ToIntMinMag(t, s, a))
  <2>1. /\ Raises(f32_to_i32_r_minMag(a)) /\ Raises(f64_to_i32_r_minMag(a))
        /\ Raises(f32_to_ui32_r_minMag(a)) /\ Raises(f64_to_ui32_r_minMag(a))
        /\ Raises(f32_to_i64_r_minMag(a)) /\ Raises(f64_to_i64_r_minMag(a))
        /\ Raises(f32_to_ui64_r_minMag(a)) /\ Raises(f64_to_ui64_r_minMag(a))
    BY MinMagRaises, Zenon DEF f32_to_i32_r_minMag, f64_to_i32_r_minMag, f32_to_ui32_r_minMag,
       f64_to_ui32_r_minMag, f32_to_i64_r_minMag, f64_to_i64_r_minMag,
       f32_to_ui64_r_minMag, f64_to_ui64_r_minMag
  <2> QED BY <2>1 DEF ToIntMinMag, fp, IntTypes
<1> QED BY <1>3, <1>4

LEMMA FromIntRaises ==
  ASSUME NEW t \in IntTypes, NEW s, NEW i
  PROVE  Raises(FromInt(t, s, i))
<1>1. Raises(i32_to_f32(RM, i)) /\ Raises(i64_to_f64(RM, i))
  BY NormRaises, ResultRaises, FlagNames, Zenon DEF i32_to_f32, i64_to_f64,
     softfloat_normRoundPackToF32, softfloat_normRoundPackToF64
<1>2. Raises(ui32_to_f32(RM, i)) /\ Raises(ui64_to_f64(RM, i))
  BY NormRaises, RoundPackRaises, ResultRaises, FlagNames, Zenon
  DEF ui32_to_f32, ui64_to_f64, softfloat_normRoundPackToF32, softfloat_normRoundPackToF64,
      softfloat_roundPackToF32, softfloat_roundPackToF64
<1>3. \A sign, abs : Raises(longToF32(RM, sign, abs)) /\ Raises(shortToF64(sign, abs))
  BY RoundPackRaises, ResultRaises, FlagNames, Zenon
  DEF longToF32, shortToF64, softfloat_roundPackToF32
<1>4. /\ Raises(i64_to_f32(RM, i)) /\ Raises(ui64_to_f32(RM, i))
      /\ Raises(i32_to_f64(i)) /\ Raises(ui32_to_f64(i))
  BY <1>3, Zenon DEF i64_to_f32, ui64_to_f32, i32_to_f64, ui32_to_f64
<1> QED BY <1>1, <1>2, <1>4 DEF FromInt, fp, IntTypes

LEMMA FormatRaises ==
  ASSUME NEW s, NEW a
  PROVE  Raises(fp(s, f32_to_f64(a), f64_to_f32(RM, a)))
<1>1. Raises(f32_to_f64(a))
  BY ResultRaises, WhenFlags, FlagNames, Zenon DEF f32_to_f64, convertNaN
<1>2. Raises(f64_to_f32(RM, a))
  <2>1. \A f, g : Raises(convertNaN(f, g, a))
    BY ResultRaises, WhenFlags, FlagNames, Zenon DEF convertNaN
  <2>2. \A rm, sign, exp, sig : Raises(softfloat_roundPackToF32(rm, sign, exp, sig))
    BY RoundPackRaises DEF softfloat_roundPackToF32
  <2> QED BY <2>1, <2>2, ResultRaises, FlagNames, Zenon DEF f64_to_f32
<1> QED BY <1>1, <1>2 DEF fp

LEMMA RoundToIntRaises ==
  ASSUME NEW s, NEW a
  PROVE  Raises(fp(s, f32_roundToInt(RM, a), f64_roundToInt(RM, a)))
<1>1. ASSUME NEW f, NEW rm PROVE Raises(roundToInt(f, rm, a))
  <2> DEFINE up == IF a.sign = 1 THEN round_min ELSE round_max
             toOne == \/ rm = round_near_even /\ a.sig # 0 /\ a.exp = Bias(f) - 1
                      \/ rm = round_near_maxMag /\ a.exp = Bias(f) - 1
                      \/ rm = up
             lastBit == 2 ^ (Bias(f) + f.F - a.exp)
             m == Magnitude(f, a)
             half == m + lastBit \div 2
             added == CASE rm = round_near_maxMag -> half
                        [] rm = round_near_even ->
                             IF half % lastBit = 0 /\ (half \div lastBit) % 2 = 1
                             THEN half - lastBit ELSE half
                        [] rm = up -> m + lastBit - 1
                        [] OTHER -> m
             z == added - (added % lastBit)
             A == packToUI(f, a.sign, IF toOne THEN Bias(f) ELSE 0, 0)
             B == packToUI(f, a.sign, 0, z)
             nx == z # m
  <2>1. roundToInt(f, rm, a) =
          IF a.exp < Bias(f)
          THEN IF isZero(a) THEN Result(a, {}) ELSE Result(A, {"NX"})
          ELSE IF a.exp >= Bias(f) + f.F
          THEN IF isNaN(f, a) THEN propagateNaN(f, a, Zero(f, 0)) ELSE Result(a, {})
          ELSE Result(B, When(nx, "NX"))
    BY DEF roundToInt
  <2> HIDE DEF A, B, nx
  <2>2. When(nx, "NX") \in SUBSET Flags
    BY WhenFlags, FlagNames
  <2> QED BY <2>1, <2>2, NaNRaises, ResultRaises, FlagNames, Zenon
<1> QED BY <1>1, Zenon DEF fp, f32_roundToInt, f64_roundToInt

(* Comparisons.                                                              *)
LEMMA ComparedRaises ==
  ASSUME NEW f, NEW signaling, NEW a, NEW b, NEW holds
  PROVE  Raises(compared(f, signaling, a, b, holds))
BY ResultRaises, WhenFlags, FlagNames, Zenon DEF compared

LEMMA CompareRaises ==
  ASSUME NEW s, NEW a, NEW b
  PROVE  /\ \A op \in Compares : Raises(Compare(op, s, a, b))
         /\ Raises(fp(s, f32_eq_signaling(a, b), f64_eq_signaling(a, b)))
         /\ \A op \in Selects : Raises(Select(op, s, a, b))
<1>1. \A f, signaling, x, y : /\ Raises(eq(f, signaling, x, y))
                              /\ Raises(le(f, signaling, x, y))
                              /\ Raises(lt(f, signaling, x, y))
  BY ComparedRaises, Zenon DEF eq, le, lt
<1>2. \A op \in Compares : Raises(Compare(op, s, a, b))
  <2>1. /\ Raises(f32_eq(a, b)) /\ Raises(f64_eq(a, b))
        /\ Raises(f32_le(a, b)) /\ Raises(f64_le(a, b))
        /\ Raises(f32_lt(a, b)) /\ Raises(f64_lt(a, b))
    BY <1>1, Zenon DEF f32_eq, f64_eq, f32_le, f64_le, f32_lt, f64_lt
  <2> QED BY <2>1 DEF Compare, fp, Compares
<1>3. Raises(fp(s, f32_eq_signaling(a, b), f64_eq_signaling(a, b)))
  BY <1>1, Zenon DEF fp, f32_eq_signaling, f64_eq_signaling
<1>4. ASSUME NEW op \in Selects PROVE Raises(Select(op, s, a, b))
  <2> DEFINE d == IF op = "fmin" THEN fp(s, f32_lt_quiet(a, b), f64_lt_quiet(a, b))
                                 ELSE fp(s, f32_le_quiet(b, a), f64_le_quiet(b, a))
  <2>1. Raises(d)
    BY <1>1, Zenon DEF fp, f32_lt_quiet, f64_lt_quiet, f32_le_quiet, f64_le_quiet
  <2>2. Select(op, s, a, b) = IF isNaN(Fmt(s), b) THEN Result(a, {})
                              ELSE Result(IF d.z THEN a ELSE b, d.flags)
    BY DEF Select
  <2> HIDE DEF d
  <2>3. d.flags \in SUBSET Flags
    BY <2>1 DEF Raises
  <2> QED BY <2>2, <2>3, ResultRaises, FlagNames, Zenon
<1> QED BY <1>2, <1>3, <1>4

-----------------------------------------------------------------------------
(* The registers.                                                            *)
LEMMA Parts ==
  ASSUME IndInv
  PROVE  /\ stream \in DOMAIN Streams
         /\ fflags \in [Harts -> SUBSET Flags] /\ frm \in [Harts -> 0..7]
         /\ FS \in [Harts -> 0..3] /\ softfloat_roundingMode \in 0..4
         /\ accrued = fflags /\ softfloat_exceptionFlags = {}
         /\ DOMAIN frd = Harts /\ DOMAIN saved = Harts
         /\ Stream.harts \subseteq Harts /\ Stream.rms \subseteq 0..7 /\ Stream.csr \subseteq Nat
<1>1. /\ stream \in DOMAIN Streams
      /\ fflags \in [Harts -> SUBSET Flags] /\ frm \in [Harts -> 0..7]
      /\ FS \in [Harts -> 0..3] /\ softfloat_roundingMode \in 0..4
      /\ accrued = fflags /\ softfloat_exceptionFlags = {}
  BY DEF IndInv, FlagsAccrue, TypeOK
<1>2. DOMAIN frd = Harts /\ DOMAIN saved = Harts
  BY DEF IndInv
<1>3. Stream.harts \subseteq Harts /\ Stream.rms \subseteq 0..7 /\ Stream.csr \subseteq Nat
  BY <1>1, StreamsAssumption DEF Stream
<1> QED BY <1>1, <1>2, <1>3

(* The end of an instruction, whatever it computed.                          *)
LEMMA RetireGood ==
  ASSUME IndInv, insn.op # "none", UsesRM(insn.op) => RM <= 4,
         NEW r, Raises(r), NEW operands, NEW toF, Retire(r, operands, toF)
  PROVE  IndInv'
<1> DEFINE h == insn.hart
           raised == softfloat_exceptionFlags \cup r.flags
<1>1. /\ stream \in DOMAIN Streams
      /\ fflags \in [Harts -> SUBSET Flags] /\ frm \in [Harts -> 0..7]
      /\ FS \in [Harts -> 0..3] /\ softfloat_roundingMode \in 0..4
      /\ accrued = fflags /\ softfloat_exceptionFlags = {}
      /\ DOMAIN frd = Harts /\ DOMAIN saved = Harts
      /\ Stream.harts \subseteq Harts /\ Stream.rms \subseteq 0..7
  BY Parts
<1>2. h \in Harts /\ insn.rm \in 0..7
  BY <1>1 DEF IndInv, Fetched, NoInsn
<1>3. raised = r.flags /\ r.flags \in SUBSET Flags
  BY <1>1 DEF Raises
<1>4. /\ softfloat_roundingMode' = IF UsesRM(insn.op) THEN RM ELSE softfloat_roundingMode
      /\ fflags' = [fflags EXCEPT ![h] = fflags[h] \cup raised]
      /\ softfloat_exceptionFlags' = {}
      /\ FS' = [FS EXCEPT ![h] = IF toF \/ raised # {} THEN FsDirty ELSE FS[h]]
      /\ frd' = IF toF /\ Stream.endless THEN [frd EXCEPT ![h] = r.z] ELSE frd
      /\ accrued' = [accrued EXCEPT ![h] = accrued[h] \cup r.flags]
      /\ insn' = NoInsn
      /\ UNCHANGED <<stream, frm, saved>>
  BY DEF Retire, set_fp_exceptions, dirty_fp_state
<1> HIDE DEF h, raised
<1>5. RM \in 0..7
  BY <1>1, <1>2 DEF RM, h
<1>6. softfloat_roundingMode' \in 0..4
  BY <1>1, <1>4, <1>5
<1>7. /\ fflags' \in [Harts -> SUBSET Flags]
      /\ \A p \in Harts : p # h => fflags'[p] = fflags[p]
      /\ raised = {} => fflags'[h] = fflags[h]
  BY <1>1, <1>2, <1>3, <1>4
<1>8. /\ FS' \in [Harts -> 0..3]
      /\ \A p \in Harts : p # h => FS'[p] = FS[p]
      /\ FS'[h] # FsDirty => FS[h] # FsDirty /\ ~toF /\ raised = {}
  BY <1>1, <1>2, <1>4 DEF FsDirty
<1>9. /\ frd' = [p \in Harts |-> frd'[p]]
      /\ \A p \in Harts : p # h => frd'[p] = frd[p]
      /\ ~toF => frd' = frd
  <2>1. CASE toF /\ Stream.endless
    <3>1. frd' = [frd EXCEPT ![h] = r.z]
      BY <1>4, <2>1
    <3> QED BY <1>1, <1>2, <2>1, <3>1
  <2>2. CASE ~(toF /\ Stream.endless)
    <3>1. frd' = frd
      BY <1>4, <2>2
    <3> QED BY <3>1 DEF IndInv
  <2> QED BY <2>1, <2>2
<1>10. FlagsAccrue'
  BY <1>1, <1>3, <1>4, <1>6, <1>7, <1>8 DEF FlagsAccrue, TypeOK
<1>11. CleanIsSaved'
  <2> SUFFICES ASSUME NEW p \in Harts, FS'[p] # FsDirty PROVE saved[p] = Context(p)'
    BY <1>4 DEF CleanIsSaved
  <2>1. FS[p] # FsDirty /\ fflags'[p] = fflags[p] /\ frd'[p] = frd[p]
    <3>1. CASE p = h
      BY <1>7, <1>8, <1>9, <3>1
    <3>2. CASE p # h
      BY <1>7, <1>8, <1>9, <3>2
    <3> QED BY <3>1, <3>2
  <2>2. Context(p)' = Context(p)
    BY <1>4, <2>1 DEF Context
  <2> QED BY <2>1, <2>2 DEF IndInv, CleanIsSaved
<1>12. Fetched' /\ stream' \in DOMAIN Streams /\ saved' = [p \in Harts |-> saved'[p]]
  BY <1>1, <1>4 DEF Fetched, NoInsn, IndInv
<1> QED BY <1>9, <1>10, <1>11, <1>12 DEF IndInv

LEMMA ExecuteGood == ASSUME IndInv, Execute PROVE IndInv'
<1>1. ASSUME NEW ops, Executing(ops), "none" \notin ops
      PROVE  insn.op # "none" /\ (UsesRM(insn.op) => RM <= 4) /\ insn.op \in ops
  BY <1>1 DEF Executing
<1>2. \A z : Raises(Result(z, {}))
  BY ResultRaises, FlagNames
<1>3. CASE execute_arithmetic
  <2>1. PICK b, est : Retire(Binary(insn.op, insn.fmt, insn.rs1, b, est), <<insn.rs1, b>>, TRUE)
    BY <1>3 DEF execute_arithmetic
  <2>2. Executing(Arithmetic) /\ "none" \notin Arithmetic
    BY <1>3 DEF execute_arithmetic, Arithmetic
  <2>3. insn.op # "none" /\ (UsesRM(insn.op) => RM <= 4) /\ insn.op \in Arithmetic
    BY <1>1, <2>2
  <2>4. Raises(Binary(insn.op, insn.fmt, insn.rs1, b, est))
    BY <2>3, BinaryRaises
  <2> QED BY <2>1, <2>3, <2>4, RetireGood
<1>4. CASE execute_fsqrt
  <2>1. PICK est : Retire(fp(insn.fmt, f32_sqrt(RM, insn.rs1, est), f64_sqrt(RM, insn.rs1, est)),
                          <<insn.rs1>>, TRUE)
    BY <1>4 DEF execute_fsqrt
  <2>2. insn.op # "none" /\ (UsesRM(insn.op) => RM <= 4)
    BY <1>4 DEF execute_fsqrt, Executing
  <2>3. Raises(fp(insn.fmt, f32_sqrt(RM, insn.rs1, est), f64_sqrt(RM, insn.rs1, est)))
    BY SqrtRaises, Zenon DEF fp, f32_sqrt, f64_sqrt
  <2> QED BY <2>1, <2>2, <2>3, RetireGood
<1>5. CASE execute_fused
  <2>1. PICK a1, b, c1, w : Retire(fp(insn.fmt, f32_mulAdd(RM, a1, b, c1), f64_mulAdd(RM, a1, b, c1)),
                                   w, TRUE)
    BY <1>5 DEF execute_fused
  <2>2. insn.op # "none" /\ (UsesRM(insn.op) => RM <= 4)
    BY <1>5 DEF execute_fused, Executing, Fused
  <2>3. Raises(fp(insn.fmt, f32_mulAdd(RM, a1, b, c1), f64_mulAdd(RM, a1, b, c1)))
    BY FusedRaises, Zenon DEF fp
  <2> QED BY <2>1, <2>2, <2>3, RetireGood
<1>6. CASE execute_compare
  <2>1. PICK b : Retire(Compare(insn.op, insn.fmt, insn.rs1, b), <<insn.rs1, b>>, FALSE)
    BY <1>6 DEF execute_compare
  <2>2. insn.op # "none" /\ (UsesRM(insn.op) => RM <= 4) /\ insn.op \in Compares
    BY <1>6 DEF execute_compare, Executing, Compares
  <2> QED BY <2>1, <2>2, CompareRaises, RetireGood
<1>7. CASE execute_select
  <2>1. PICK b : Retire(Select(insn.op, insn.fmt, insn.rs1, b), <<insn.rs1, b>>, TRUE)
    BY <1>7 DEF execute_select
  <2>2. insn.op # "none" /\ (UsesRM(insn.op) => RM <= 4) /\ insn.op \in Selects
    BY <1>7 DEF execute_select, Executing, Selects
  <2> QED BY <2>1, <2>2, CompareRaises, RetireGood
<1>8. CASE execute_fsgnj
  <2>1. PICK z, w : Retire(Result(z, {}), w, TRUE)
    BY <1>8 DEF execute_fsgnj
  <2>2. insn.op # "none" /\ (UsesRM(insn.op) => RM <= 4)
    BY <1>8 DEF execute_fsgnj, Executing, Injects
  <2> QED BY <1>2, <2>1, <2>2, RetireGood
<1>9. CASE execute_fclass
  <2>1. PICK z, w : Retire(Result(z, {}), w, FALSE)
    BY <1>9 DEF execute_fclass
  <2>2. insn.op # "none" /\ (UsesRM(insn.op) => RM <= 4)
    BY <1>9 DEF execute_fclass, Executing
  <2> QED BY <1>2, <2>1, <2>2, RetireGood
<1>10. CASE execute_fmv
  <2>1. PICK z, w, toF : Retire(Result(z, {}), w, toF)
    BY <1>10 DEF execute_fmv
  <2>2. insn.op # "none" /\ (UsesRM(insn.op) => RM <= 4)
    BY <1>10 DEF execute_fmv, Executing
  <2> QED BY <1>2, <2>1, <2>2, RetireGood
<1>11. CASE execute_fcvt_int
  <2>1. PICK t \in IntTypes : Retire(Result(sext(Width(t), ToInt(t, insn.fmt, insn.rs1).z),
                                            ToInt(t, insn.fmt, insn.rs1).flags),
                                     <<insn.rs1, t>>, FALSE)
    BY <1>11 DEF execute_fcvt_int
  <2>2. insn.op # "none" /\ (UsesRM(insn.op) => RM <= 4)
    BY <1>11 DEF execute_fcvt_int, Executing
  <2>3. ToInt(t, insn.fmt, insn.rs1).flags \in SUBSET Flags
    BY ToIntRaises DEF Raises
  <2> QED BY <2>1, <2>2, <2>3, ResultRaises, RetireGood
<1>12. CASE execute_fcvt_from_int
  <2>1. PICK t \in IntTypes : Retire(FromInt(t, insn.fmt, AsType(t, insn.rs1)), <<insn.rs1, t>>, TRUE)
    BY <1>12 DEF execute_fcvt_from_int
  <2>2. insn.op # "none" /\ (UsesRM(insn.op) => RM <= 4)
    BY <1>12 DEF execute_fcvt_from_int, Executing
  <2> QED BY <2>1, <2>2, FromIntRaises, RetireGood
<1>13. CASE execute_fcvt_fmt
  <2>1. insn.op # "none" /\ (UsesRM(insn.op) => RM <= 4)
    BY <1>13 DEF execute_fcvt_fmt, Executing
  <2> QED BY <1>13, <2>1, FormatRaises, RetireGood DEF execute_fcvt_fmt
<1>14. CASE execute_extension
  <2>1. insn.op # "none" /\ (UsesRM(insn.op) => RM <= 4)
    BY <1>14 DEF execute_extension, Executing
  <2>2. CASE \E t \in IntTypes :
               Retire(ToIntMinMag(t, insn.fmt, insn.rs1), <<insn.rs1, t>>, FALSE)
    BY <2>1, <2>2, ToIntRaises, RetireGood
  <2>3. CASE Retire(fp(insn.fmt, f32_roundToInt(RM, insn.rs1), f64_roundToInt(RM, insn.rs1)),
                    <<insn.rs1>>, TRUE)
    BY <2>1, <2>3, RoundToIntRaises, RetireGood
  <2>4. CASE \E b \in Operands :
               Retire(fp(insn.fmt, f32_eq_signaling(insn.rs1, b), f64_eq_signaling(insn.rs1, b)),
                      <<insn.rs1, b>>, FALSE)
    BY <2>1, <2>4, CompareRaises, RetireGood
  <2> QED BY <1>14, <2>2, <2>3, <2>4, Zenon DEF execute_extension
<1> QED BY <1>3, <1>4, <1>5, <1>6, <1>7, <1>8, <1>9, <1>10, <1>11, <1>12, <1>13, <1>14
        DEF Execute

(* An instruction that is fetched, or traps, leaves the registers alone.     *)
LEMMA KeptGood ==
  ASSUME IndInv, UNCHANGED <<stream, fpVars, softfloat_roundingMode,
                             softfloat_exceptionFlags, accrued, saved>>, Fetched'
  PROVE  IndInv'
<1>1. UNCHANGED <<stream, fflags, frm, FS, frd, softfloat_roundingMode,
                  softfloat_exceptionFlags, accrued, saved>>
  BY DEF fpVars
<1>2. FlagsAccrue'
  BY <1>1 DEF IndInv, FlagsAccrue, TypeOK
<1>3. CleanIsSaved'
  BY <1>1 DEF IndInv, CleanIsSaved, Context
<1> QED BY <1>1, <1>2, <1>3 DEF IndInv

LEMMA FetchGood ==
  ASSUME IndInv, NEW h \in Stream.harts, NEW op, NEW fmt, NEW rm \in Stream.rms, NEW a,
         fetch(h, op, fmt, rm, a)
  PROVE  IndInv'
<1>1. /\ insn' = [op |-> op, fmt |-> fmt, rm |-> rm, rs1 |-> a, hart |-> h]
      /\ UNCHANGED <<stream, fpVars, softfloat_roundingMode, softfloat_exceptionFlags,
                     accrued, saved>>
  BY DEF fetch
<1>2. insn'.hart = h /\ insn'.rm = rm /\ Stream' = Stream
  BY <1>1 DEF Stream
<1>3. Fetched'
  BY <1>2 DEF Fetched
<1> QED BY <1>1, <1>3, KeptGood

LEMMA IllegalGood == ASSUME IndInv, IllegalInstruction PROVE IndInv'
<1>1. /\ insn' = NoInsn
      /\ UNCHANGED <<stream, fpVars, softfloat_roundingMode, softfloat_exceptionFlags,
                     accrued, saved>>
  BY DEF IllegalInstruction
<1>2. Fetched'
  BY <1>1 DEF Fetched
<1> QED BY <1>1, <1>2, KeptGood

(* A write of fflags, frm or fcsr.                                           *)
LEMMA SetCsrGood ==
  ASSUME IndInv, NEW h \in Stream.harts, NEW csr \in {"fflags", "frm", "fcsr"},
         NEW val \in Stream.csr, set_csr(h, csr, val)
  PROVE  IndInv'
<1> DEFINE flags == IF csr = "frm" THEN fflags[h] ELSE FlagsOf(val)
           mode == CASE csr = "frm" -> val % 8
                     [] csr = "fcsr" -> (val \div 32) % 8
                     [] OTHER -> frm[h]
<1>1. /\ stream \in DOMAIN Streams
      /\ fflags \in [Harts -> SUBSET Flags] /\ frm \in [Harts -> 0..7]
      /\ FS \in [Harts -> 0..3] /\ softfloat_roundingMode \in 0..4
      /\ accrued = fflags /\ softfloat_exceptionFlags = {}
      /\ h \in Harts /\ val \in Nat
  BY Parts
<1>2. /\ FS' = [FS EXCEPT ![h] = FsDirty]
      /\ fflags' = [fflags EXCEPT ![h] = flags]
      /\ frm' = [frm EXCEPT ![h] = mode]
      /\ accrued' = [accrued EXCEPT ![h] = fflags'[h]]
      /\ UNCHANGED <<stream, insn, frd, softfloat_roundingMode, softfloat_exceptionFlags, saved>>
  BY DEF set_csr
<1>3. flags \in SUBSET Flags
  BY <1>1 DEF FlagsOf
<1>4. mode \in 0..7
  <2>1. CASE csr = "frm"
    BY <1>1, <2>1
  <2>2. CASE csr = "fcsr"
    <3>1. val \div 32 \in Nat
      BY <1>1
    <3>2. mode = (val \div 32) % 8
      BY <2>2
    <3> HIDE DEF mode
    <3> QED BY <3>1, <3>2
  <2>3. CASE csr = "fflags"
    BY <1>1, <2>3
  <2> QED BY <2>1, <2>2, <2>3
<1> HIDE DEF flags, mode
<1>5. /\ fflags' \in [Harts -> SUBSET Flags] /\ fflags'[h] = flags
      /\ \A p \in Harts : p # h => fflags'[p] = fflags[p]
  BY <1>1, <1>2, <1>3
<1>6. /\ frm' \in [Harts -> 0..7]
      /\ \A p \in Harts : p # h => frm'[p] = frm[p]
  BY <1>1, <1>2, <1>4
<1>7. /\ FS' \in [Harts -> 0..3] /\ FS'[h] = FsDirty
      /\ \A p \in Harts : p # h => FS'[p] = FS[p]
  BY <1>1, <1>2 DEF FsDirty
<1>8. FlagsAccrue'
  <2>1. accrued' = fflags'
    BY <1>1, <1>2, <1>5
  <2> QED BY <1>1, <1>2, <1>5, <1>6, <1>7, <2>1 DEF FlagsAccrue, TypeOK
<1>9. CleanIsSaved'
  <2> SUFFICES ASSUME NEW p \in Harts, FS'[p] # FsDirty PROVE saved[p] = Context(p)'
    BY <1>2 DEF CleanIsSaved
  <2>1. p # h
    BY <1>7
  <2>2. Context(p)' = Context(p) /\ FS[p] # FsDirty
    BY <1>2, <1>5, <1>6, <1>7, <2>1 DEF Context
  <2> QED BY <2>2 DEF IndInv, CleanIsSaved
<1>10. Fetched'
  BY <1>2 DEF IndInv, Fetched, Stream
<1> QED BY <1>2, <1>8, <1>9, <1>10 DEF IndInv

(* The operating system saves what is dirty, and marks it clean or off.      *)
LEMMA OsGood ==
  ASSUME IndInv, NEW h \in Stream.harts, NEW v \in {FsOff, FsClean}, os_write_FS(h, v)
  PROVE  IndInv'
<1>1. /\ stream \in DOMAIN Streams
      /\ FS \in [Harts -> 0..3] /\ DOMAIN saved = Harts /\ h \in Harts
  BY Parts
<1>2. /\ FS' = [FS EXCEPT ![h] = v]
      /\ saved' = [saved EXCEPT ![h] = IF FS[h] = FsDirty THEN Context(h) ELSE saved[h]]
      /\ UNCHANGED <<stream, insn, fflags, frm, frd, softfloat_roundingMode,
                     softfloat_exceptionFlags, accrued>>
  BY DEF os_write_FS
<1>3. /\ FS' \in [Harts -> 0..3]
      /\ \A p \in Harts : p # h => FS'[p] = FS[p]
  BY <1>1, <1>2 DEF FsOff, FsClean
<1>4. /\ saved' = [p \in Harts |-> saved'[p]]
      /\ saved'[h] = IF FS[h] = FsDirty THEN Context(h) ELSE saved[h]
      /\ \A p \in Harts : p # h => saved'[p] = saved[p]
  BY <1>1, <1>2
<1>5. FlagsAccrue'
  BY <1>2, <1>3 DEF IndInv, FlagsAccrue, TypeOK
<1>6. CleanIsSaved'
  <2> SUFFICES ASSUME NEW p \in Harts, FS'[p] # FsDirty PROVE saved'[p] = Context(p)'
    BY DEF CleanIsSaved
  <2>1. Context(p)' = Context(p)
    BY <1>2 DEF Context
  <2>2. FS[p] # FsDirty => saved[p] = Context(p)
    BY DEF IndInv, CleanIsSaved
  <2>3. CASE p = h
    BY <1>4, <2>1, <2>2, <2>3
  <2>4. CASE p # h
    BY <1>3, <1>4, <2>1, <2>2, <2>4
  <2> QED BY <2>3, <2>4
<1>7. Fetched' /\ frd' = [p \in Harts |-> frd'[p]]
  BY <1>2 DEF IndInv, Fetched, Stream
<1> QED BY <1>1, <1>2, <1>4, <1>5, <1>6, <1>7 DEF IndInv

-----------------------------------------------------------------------------
LEMMA InitInv == Init => IndInv
<1> SUFFICES ASSUME Init PROVE IndInv
  OBVIOUS
<1>1. TypeOK
  BY DEF Init, TypeOK, Flags, round_near_even, FsOff, FsDirty
<1>2. FlagsAccrue
  BY <1>1 DEF Init, FlagsAccrue
<1>3. CleanIsSaved
  BY DEF Init, CleanIsSaved
<1>4. Fetched
  BY DEF Init, Fetched
<1>5. frd = [h \in Harts |-> frd[h]] /\ saved = [h \in Harts |-> saved[h]]
  BY DEF Init
<1> QED BY <1>2, <1>3, <1>4, <1>5 DEF IndInv, Init

LEMMA NextInv == IndInv /\ [Next]_vars => IndInv'
<1> SUFFICES ASSUME IndInv, [Next]_vars PROVE IndInv'
  OBVIOUS
<1>1. CASE UNCHANGED vars
  <2>1. UNCHANGED <<stream, insn, fpVars, softfloat_roundingMode,
                    softfloat_exceptionFlags, accrued, saved>>
    BY <1>1 DEF vars
  <2>2. Fetched'
    BY <2>1 DEF IndInv, Fetched, Stream
  <2> QED BY <2>1, <2>2, KeptGood
<1>2. CASE Next
  BY <1>2, FetchGood, IllegalGood, ExecuteGood, SetCsrGood, OsGood DEF Next
<1> QED BY <1>1, <1>2

LEMMA Invariant == Spec => []IndInv
BY InitInv, NextInv, PTL DEF Spec

(* Flags stay with the hart that raised them until its program clears them,  *)
(* although all the harts raise them in one variable of the library.         *)
THEOREM FlagsStay == Spec => []FlagsAccrue
<1>1. IndInv => FlagsAccrue
  BY DEF IndInv
<1> QED BY Invariant, <1>1, PTL

(* A floating-point state that is not dirty is what the operating system     *)
(* has saved of it: every instruction that changes it marks it.              *)
THEOREM CleanStaysSaved == Spec => []CleanIsSaved
<1>1. IndInv => CleanIsSaved
  BY DEF IndInv
<1> QED BY Invariant, <1>1, PTL
=============================================================================
