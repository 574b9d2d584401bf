--------------------------------- MODULE Fpu ---------------------------------
(***************************************************************************)
(* The floating-point instructions (riscv/insns/f*.h with the FPU macros   *)
(* of riscv/decode.h), the CSRs fflags, frm and fcsr (processor.cc), and   *)
(* the global variables through which every hart talks to SoftFloat.       *)
(*                                                                         *)
(* An instruction is fetched with its first operand and executed with the  *)
(* others; nothing happens between the two, since one thread runs all the  *)
(* harts.  Operands come from sets: an f register holds whatever was       *)
(* loaded into it.  The operating system of a hart saves the floating-     *)
(* point state when it finds it dirty and then marks it clean.             *)
(***************************************************************************)
EXTENDS SoftFloatConvert, Ieee

CONSTANTS Harts,     \* the harts
          Streams    \* what the harts execute: records by their names

\* What a stream may hold: rounding modes are the three bits of the
\* instruction, and values are what a register can hold.
ASSUME StreamsAssumption ==
  \A s \in DOMAIN Streams :
    /\ Streams[s].harts \subseteq Harts
    /\ Streams[s].rms \subseteq 0..7 /\ Streams[s].csr \subseteq Nat
    /\ Streams[s].os \in BOOLEAN /\ Streams[s].endless \in BOOLEAN

VARIABLES stream,
          insn,          \* the instruction that was fetched, or NoInsn
          fflags, frm,   \* per hart: state.fflags, state.frm
          FS,            \* per hart: the field FS of mstatus
          frd,           \* per hart: the f register written last
          softfloat_roundingMode,
          softfloat_exceptionFlags,
          out,           \* history, of a stream that ends: its instruction and the result
          accrued,       \* history: the flags the hart's instructions raised
          saved          \* history: what the operating system saved of the hart

fpVars == <<fflags, frm, FS, frd>>
vars == <<stream, insn, fpVars, softfloat_roundingMode, softfloat_exceptionFlags,
          out, accrued, saved>>

Stream == Streams[stream]

Flags == {"NX", "UF", "OF", "DZ", "NV"}
FlagBit == [NX |-> 1, UF |-> 2, OF |-> 4, DZ |-> 8, NV |-> 16]
FsOff == 0
FsClean == 2
FsDirty == 3
DYN == 7

NoInsn == [op |-> "none"]
Fmt(s) == IF s = "s" THEN F32 ELSE F64
OtherFmt(s) == IF s = "s" THEN "d" ELSE "s"

Context(h) == [fflags |-> fflags[h], frm |-> frm[h], frd |-> frd[h]]

Init ==
  /\ stream \in DOMAIN Streams
  /\ insn = NoInsn
  /\ fflags = [h \in Harts |-> {}]
  /\ frm = [h \in Harts |-> 0]
  /\ FS = [h \in Harts |-> IF Stream.os THEN FsOff ELSE FsDirty]
  /\ frd = [h \in Harts |-> 0]
  /\ softfloat_roundingMode = round_near_even
  /\ softfloat_exceptionFlags = {}
  /\ out = NoInsn
  /\ accrued = [h \in Harts |-> {}]
  /\ saved = [h \in Harts |-> Context(h)]

-----------------------------------------------------------------------------
(* Fetch, and the instructions that trap *)

Arithmetic == {"fadd", "fsub", "fmul", "fdiv"}
Fused == {"fmadd", "fmsub", "fnmadd", "fnmsub"}
Compares == {"feq", "flt", "fle"}
Selects == {"fmin", "fmax"}
Injects == {"fsgnj", "fsgnjn", "fsgnjx"}
IntTypes == {"w", "wu", "l", "lu"}

\* An instruction has retired or trapped, and there is another.
Ready == insn = NoInsn /\ (Stream.endless \/ out = NoInsn)
fetch(h, op, fmt, rm, a) ==
  /\ Ready
  /\ insn' = [op |-> op, fmt |-> fmt, rm |-> rm, rs1 |-> a, hart |-> h]
  /\ UNCHANGED <<stream, fpVars, softfloat_roundingMode, softfloat_exceptionFlags,
                 out, accrued, saved>>

\* The macro RM; 5 and 6 are illegal.
RM == IF insn.rm = DYN THEN frm[insn.hart] ELSE insn.rm
require_fp(h) == FS[h] # FsOff
UsesRM(op) == op \notin Compares \cup Selects \cup Injects \cup {"fclass", "fmv_x", "fmv_f"}
Executing(ops) ==
  /\ insn.op \in ops
  /\ require_fp(insn.hart)
  /\ UsesRM(insn.op) => RM <= 4

\* trap_illegal_instruction: nothing has been assigned when it is thrown.
IllegalInstruction ==
  /\ insn # NoInsn
  /\ ~require_fp(insn.hart) \/ (UsesRM(insn.op) /\ RM > 4)
  /\ insn' = NoInsn
  /\ UNCHANGED <<stream, fpVars, softfloat_roundingMode, softfloat_exceptionFlags,
                 out, accrued, saved>>

-----------------------------------------------------------------------------
(* The end of an instruction *)

\* A mutant: the flags stay in the library.
set_fp_exceptions_uncleared(h, raised) ==
  /\ fflags' = [fflags EXCEPT ![h] = @ \cup raised]
  /\ softfloat_exceptionFlags' = raised

set_fp_exceptions(h, raised) ==
  /\ fflags' = [fflags EXCEPT ![h] = @ \cup raised]
  /\ softfloat_exceptionFlags' = {}

\* A mutant: only a write to an f register makes the state dirty.
dirty_fp_state_frd(h, toF, raised) ==
  FS' = [FS EXCEPT ![h] = IF toF THEN FsDirty ELSE @]

dirty_fp_state(h, toF, raised) ==
  FS' = [FS EXCEPT ![h] = IF toF \/ raised # {} THEN FsDirty ELSE @]

\* r is what SoftFloat returned and raised; toF says that it goes to an f
\* register (WRITE_FRD) and not to an x register (WRITE_RD).
Retire(r, operands, toF) ==
  LET h == insn.hart
      raised == softfloat_exceptionFlags \cup r.flags
  IN  /\ softfloat_roundingMode' = IF UsesRM(insn.op) THEN RM ELSE softfloat_roundingMode
      /\ set_fp_exceptions(h, raised)
      /\ dirty_fp_state(h, toF, raised)
      /\ frd' = IF toF /\ Stream.endless THEN [frd EXCEPT ![h] = r.z] ELSE frd
      /\ out' = IF Stream.endless THEN out
                ELSE [op |-> insn.op, fmt |-> insn.fmt, rm |-> RM, a |-> operands,
                      z |-> r.z, flags |-> r.flags]
      /\ accrued' = [accrued EXCEPT ![h] = @ \cup r.flags]
      /\ insn' = NoInsn
      /\ UNCHANGED <<stream, frm, saved>>

Operands == Stream.operands[insn.fmt]

-----------------------------------------------------------------------------
(* Arithmetic *)

fp(s, f32, f64) == IF s = "s" THEN f32 ELSE f64

Binary(op, s, a, b, est) ==
  CASE op = "fadd" -> fp(s, f32_add(RM, a, b), f64_add(RM, a, b))
    [] op = "fsub" -> fp(s, f32_sub(RM, a, b), f64_sub(RM, a, b))
    [] op = "fmul" -> fp(s, f32_mul(RM, a, b), f64_mul(RM, a, b))
    [] op = "fdiv" -> fp(s, f32_div(RM, a, b), f64_div(RM, a, b, est))

execute_arithmetic ==
  /\ Executing(Arithmetic)
  /\ \E b \in Operands, est \in Estimates :
       /\ est = 0 \/ (insn.op = "fdiv" /\ insn.fmt = "d")
       /\ Retire(Binary(insn.op, insn.fmt, insn.rs1, b, est), <<insn.rs1, b>>, TRUE)

execute_fsqrt ==
  /\ Executing({"fsqrt"})
  /\ \E est \in Estimates :
       Retire(fp(insn.fmt, f32_sqrt(RM, insn.rs1, est), f64_sqrt(RM, insn.rs1, est)),
              <<insn.rs1>>, TRUE)

\* The four are one function, with the signs of operands inverted.
NegateProduct == {"fnmadd", "fnmsub"}
NegateAddend == {"fmsub", "fnmadd"}
FlipIf(condition, a) == IF condition THEN Flip(a) ELSE a

execute_fused ==
  /\ Executing(Fused)
  /\ \E b, c \in Operands :
       LET a1 == FlipIf(insn.op \in NegateProduct, insn.rs1)
           c1 == FlipIf(insn.op \in NegateAddend, c)
       IN  Retire(fp(insn.fmt, f32_mulAdd(RM, a1, b, c1), f64_mulAdd(RM, a1, b, c1)),
                  <<insn.rs1, b, c>>, TRUE)

-----------------------------------------------------------------------------
(* Comparison, selection, signs *)

Compare(op, s, a, b) ==
  CASE op = "feq" -> fp(s, f32_eq(a, b), f64_eq(a, b))
    [] op = "flt" -> fp(s, f32_lt(a, b), f64_lt(a, b))
    [] op = "fle" -> fp(s, f32_le(a, b), f64_le(a, b))

execute_compare ==
  /\ Executing(Compares)
  /\ \E b \in Operands :
       Retire(Compare(insn.op, insn.fmt, insn.rs1, b), <<insn.rs1, b>>, FALSE)

\* The comparison is not made, and so raises nothing, if rs2 is a NaN.
Select(op, s, a, b) ==
  LET c == IF op = "fmin" THEN fp(s, f32_lt_quiet(a, b), f64_lt_quiet(a, b))
                          ELSE fp(s, f32_le_quiet(b, a), f64_le_quiet(b, a))
  IN  IF isNaN(Fmt(s), b) THEN Result(a, {}) ELSE Result(IF c.z THEN a ELSE b, c.flags)

execute_select ==
  /\ Executing(Selects)
  /\ \E b \in Operands :
       Retire(Select(insn.op, insn.fmt, insn.rs1, b), <<insn.rs1, b>>, TRUE)

Inject(op, a, b) ==
  [a EXCEPT !.sign = CASE op = "fsgnj" -> b.sign
                       [] op = "fsgnjn" -> 1 - b.sign
                       [] op = "fsgnjx" -> XorSign(a, b)]

\* The instructions from here to fmv do not end with set_fp_exceptions, but
\* raise no flag.
execute_fsgnj ==
  /\ Executing(Injects)
  /\ \E b \in Operands :
       Retire(Result(Inject(insn.op, insn.rs1, b), {}), <<insn.rs1, b>>, TRUE)

execute_fclass ==
  /\ Executing({"fclass"})
  /\ Retire(Result(fp(insn.fmt, f32_classify(insn.rs1), f64_classify(insn.rs1)), {}),
            <<insn.rs1>>, FALSE)

\* Moves, loads (fmv_f: to an f register) and stores (fmv_x: from one).
execute_fmv ==
  /\ Executing({"fmv_f", "fmv_x"})
  /\ Retire(Result(insn.rs1, {}), <<insn.rs1>>, insn.op = "fmv_f")

-----------------------------------------------------------------------------
(* Conversions *)

Width(t) == IF t \in {"w", "wu"} THEN w32 ELSE w64
Signed(t) == t \in {"w", "l"}
sext(w, i) == IF i % 2 ^ w >= 2 ^ (w - 1) THEN (i % 2 ^ w) - 2 ^ w ELSE i % 2 ^ w

ToInt(t, s, a) ==
  CASE t = "w" -> fp(s, f32_to_i32(RM, a), f64_to_i32(RM, a))
    [] t = "wu" -> fp(s, f32_to_ui32(RM, a), f64_to_ui32(RM, a))
    [] t = "l" -> fp(s, f32_to_i64(RM, a), f64_to_i64(RM, a))
    [] t = "lu" -> fp(s, f32_to_ui64(RM, a), f64_to_ui64(RM, a))

\* A 32-bit result is sign-extended, the unsigned one too.
execute_fcvt_int ==
  /\ Executing({"fcvt_int"})
  /\ \E t \in IntTypes :
       LET r == ToInt(t, insn.fmt, insn.rs1)
       IN  Retire(Result(sext(Width(t), r.z), r.flags), <<insn.rs1, t>>, FALSE)

\* The integer a conversion sees of the register RS1.
AsType(t, i) == IF Signed(t) THEN sext(Width(t), i) ELSE i % 2 ^ Width(t)

FromInt(t, s, i) ==
  CASE t = "w" -> fp(s, i32_to_f32(RM, i), i32_to_f64(i))
    [] t = "wu" -> fp(s, ui32_to_f32(RM, i), ui32_to_f64(i))
    [] t = "l" -> fp(s, i64_to_f32(RM, i), i64_to_f64(RM, i))
    [] t = "lu" -> fp(s, ui64_to_f32(RM, i), ui64_to_f64(RM, i))

execute_fcvt_from_int ==
  /\ Executing({"fcvt_from_int"})
  /\ \E t \in IntTypes :
       Retire(FromInt(t, insn.fmt, AsType(t, insn.rs1)), <<insn.rs1, t>>, TRUE)

\* insn.fmt is the format that is converted from.
execute_fcvt_fmt ==
  /\ Executing({"fcvt_fmt"})
  /\ Retire(fp(insn.fmt, f32_to_f64(insn.rs1), f64_to_f32(RM, insn.rs1)), <<insn.rs1>>, TRUE)

\* Functions of the library that no instruction of the repository calls; an
\* extension's instruction would call them between the same macros.
ToIntMinMag(t, s, a) ==
  CASE t = "w" -> fp(s, f32_to_i32_r_minMag(a), f64_to_i32_r_minMag(a))
    [] t = "wu" -> fp(s, f32_to_ui32_r_minMag(a), f64_to_ui32_r_minMag(a))
    [] t = "l" -> fp(s, f32_to_i64_r_minMag(a), f64_to_i64_r_minMag(a))
    [] t = "lu" -> fp(s, f32_to_ui64_r_minMag(a), f64_to_ui64_r_minMag(a))

execute_extension ==
  \/ /\ Executing({"to_int_r_minMag"})
     /\ \E t \in IntTypes :
          Retire(ToIntMinMag(t, insn.fmt, insn.rs1), <<insn.rs1, t>>, FALSE)
  \/ /\ Executing({"roundToInt"})
     /\ Retire(fp(insn.fmt, f32_roundToInt(RM, insn.rs1), f64_roundToInt(RM, insn.rs1)),
               <<insn.rs1>>, TRUE)
  \/ /\ Executing({"eq_signaling"})
     /\ \E b \in Operands :
          Retire(fp(insn.fmt, f32_eq_signaling(insn.rs1, b), f64_eq_signaling(insn.rs1, b)),
                 <<insn.rs1, b>>, FALSE)

-----------------------------------------------------------------------------
(* CSRs *)

FlagsOf(n) == {x \in Flags : (n \div FlagBit[x]) % 2 = 1}

\* csrrw: get_csr requires the unit to be on, set_csr masks the value.
set_csr(h, csr, val) ==
  /\ insn = NoInsn
  /\ require_fp(h)
  /\ FS' = [FS EXCEPT ![h] = FsDirty]
  /\ fflags' = [fflags EXCEPT ![h] = IF csr = "frm" THEN @ ELSE FlagsOf(val)]
  /\ frm' = [frm EXCEPT ![h] = CASE csr = "frm" -> val % 8
                                 [] csr = "fcsr" -> (val \div 32) % 8
                                 [] OTHER -> @]
  /\ accrued' = [accrued EXCEPT ![h] = fflags'[h]]
  /\ UNCHANGED <<stream, insn, frd, softfloat_roundingMode, softfloat_exceptionFlags,
                 out, saved>>

\* External: the operating system switches the unit off, or on again with
\* its registers as it saved them.
os_write_FS(h, v) ==
  /\ insn = NoInsn
  /\ FS' = [FS EXCEPT ![h] = v]
  /\ saved' = [saved EXCEPT ![h] = IF FS[h] = FsDirty THEN Context(h) ELSE @]
  /\ UNCHANGED <<stream, insn, fflags, frm, frd, softfloat_roundingMode,
                 softfloat_exceptionFlags, out, accrued>>

Execute ==
  \/ execute_arithmetic \/ execute_fsqrt \/ execute_fused
  \/ execute_compare \/ execute_select \/ execute_fsgnj \/ execute_fclass \/ execute_fmv
  \/ execute_fcvt_int \/ execute_fcvt_from_int \/ execute_fcvt_fmt \/ execute_extension

Next ==
  \/ /\ Ready
     /\ \E h \in Stream.harts, op \in Stream.ops, fmt \in Stream.fmts, rm \in Stream.rms :
          \E a \in Stream.rs1[fmt] : fetch(h, op, fmt, rm, a)
  \/ IllegalInstruction
  \/ Execute
  \/ \E h \in Stream.harts, csr \in {"fflags", "frm", "fcsr"}, val \in Stream.csr :
       set_csr(h, csr, val)
  \/ \E h \in Stream.harts, v \in {FsOff, FsClean} : Stream.os /\ os_write_FS(h, v)

Spec == Init /\ [][Next]_vars

-----------------------------------------------------------------------------
(* Properties *)

TypeOK ==
  /\ fflags \in [Harts -> SUBSET Flags]
  /\ frm \in [Harts -> 0..7]
  /\ FS \in [Harts -> 0..3]
  /\ softfloat_roundingMode \in 0..4
  /\ softfloat_exceptionFlags \subseteq Flags

\* What IEEE 754 says of the last instruction.
Promised(o) ==
  LET f == Fmt(o.fmt)
      a == o.a[1]
      b == o.a[2]
      c == o.a[3]
  IN  CASE o.op = "fadd" -> IeeeAdd(f, o.rm, a, b)
        [] o.op = "fsub" -> IeeeAdd(f, o.rm, a, FlipIf(~isNaN(f, b), b))
        [] o.op = "fmul" -> IeeeMul(f, o.rm, a, b)
        [] o.op = "fdiv" -> IeeeDiv(f, o.rm, a, b)
        [] o.op = "fsqrt" -> IeeeSqrt(f, o.rm, a, Isqrt)
        [] o.op = "fmadd" -> IeeeFma(f, o.rm, a, b, c)
        [] o.op = "fmsub" -> IeeeFma(f, o.rm, a, b, Flip(c))
        [] o.op = "fnmadd" -> IeeeFma(f, o.rm, Flip(a), b, Flip(c))
        [] o.op = "fnmsub" -> IeeeFma(f, o.rm, Flip(a), b, c)

\* The sum, difference, product, quotient, square root or fused sum that an
\* instruction returns is the exact one rounded once in the mode the
\* instruction asks for, and the flags are those the rounding deserves,
\* whichever estimate the division and the square root started from.
CorrectlyRounded ==
  out.op \in Arithmetic \cup Fused \cup {"fsqrt"} =>
    /\ Result(out.z, out.flags) = Promised(out)
    /\ out.z \in Float(Fmt(out.fmt))

LeastInt(t) == IF Signed(t) THEN 0 - 2 ^ (Width(t) - 1) ELSE 0
LargestInt(t) == IF Signed(t) THEN 2 ^ (Width(t) - 1) - 1 ELSE 2 ^ Width(t) - 1

\* The float that r, an integer with flags, would be.
AsFloat(f, a, r) == Result(IF r.z = 0 THEN [sign |-> a.sign, exp |-> 0, sig |-> 0]
                           ELSE IeeeFromInt(f, round_minMag, r.z).z, r.flags)

\* A conversion to an integer is the nearest integer in the rounding mode,
\* or the end of the type's range and the invalid flag; one from an integer,
\* or to the other format, is rounded once.
ConversionsCorrect ==
  LET f == Fmt(out.fmt)
      a == out.a[1]
      t == out.a[2]
      r == Result(out.z, out.flags)
      ToType(rm) == IeeeToInt(f, rm, LeastInt(t), LargestInt(t), a)
  IN  /\ out.op = "fcvt_int" =>
           r = Result(sext(Width(t), ToType(out.rm).z), ToType(out.rm).flags)
      /\ out.op = "to_int_r_minMag" => r = ToType(round_minMag)
      /\ out.op = "fcvt_from_int" => r = IeeeFromInt(f, out.rm, AsType(t, a))
      /\ out.op = "fcvt_fmt" => r = IeeeConvert(f, Fmt(OtherFmt(out.fmt)), out.rm, a)
      /\ out.op = "roundToInt" =>
           IF isNaN(f, a) THEN r = FromNaNs(f, {a})
           ELSE IF a.exp >= Bias(f) + f.F THEN r = Result(a, {})
           ELSE r = AsFloat(f, a, IeeeToInt(f, out.rm, 0 - 2 ^ 20, 2 ^ 20, a))

\* Numbers compare as their places on the number line, a NaN with nothing,
\* and the invalid flag is raised for the NaNs it is meant for; fclass finds
\* exactly one class.
ComparisonsCorrect ==
  LET f == Fmt(out.fmt)
      a == out.a[1]
      b == out.a[2]
      unordered == isNaN(f, a) \/ isNaN(f, b)
      signals == isSigNaN(f, a) \/ isSigNaN(f, b)
      Holds(order) == out.z = (~unordered /\ order)
  IN  /\ out.op \in {"feq", "eq_signaling"} => Holds(Place(f, a) = Place(f, b))
      /\ out.op = "flt" => Holds(Place(f, a) < Place(f, b))
      /\ out.op = "fle" => Holds(Place(f, a) <= Place(f, b))
      /\ out.op = "feq" => out.flags = When(signals, "NV")
      /\ out.op \in {"flt", "fle", "eq_signaling"} => out.flags = When(unordered, "NV")
      /\ out.op = "fclass" =>
           out.z = {CASE isSigNaN(f, a) -> 8
                      [] isNaN(f, a) /\ ~isSigNaN(f, a) -> 9
                      [] isInf(f, a) -> IF a.sign = 1 THEN 0 ELSE 7
                      [] isZero(a) -> 3 + (1 - a.sign)
                      [] a.exp = 0 /\ a.sig # 0 -> IF a.sign = 1 THEN 2 ELSE 5
                      [] OTHER -> IF a.sign = 1 THEN 1 ELSE 6}

\* fmin and fmax return, with its sign, the operand that lies further out, or
\* the one that is a number; of two zeros either may be returned, as minNum and
\* maxNum of IEEE 754-2008 leave open (fmin(-0, +0) is +0 here).  A signaling NaN
\* raises the invalid flag.  The code departs from this in one case, which is
\* stated as it is: if rs2 is a NaN nothing is compared, so that no signaling
\* NaN is reported and rs1 is returned even if it is one.
SelectionsCorrect ==
  LET f == Fmt(out.fmt)
      a == out.a[1]
      b == out.a[2]
      signals == isSigNaN(f, a) \/ isSigNaN(f, b)
  IN  out.op \in Selects =>
        /\ out.z \in {a, b}
        /\ IF isNaN(f, b) THEN out.z = a /\ out.flags = {}
           ELSE /\ ~isNaN(f, out.z) /\ out.flags = When(signals, "NV")
                /\ ~isNaN(f, a) => \A x \in {a, b} :
                     IF out.op = "fmin" THEN Place(f, out.z) <= Place(f, x)
                                        ELSE Place(f, out.z) >= Place(f, x)

\* Sign injection changes no bit but the sign, a move none at all, and
\* neither raises a flag, for a signaling NaN either.
MovesCorrect ==
  LET a == out.a[1]
      b == out.a[2]
      signs == CASE out.op = "fsgnj" -> b.sign
                 [] out.op = "fsgnjn" -> (b.sign + 1) % 2
                 [] out.op = "fsgnjx" -> (a.sign + b.sign) % 2
  IN  /\ out.op \in Injects => /\ out.z.exp = a.exp /\ out.z.sig = a.sig
                               /\ out.z.sign = signs
      /\ out.op \in {"fmv_f", "fmv_x"} => out.z = a
      /\ out.op \in Injects \cup {"fmv_f", "fmv_x"} => out.flags = {}

\* Whatever an instruction returns other than a rounded sum, product, quotient
\* or root is what the standard says, with the flags it says, but for fmin and
\* fmax of a NaN in rs2 (SelectionsCorrect says what they do).
OthersCorrect ==
  ConversionsCorrect /\ ComparisonsCorrect /\ SelectionsCorrect /\ MovesCorrect

\* A flag that an instruction of a hart raised stays in that hart's fflags
\* until the hart's program clears it, and reaches no other hart, although
\* the harts share the library's variable.  The registers are well formed.
FlagsAccrue == TypeOK /\ fflags = accrued /\ softfloat_exceptionFlags = {}

\* An operating system that saves the registers only when it finds them
\* dirty has, whenever they are not dirty, what the hart has.
CleanIsSaved == \A h \in Harts : FS[h] # FsDirty => saved[h] = Context(h)

-----------------------------------------------------------------------------
(* The inductive invariant *)

\* An instruction in flight is one that the stream holds.
Fetched ==
  insn.op # NoInsn.op => insn.hart \in Stream.harts /\ insn.rm \in Stream.rms

IndInv ==
  /\ stream \in DOMAIN Streams /\ Fetched
  /\ frd = [h \in Harts |-> frd[h]] /\ saved = [h \in Harts |-> saved[h]]
  /\ FlagsAccrue /\ CleanIsSaved
==============================================================================
