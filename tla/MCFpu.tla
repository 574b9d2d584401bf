-------------------------------- MODULE MCFpu --------------------------------
(* Two formats small enough for all their special cases: 6 bits of exponent  *)
(* and 2 of fraction in a word of 8 bits, 7 and 10 in a word of 16.          *)
EXTENDS Fpu

MCF32 == [E |-> 6, F |-> 2, G |-> 4]
MCF64 == [E |-> 7, F |-> 10, G |-> 4]

Floats(signs, exps, sigs) == [sign : signs, exp : exps, sig : sigs]
Signs == {0, 1}

\* One instruction with every operand of the sets.
Single(ops, fmts, rms, operands) ==
  [harts |-> {0}, ops |-> ops, fmts |-> fmts, rms |-> rms, rs1 |-> operands,
   operands |-> operands, csr |-> {}, os |-> FALSE, endless |-> FALSE]

\* Zeros and subnormals, the smallest numbers, numbers around one and two,
\* the largest, infinities and NaNs.
Pairs == [s |-> Floats(Signs, {0, 1, 2, 30, 31, 33, 61, 62, 63}, 0..3),
          d |-> Floats(Signs, {0, 1, 62, 63, 126, 127}, {0, 1, 512, 1023})]
Ends == [s |-> Floats(Signs, {0, 1, 62, 63}, 0..3),
         d |-> Floats(Signs, {0, 1, 126, 127}, {0, 1, 1023})]
Triples == [s |-> Floats(Signs, {0, 1, 29, 31, 34, 62}, {0, 3}),
            d |-> Floats(Signs, {0, 55, 62, 63, 66}, {1, 1023})]
Specials == [s |-> Floats(Signs, {0, 31, 63}, {0, 1}),
             d |-> Floats(Signs, {0, 63, 127}, {0, 512})]
\* The numbers around every power of two that an integer type can hold, and
\* around the ends of the other format.
Halves == [s |-> Floats(Signs, (28..48) \cup {0, 1, 62, 63}, 0..3),
           d |-> Floats(Signs, (61..80) \cup {0, 1, 126, 127}, {0, 1, 511, 512, 768, 1023})]
Borders == [s |-> Floats(Signs, 0..63, 0..3),
            d |-> Floats(Signs, (30..35) \cup {0, 1, 60, 94, 95, 127},
                         {0, 1, 127, 128, 129, 255, 256, 384, 640, 896, 1023})]
Roots == [s |-> Floats(Signs, {0, 1, 2, 31, 32, 61, 62, 63}, 0..3),
          d |-> Floats({0}, {0, 1, 2, 63, 64, 126, 127}, {0, 1, 2, 64, 65, 225, 400, 1022, 1023})]
Integers64 ==
  LET some == {0, 1, 2, 3, 5, 7, 9, 100, 127, 128, 129, 255, 256, 2047, 2048, 2049, 4095, 4097,
               8191, 12289, 16383, 16385, 24577, 32766, 32767}
  IN  some \cup {0 - i : i \in some} \cup {-32768}

OneS == [sign |-> 0, exp |-> 31, sig |-> 0]
ThirdS == [sign |-> 0, exp |-> 30, sig |-> 3]
NaNS == [sign |-> 0, exp |-> 63, sig |-> 1]

Endless(harts, ops, rms, operands, csr, os) ==
  [harts |-> harts, ops |-> ops, fmts |-> {"s"}, rms |-> rms, rs1 |-> [s |-> {OneS, NaNS}],
   operands |-> [s |-> operands], csr |-> csr, os |-> os, endless |-> TRUE]

\* Two harts whose instructions alternate.
TwoHarts == Endless(Harts, {"fdiv", "fclass"}, {0, 3, 7}, {ThirdS}, {0, 421}, FALSE)

\* A hart under an operating system that saves its registers lazily.
Switched == Endless({0}, {"feq", "fmul", "fmv_f", "fmv_x"}, {0, 7}, {ThirdS}, {0, 160}, TRUE)

Both == {"s", "d"}
MCStreams ==
  [arithmetic |-> Single(Arithmetic, Both, 0..4, Pairs),
   compare |-> Single(Compares \cup Selects \cup {"eq_signaling", "fclass"}, Both, {0}, Ends),
   fused |-> Single({"fmadd"}, Both, 0..4, Triples),
   special |-> Single(Fused \cup Injects, Both, {0, 2}, Specials),
   whole |-> Single({"fcvt_int", "roundToInt"}, Both, 0..4, Halves),
   minMag |-> Single({"to_int_r_minMag"}, Both, {0}, Halves),
   roots |-> Single({"fsqrt"}, Both, 0..4, Roots),
   formats |-> Single({"fcvt_fmt"}, Both, 0..4, Borders),
   integers |-> Single({"fcvt_from_int"}, Both, 0..4, [s |-> Integers64, d |-> Integers64]),
   harts |-> TwoHarts,
   switched |-> Switched]
==============================================================================
