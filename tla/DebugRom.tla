------------------------------ MODULE DebugRom ------------------------------
(***************************************************************************)
(* The Debug ROM (debug_rom/debug_rom.S, the -DRV32 -DRV64 build that      *)
(* riscv/debug_module.cc includes as debug_rom.h) and the words of Debug   *)
(* RAM, instruction by instruction.                                        *)
(*                                                                         *)
(* Memory map.  The program under debug owns the addresses 1..99, Debug    *)
(* RAM is 100..115 (DEBUG_RAM_SIZE is 64 bytes, 16 words) and Debug ROM    *)
(* 200..236.  A word holds either an instruction or a datum.               *)
(***************************************************************************)
EXTENDS Integers, Sequences

DEBUG_RAM_START == 100
RamWords == 0..15
DEBUG_ROM_START == 200
DEBUG_ROM_RESUME == DEBUG_ROM_START + 1
DEBUG_ROM_EXCEPTION == DEBUG_ROM_START + 2

InRam(a) == a \in DEBUG_RAM_START..(DEBUG_RAM_START + 15)
InRom(a) == a \in DEBUG_ROM_START..(DEBUG_ROM_START + 36)
\* The slots of a 64-bit Debug RAM (slot_offset64).
SLOT_DATA0 == 4
SLOT_DATA1 == 6
SLOT_DATA_LAST == 14
RESULT == 15           \* the last word: 0, or ~0 after an exception

\* Store addresses outside Debug RAM that the ROM uses.
CLEARDEBINT == -1
SETHALTNOT == -2

\* CSR fields and causes of dcsr.
PRV_U == 0
PRV_M == 3
CAUSE_NONE == 0
CAUSE_SWBP == 1
CAUSE_DEBUGINT == 3
CAUSE_STEP == 4
CAUSE_HALT == 5
DCSR_STEP == 4
DCSR_HALT == 8
DCSR_DEBUGINT == 32
DCSR_CAUSE == 448
DCSR_EBREAK == 32768

-----------------------------------------------------------------------------
Ops == {"j", "li", "fence", "csrr", "csrw", "csrsi", "bltz", "bnez", "beqz",
        "lw", "ld", "sw", "sd", "andi", "addi", "dret", "mret", "ebreak", "ack",
        "ldmem", "stmem", "srli", "mv", "fsd", "fld", "data"}
Regs == {"s0", "s1", "x", ""}      \* x: any integer register but s0 and s1
\* nocsr: a CSR the hart does not have.
Csrs == {"misa", "mhartid", "dcsr", "dscratch", "dpc", "mstatus", "mepc", "tselect",
         "nocsr", ""}

Word == [op : Ops, r : Regs, c : Csrs, n : Int]

Jmp(n) == [op |-> "j", r |-> "", c |-> "", n |-> n]
Op0(op) == [op |-> op, r |-> "", c |-> "", n |-> 0]
Insn(op, r, n) == [op |-> op, r |-> r, c |-> "", n |-> n]
Csr(op, r, c) == [op |-> op, r |-> r, c |-> c, n |-> 0]
Data(v) == [op |-> "data", r |-> "", c |-> "", n |-> v]

\* A value that no definition below produces on purpose: what a 64-bit load
\* returns when its two halves were not written together, or a load of
\* instruction bits.
Junk == -99
low32(v) == IF v = 33 THEN -1 ELSE v
read32(ram, i) == IF ram[i].op = "data" THEN ram[i].n ELSE Junk
read64(ram, i) == IF /\ ram[i].op = "data"
                     /\ ram[i + 1] = ram[i]
                  THEN ram[i].n ELSE Junk
write32(ram, i, w) == [ram EXCEPT ![i] = w]
write64(ram, i, v) == [ram EXCEPT ![i] = Data(v), ![i + 1] = Data(v)]

-----------------------------------------------------------------------------
\* Debug RAM words i, i+1, ... hold prog.
write_words(ram, prog) ==
  [i \in RamWords |-> IF i < Len(prog) THEN prog[i + 1] ELSE ram[i]]

Rom(k) == DEBUG_ROM_START + k

\* The 37 words of debug_rom.h, with the labels of debug_rom.S.
DebugRomText ==
  << Jmp(Rom(19)),                       \*  0 entry
     Jmp(Rom(4)),                        \*  1 resume
     Insn("li", "s0", -1),               \*  2 exception
     Jmp(Rom(5)),
     Insn("li", "s0", 0),                \*  4 _resume
     Op0("fence"),                       \*  5 _resume2
     Csr("csrr", "s1", "misa"),
     Insn("bltz", "s1", Rom(10)),
     Insn("lw", "s1", 15),               \*  8 restore_32
     Jmp(Rom(11)),
     Insn("ld", "s1", 14),               \* 10 restore_64
     Insn("sw", "s0", RESULT),           \* 11 finish_restore
     Csr("csrr", "s0", "mhartid"),
     Insn("sw", "s0", CLEARDEBINT),
     Csr("csrr", "s0", "dcsr"),          \* 14 check_halt
     Insn("andi", "s0", DCSR_HALT),
     Insn("bnez", "s0", Rom(33)),
     Csr("csrr", "s0", "dscratch"),      \* 17 exit
     Op0("dret"),
     Csr("csrw", "s0", "dscratch"),      \* 19 _entry
     Csr("csrr", "s0", "dcsr"),
     Insn("andi", "s0", DCSR_CAUSE),
     Insn("addi", "s0", -(CAUSE_DEBUGINT * 64)),
     Insn("bnez", "s0", Rom(30)),
     Csr("csrr", "s0", "misa"),          \* 24 jdebugram
     Insn("bltz", "s0", Rom(28)),
     Insn("sw", "s1", 15),               \* 26 save_32
     Jmp(DEBUG_RAM_START),
     Insn("sd", "s1", 14),               \* 28 save_64
     Jmp(DEBUG_RAM_START),
     Csr("csrr", "s0", "mhartid"),       \* 30 spontaneous_halt
     Insn("sw", "s0", SETHALTNOT),
     [op |-> "csrsi", r |-> "", c |-> "dcsr", n |-> DCSR_HALT],
     Csr("csrr", "s0", "dcsr"),          \* 33 wait_for_interrupt
     Insn("andi", "s0", DCSR_DEBUGINT),
     Insn("beqz", "s0", Rom(33)),
     Jmp(Rom(24)) >>

=============================================================================
