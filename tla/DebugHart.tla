------------------------------ MODULE DebugHart ------------------------------
(***************************************************************************)
(* Hart 0 as the external debugger sees it: processor_t::step() one        *)
(* instruction at a time (riscv/execute.cc), Debug Mode entry and traps    *)
(* (riscv/processor.cc), dret, and the debug module that hart and          *)
(* gdbserver share (riscv/debug_module.h).  The hart runs the Debug ROM of *)
(* DebugRom, the words gdbserver left in Debug RAM, and a small program.   *)
(*                                                                         *)
(* Abstractions.  Of the registers s0 and s1 are kept, the two the ROM     *)
(* uses; x stands for the other integer registers, f for the floating      *)
(* point ones, mepc for the CSRs; a 64-bit value is a small integer.  All  *)
(* interrupt sources are one pending bit.  The                             *)
(* PC_SERIALIZE_BEFORE round trip of a CSR instruction is folded into it:  *)
(* its only effect is that take_interrupt() runs once more before the      *)
(* instruction.                                                            *)
(***************************************************************************)
EXTENDS DebugRom

CONSTANTS Code,        \* the memory of the program under debug, from address 1
          MTVEC,       \* the address of its trap handler
          INTERLEAVE,  \* instructions in a slice of sim_t::step()
          DebugSlice   \* instructions in a slice that starts in Debug Mode (11)

\* What a word of memory means as an instruction: nop stands for any
\* instruction that touches no register, ack for the store to mtimecmp with
\* which a trap handler acknowledges the timer.
NOP == 1001
EBREAK == 1002
MRET == 1003
ACK == 1004
LI(n) == 1100 + n
JUMP(a) == 1200 + a

ASSUME CodeAssumption == Code \in Seq(Int) /\ Len(Code) \in 1..99
ASSUME SliceAssumption == INTERLEAVE \in Nat \ {0} /\ DebugSlice \in Nat \ {0}
ASSUME HandlerAssumption == MTVEC \in 1..Len(Code)

Addresses == 1..Len(Code)

VARIABLES
  state,              \* state_t: the registers and CSRs, and the step budget
  mem,                \* main memory
  mip,                \* an interrupt source is pending
  debug_ram, interrupt, halt_notification,   \* debug_module_t
  hist,               \* history: the program's own idea of its state
  insns               \* history: the first 3 instructions and interrupts of a step

moduleVars == <<debug_ram, interrupt, halt_notification>>
hartVars == <<state, mem, mip, moduleVars, hist, insns>>

MISA == -7            \* negative: a 64-bit hart

StateType ==
  [pc : Int, s0 : Int, s1 : Int, x : Int, f : Int, fs : 0..3, dscratch : Int, dpc : Int, mepc : Int,
   prv : {PRV_U, PRV_M},
   cause : {CAUSE_NONE, CAUSE_SWBP, CAUSE_DEBUGINT, CAUSE_STEP, CAUSE_HALT},
   halt : BOOLEAN, step : BOOLEAN, dprv : {PRV_U, PRV_M}, ebreak : BOOLEAN,
   mie : BOOLEAN, mpie : BOOLEAN, mpp : {PRV_U, PRV_M},
   single_step : {"NONE", "STEPPING", "STEPPED"},
   n : Nat,            \* instructions left in this call of step()
   outer : BOOLEAN]    \* at the head of step()'s outer loop

\* What the program can see of its hart.
Visible(s) == [pc |-> s.pc, s0 |-> s.s0, s1 |-> s.s1, x |-> s.x, f |-> s.f, fs |-> s.fs,
               mepc |-> s.mepc, prv |-> s.prv, mie |-> s.mie]
HistType == [pc : Int, s0 : Int, s1 : Int, x : Int, f : Int, fs : 0..3, mepc : Int,
             prv : {PRV_U, PRV_M}, mie : BOOLEAN]

HartTypeOK ==
  /\ state \in StateType
  /\ mem \in [Addresses -> Int]
  /\ mip \in BOOLEAN
  /\ debug_ram \in [RamWords -> Word]
  /\ interrupt \in BOOLEAN
  /\ halt_notification \in BOOLEAN
  /\ hist \in HistType
  /\ insns \in Seq(Ops \cup {"interrupt"}) /\ Len(insns) <= 3

\* The hart is about to run the program at pc.
HartInit(pc, prv, mie) ==
  /\ state = [pc |-> pc, s0 |-> 41, s1 |-> 42, x |-> 43, f |-> 44, fs |-> 0,
              dscratch |-> 0, dpc |-> 0,
              mepc |-> 1, prv |-> prv, cause |-> CAUSE_NONE, halt |-> FALSE,
              step |-> FALSE, dprv |-> PRV_U, ebreak |-> FALSE, mie |-> mie,
              mpie |-> mie, mpp |-> prv, single_step |-> "NONE",
              n |-> 0, outer |-> TRUE]
  /\ mem = [a \in Addresses |-> Code[a]]
  /\ mip = FALSE
  /\ debug_ram = [i \in RamWords |-> Data(0)]
  /\ interrupt = FALSE
  /\ halt_notification = FALSE
  /\ hist = Visible(state)
  /\ insns = <<>>

-----------------------------------------------------------------------------
\* processor_t::enter_debug_mode
\* Mutant: the privilege mode is not saved.
enter_debug_mode_no_prv(s, cause) ==
  [s EXCEPT !.cause = cause, !.prv = PRV_M,
            !.dpc = s.pc, !.pc = DEBUG_ROM_START, !.outer = TRUE]
enter_debug_mode(s, cause) ==
  [s EXCEPT !.cause = cause, !.dprv = s.prv, !.prv = PRV_M,
            !.dpc = s.pc, !.pc = DEBUG_ROM_START, !.outer = TRUE]

\* processor_t::take_trap, for a trap that is not delegated.
take_trap(s, isBreakpoint) ==
  IF isBreakpoint /\ s.ebreak THEN enter_debug_mode(s, CAUSE_SWBP)
  ELSE IF s.cause # CAUSE_NONE THEN [s EXCEPT !.pc = DEBUG_ROM_EXCEPTION]
  ELSE [s EXCEPT !.pc = MTVEC, !.mepc = s.pc, !.mpp = s.prv, !.prv = PRV_M,
                 !.mpie = (s.prv = PRV_M /\ s.mie), !.mie = FALSE]

\* The catch (trap_t&) clause of step(): the trap ends the slice.
after_trap(s, isBreakpoint) ==
  LET t == [take_trap(s, isBreakpoint) EXCEPT !.n = 0, !.outer = TRUE]
  IN IF t.single_step = "STEPPED"
       THEN enter_debug_mode([t EXCEPT !.single_step = "NONE"], CAUSE_STEP)
       ELSE t

\* A slice starts: the prologue of processor_t::step().
\* Mutant: the slice in Debug Mode is two instructions shorter.
begin_step_short(s, pendingDebugInt) ==
  IF s.cause # CAUSE_NONE THEN [s EXCEPT !.outer = TRUE, !.n = DebugSlice - 2]
  ELSE LET t == [s EXCEPT !.outer = TRUE, !.n = INTERLEAVE]
       IN IF pendingDebugInt THEN enter_debug_mode(t, CAUSE_DEBUGINT)
          ELSE IF s.halt THEN enter_debug_mode(t, CAUSE_HALT)
          ELSE t
begin_step(s, pendingDebugInt) ==
  IF s.cause # CAUSE_NONE
    THEN [s EXCEPT !.outer = TRUE,
                   !.n = IF DebugSlice < INTERLEAVE THEN DebugSlice ELSE INTERLEAVE]
  ELSE LET t == [s EXCEPT !.outer = TRUE, !.n = INTERLEAVE]
       IN IF pendingDebugInt THEN enter_debug_mode(t, CAUSE_DEBUGINT)
          ELSE IF s.halt THEN enter_debug_mode(t, CAUSE_HALT)
          ELSE t

\* Before an instruction, and after one that retires with an ordinary pc.
\* Mutant: the test is missing at the head of the outer loop.
begin_insn_inner(s) ==
  IF s.single_step = "STEPPING" /\ ~s.outer THEN [s EXCEPT !.single_step = "STEPPED"] ELSE s
begin_insn(s) ==
  IF s.single_step = "STEPPING" THEN [s EXCEPT !.single_step = "STEPPED"] ELSE s

retire(s) ==
  LET t == [s EXCEPT !.n = s.n - 1, !.outer = FALSE]
  IN IF t.single_step = "STEPPED"
       THEN enter_debug_mode([t EXCEPT !.single_step = "NONE"], CAUSE_STEP)
       ELSE t

\* After an instruction that serializes (dret, mret): advance_pc() leaves the
\* inner loop before the single-step test.
retire_serialized(s) == [s EXCEPT !.n = s.n - 1, !.outer = TRUE]

-----------------------------------------------------------------------------
\* get_csr and set_csr of the CSRs the debugger uses.
Bit(b, v) == IF b THEN v ELSE 0
Has(v, mask) == (v \div mask) % 2 = 1
DcsrPrv(v) == v % 4
DcsrCause(v) == (v \div 64) % 8

get_dcsr(s, debugint) ==
  s.dprv + Bit(s.step, DCSR_STEP) + Bit(s.halt, DCSR_HALT)
    + Bit(debugint, DCSR_DEBUGINT) + 64 * s.cause + Bit(s.ebreak, DCSR_EBREAK)

set_dcsr(s, v) ==
  [s EXCEPT !.dprv = IF DcsrPrv(v) = PRV_M THEN PRV_M ELSE PRV_U,
            !.step = Has(v, DCSR_STEP), !.halt = Has(v, DCSR_HALT),
            !.ebreak = Has(v, DCSR_EBREAK)]

get_mstatus(s) == Bit(s.mie, 1) + Bit(s.mpie, 2) + Bit(s.mpp = PRV_M, 4) + 8 * s.fs
set_mstatus(s, v) ==
  [s EXCEPT !.mie = Has(v, 1), !.mpie = Has(v, 2), !.fs = (v \div 8) % 4,
            !.mpp = IF Has(v, 4) THEN PRV_M ELSE PRV_U]

get_csr(s, c, debugint) ==
  CASE c = "misa"     -> MISA
    [] c = "mhartid"  -> 0
    [] c = "dcsr"     -> get_dcsr(s, debugint)
    [] c = "dscratch" -> s.dscratch
    [] c = "dpc"      -> s.dpc
    [] c = "mstatus"  -> get_mstatus(s)
    [] c = "mepc"     -> s.mepc

set_csr(s, c, v) ==
  CASE c = "dcsr"     -> set_dcsr(s, v)
    [] c = "dscratch" -> [s EXCEPT !.dscratch = v]
    [] c = "dpc"      -> [s EXCEPT !.dpc = v]
    [] c = "mstatus"  -> set_mstatus(s, v)
    [] c = "mepc"     -> [s EXCEPT !.mepc = v]

reg(s, r) == CASE r = "s0" -> s.s0 [] r = "s1" -> s.s1 [] OTHER -> s.x
setreg(s, r, v) == CASE r = "s0" -> [s EXCEPT !.s0 = v] [] r = "s1" -> [s EXCEPT !.s1 = v]
                     [] OTHER -> [s EXCEPT !.x = v]
next_pc(s) == [s EXCEPT !.pc = s.pc + 1]

\* andi with a one-bit mask or the cause field; srli by 31 of all ones.
Masked(v, m) == IF m = DCSR_CAUSE THEN 64 * DcsrCause(v) ELSE Bit(Has(v, m), m)
Shifted(v) == IF v = -1 THEN 33 ELSE 3
Taken(op, v) == CASE op = "j" -> TRUE [] op = "bltz" -> v < 0
                  [] op = "bnez" -> v # 0 [] op = "beqz" -> v = 0

-----------------------------------------------------------------------------
decode_insn(v) ==
  CASE v = NOP    -> Op0("fence")
    [] v = EBREAK -> Op0("ebreak")
    [] v = MRET   -> Op0("mret")
    [] v = ACK    -> Op0("ack")
    [] v \in 1100..1199 -> Insn("li", "s0", v - 1100)
    [] v \in 1200..1299 -> Jmp(v - 1200)
    [] OTHER      -> Data(v)

\* mmu_t::load_insn: what the hart fetches.
fetch == LET a == state.pc
         IN CASE InRam(a) -> debug_ram[a - DEBUG_RAM_START]
              [] InRom(a) -> DebugRomText[a - DEBUG_ROM_START + 1]
              [] a \in Addresses -> decode_insn(mem[a])
              [] OTHER -> Data(Junk)

IsCsr(w) == w.op \in {"csrr", "csrw", "csrsi"}

\* take_interrupt() finds an enabled interrupt.  It does not look at
\* dcsr.cause.
interrupt_enabled == mip /\ (state.prv = PRV_U \/ state.mie)
interrupt_taken == (state.outer \/ IsCsr(fetch)) /\ interrupt_enabled

Ready(ops) == state.n > 0 /\ ~interrupt_taken /\ fetch.op \in ops
starting == begin_insn(state)

\* The program outside Debug Mode has reached state t.  The history follows
\* its own steps and nothing the debugger does.
InProgram == state.cause = CAUSE_NONE
Follow(t) == hist' = IF InProgram THEN Visible(t) ELSE hist
\* The program comes to op while dcsr.step, as of the last resume, is set.
Count(op) == insns' = IF InProgram /\ state.step /\ Len(insns) < 3
                      THEN Append(insns, op) ELSE insns

Retire(t) == state' = retire(t) /\ Follow(t) /\ Count(fetch.op)
Trap(isBreakpoint) ==
  /\ state' = after_trap(starting, isBreakpoint)
  /\ IF isBreakpoint /\ state.ebreak THEN UNCHANGED hist
     ELSE Follow(take_trap(starting, isBreakpoint))
  /\ Count(fetch.op)

TakeInterrupt ==
  /\ state.n > 0
  /\ interrupt_taken
  /\ state' = after_trap(state, FALSE)
  /\ Follow(take_trap(state, FALSE))
  /\ Count("interrupt")
  /\ UNCHANGED <<mem, mip, moduleVars>>

ExecAlu ==
  /\ Ready({"fence", "li", "andi", "addi", "srli", "mv"})
  /\ LET w == fetch
         v == reg(starting, w.r)
     IN Retire(next_pc(CASE w.op = "fence" -> starting
                         [] w.op = "li"    -> setreg(starting, w.r, w.n)
                         [] w.op = "andi"  -> setreg(starting, w.r, Masked(v, w.n))
                         [] w.op = "addi"  -> setreg(starting, w.r, v + w.n)
                         [] w.op = "srli"  -> setreg(starting, w.r, Shifted(v))
                         [] w.op = "mv"    -> setreg(starting, w.r, starting.s0)))
  /\ UNCHANGED <<mem, mip, moduleVars>>

ExecJump ==
  /\ Ready({"j", "bltz", "bnez", "beqz"})
  /\ Retire(IF Taken(fetch.op, reg(starting, fetch.r))
            THEN [starting EXCEPT !.pc = fetch.n] ELSE next_pc(starting))
  /\ UNCHANGED <<mem, mip, moduleVars>>

ExecCsr ==
  /\ Ready({"csrr", "csrw", "csrsi"})
  /\ LET w == fetch
     IN IF w.c = "nocsr" THEN Trap(FALSE)
        ELSE Retire(next_pc(
          CASE w.op = "csrr"  -> setreg(starting, w.r, get_csr(starting, w.c, interrupt))
            [] w.op = "csrw"  -> set_csr(starting, w.c, reg(starting, w.r))
            [] w.op = "csrsi" -> [starting EXCEPT !.halt = TRUE]))
  /\ UNCHANGED <<mem, mip, moduleVars>>

\* Floating point loads and stores of Debug RAM: illegal while mstatus.FS is 0.
ExecFp ==
  /\ Ready({"fsd", "fld"})
  /\ LET w == fetch
     IN CASE starting.fs = 0 -> Trap(FALSE) /\ UNCHANGED debug_ram
          [] starting.fs # 0 /\ w.op = "fsd" ->
               /\ Retire(next_pc(starting))
               /\ debug_ram' = write64(debug_ram, w.n, starting.f)
          [] starting.fs # 0 /\ w.op = "fld" ->
               /\ Retire(next_pc([starting EXCEPT !.f = read64(debug_ram, w.n), !.fs = 3]))
               /\ UNCHANGED debug_ram
  /\ UNCHANGED <<mem, mip, interrupt, halt_notification>>

\* Loads from Debug RAM.
ExecLoad ==
  /\ Ready({"lw", "ld"})
  /\ LET w == fetch
     IN Retire(next_pc(setreg(starting, w.r, IF w.op = "lw" THEN read32(debug_ram, w.n)
                                             ELSE read64(debug_ram, w.n))))
  /\ UNCHANGED <<mem, mip, moduleVars>>

\* Loads and stores of s1 at the address in s0, for the debugger: outside
\* memory they fault.
ExecMem ==
  /\ Ready({"ldmem", "stmem"})
  /\ LET a == starting.s0
     IN CASE a \notin Addresses -> Trap(FALSE) /\ UNCHANGED mem
          [] fetch.op = "ldmem" -> /\ Retire(next_pc([starting EXCEPT !.s1 = mem[a]]))
                                   /\ UNCHANGED mem
          [] OTHER -> /\ Retire(next_pc(starting))
                      /\ mem' = [mem EXCEPT ![a] = starting.s1]
  /\ UNCHANGED <<mip, moduleVars>>

\* debug_module_t::store
ExecStore ==
  /\ Ready({"sw", "sd"})
  /\ LET w == fetch
         v == reg(starting, w.r)
     IN /\ debug_ram' = CASE w.n < 0     -> debug_ram
                          [] w.op = "sw" -> write32(debug_ram, w.n, Data(low32(v)))
                          [] OTHER       -> write64(debug_ram, w.n, v)
        /\ interrupt' = (interrupt /\ w.n # CLEARDEBINT)
        /\ halt_notification' = (halt_notification \/ w.n = SETHALTNOT)
        /\ Retire(next_pc(starting))
  /\ UNCHANGED <<mem, mip>>

ExecDret ==
  /\ Ready({"dret"})
  /\ state' = LET t == [starting EXCEPT !.pc = starting.dpc, !.prv = starting.dprv,
                                        !.cause = CAUSE_NONE]
              IN retire_serialized(IF t.step THEN [t EXCEPT !.single_step = "STEPPING"]
                                   ELSE t)
  /\ UNCHANGED <<mem, mip, moduleVars, hist, insns>>

ExecMret ==
  /\ Ready({"mret"})
  /\ IF state.prv # PRV_M THEN Trap(FALSE)
     ELSE LET t == [starting EXCEPT
                      !.pc = starting.mepc, !.prv = starting.mpp, !.mpp = PRV_U,
                      !.mie = IF starting.mpp = PRV_M THEN starting.mpie ELSE @,
                      !.mpie = FALSE]
          IN state' = retire_serialized(t) /\ Follow(t) /\ Count(fetch.op)
  /\ UNCHANGED <<mem, mip, moduleVars>>

ExecAck ==
  /\ Ready({"ack"})
  /\ Retire(next_pc(starting))
  /\ mip' = FALSE
  /\ UNCHANGED <<mem, moduleVars>>

\* ebreak, or a word that is no instruction.
ExecTrap ==
  /\ Ready({"ebreak", "data"})
  /\ Trap(fetch.op = "ebreak")
  /\ UNCHANGED <<mem, mip, moduleVars>>

Execute == \/ TakeInterrupt \/ ExecAlu \/ ExecJump \/ ExecCsr \/ ExecFp \/ ExecLoad
           \/ ExecMem \/ ExecStore \/ ExecDret \/ ExecMret \/ ExecAck \/ ExecTrap

\* sim_t::step() calls processor_t::step().
BeginSlice == /\ state' = begin_step(state, interrupt)
              /\ UNCHANGED <<mem, mip, moduleVars, hist, insns>>

\* rtc_t::increment at the end of a slice may raise the timer interrupt, if
\* the program has set a timer.
EndSlice(timer) ==
            /\ state.n = 0
            /\ mip' \in {mip, mip \/ timer}
            /\ UNCHANGED <<state, mem, moduleVars, hist, insns>>
=============================================================================
