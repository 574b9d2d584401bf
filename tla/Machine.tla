------------------------------ MODULE Machine -------------------------------
(* The machine around the harts: the loop that gives every hart its slice    *)
(* (sim_t::step), the interrupts and traps of a hart with their delegation   *)
(* to S-mode (processor_t), the timer (rtc_t), the bus with its devices      *)
(* (bus_t) and the load reservation.  Several harts share one memory, the    *)
(* timer and the bus; the host and gdb act between two calls of step.        *)
(* A hart executes any instruction of its code in any order; addresses are   *)
(* counted in double words, and what a memory word holds is left out.        *)
EXTENDS Integers, FiniteSets, Sequences

CONSTANTS
  Scenarios,      \* machines: the code of every hart, and who else takes part
  INTERLEAVE,     \* instructions of a slice
  DebugSteps,     \* instructions of a step in Debug Mode, 11 in the code
  MaxTime,        \* bound: mtime stays here; no mtimecmp but Never is above it
  BusBits,        \* width of a bus address
  DEBUG_START, DEBUG_SIZE, DEFAULT_RSTVEC, EXT_IO_BASE, DRAM_BASE,
  memsz,          \* the size of memory
  Align           \* pages in which the devices of the harts are laid out

ASSUME MachineAssumption ==
  /\ INTERLEAVE \in Nat \ {0} /\ DebugSteps \in Nat \ {0}
  /\ MaxTime \in Nat /\ BusBits \in Nat /\ Align \in Nat \ {0}
  /\ 0 < DEBUG_START /\ DEBUG_START + DEBUG_SIZE <= DEFAULT_RSTVEC
  /\ DEFAULT_RSTVEC < EXT_IO_BASE /\ EXT_IO_BASE < DRAM_BASE /\ DRAM_BASE < 2^BusBits
  /\ memsz \in Nat
  /\ \A s \in Scenarios : s.nprocs \in Nat \ {0}

(* The registers of the harts end below memory, as they do in encoding.h's   *)
(* map of the addresses for any number of harts up to 261000.                *)
ASSUME LayoutAssumption ==
  /\ DEBUG_START \in Nat /\ DEBUG_SIZE \in Nat /\ DEFAULT_RSTVEC \in Nat
  /\ EXT_IO_BASE \in Nat /\ DRAM_BASE \in Nat /\ 2^BusBits \in Nat
  /\ \A s \in Scenarios :
       EXT_IO_BASE + (s.nprocs \div Align + 1 + s.nprocs) * Align <= DRAM_BASE

PRV_U == 0
PRV_S == 1
PRV_H == 2
PRV_M == 3

IRQ_S_SOFT  == 1
IRQ_M_SOFT  == 3
IRQ_S_TIMER == 5
IRQ_M_TIMER == 7
IRQ_S_EXT   == 9
IRQ_COP     == 12

delegable_ints == {IRQ_S_SOFT, IRQ_S_TIMER, IRQ_S_EXT, IRQ_COP}
all_ints == delegable_ints \cup {IRQ_M_SOFT, IRQ_M_TIMER}

CAUSE_ILLEGAL_INSTRUCTION == 2
CAUSE_BREAKPOINT  == 3
CAUSE_FAULT_LOAD  == 5
CAUSE_FAULT_STORE == 7
CAUSE_ECALL(prv)  == 8 + prv

causes == {CAUSE_ILLEGAL_INSTRUCTION, CAUSE_BREAKPOINT, CAUSE_FAULT_LOAD, CAUSE_FAULT_STORE}
          \cup {CAUSE_ECALL(p) : p \in {PRV_U, PRV_S, PRV_H, PRV_M}}

NoReservation == -1
Never == MaxTime + 1

(* The fields of mstatus: SPP is one bit wide and MPP two.                   *)
Status == [ie : [0..3 -> BOOLEAN], SPIE : BOOLEAN, MPIE : BOOLEAN,
           SPP : {PRV_U, PRV_S}, MPP : 0..3]

csrs == {"mstatus", "sstatus", "mip", "sip", "mie", "sie", "mideleg", "medeleg"}

(* The operands of an instruction are what its encoding can hold, and no     *)
(* program pokes into the debug module.                                      *)
ASSUME CodeAssumption ==
  \A s \in Scenarios : \A p \in 0..s.nprocs - 1 : \A i \in s.code[p] :
    /\ i.op = "csrrw" => /\ i.csr \in csrs
                         /\ i.csr \in {"mstatus", "sstatus"} => i.val \in Status
    /\ i.op \in {"lr", "sc", "store"} =>
         /\ i.addr \in Nat \ (DEBUG_START..DEBUG_START + DEBUG_SIZE - 1)
         /\ i.addr < 2^BusBits

VARIABLES
  sc,        \* the scenario
  hart,      \* state_t of every hart
  cpu,       \* where sim_t::step and processor_t::step are
  mtime, mtimecmp,
  dint,      \* the harts whose debug interrupt is set
  ticked,    \* history: has the timer compared since reset?
  lastLR,    \* history: address of the hart's last lr
  touched,   \* history: harts whose lastLR someone else stored to since
  frames,    \* history: the traps a hart has not returned from
  late       \* history: instructions run while an interrupt was due

machine == <<hart, cpu, mtime, mtimecmp, dint>>
history == <<ticked, lastLR, touched, frames, late>>
vars == <<sc, machine, history>>

Procs == 0..sc.nprocs - 1
c == cpu.current_proc

ResetStatus == [ie |-> [p \in 0..3 |-> FALSE], SPIE |-> FALSE, MPIE |-> FALSE,
                SPP |-> PRV_U, MPP |-> PRV_U]

reset == [prv |-> PRV_M, mstatus |-> ResetStatus, mie |-> {}, mip |-> {},
          mideleg |-> {}, medeleg |-> {}, load_reservation |-> NoReservation,
          serialized |-> FALSE, debug |-> FALSE, dprv |-> PRV_M, ebreak |-> FALSE]

Init ==
  /\ sc \in Scenarios
  /\ hart = [p \in Procs |-> reset]
  /\ cpu = [at |-> "idle", current_proc |-> 0, current_step |-> 0,
            steps |-> 0, n |-> 0, fresh |-> TRUE]
  /\ mtime = 0 /\ mtimecmp = [p \in Procs |-> 0]
  /\ dint = {}
  /\ ticked = FALSE
  /\ lastLR = [p \in Procs |-> NoReservation]
  /\ touched = {}
  /\ frames = [p \in Procs |-> <<>>]
  /\ late = [p \in Procs |-> 0]

-----------------------------------------------------------------------------
(* CSRs of one hart r.                                                       *)

(* mstatus as set_csr leaves it: the enables of U and H are hard-wired.      *)
set_mstatus(r, val) ==
  [r EXCEPT !.mstatus = [val EXCEPT !.ie = [p \in 0..3 |-> IF p \in {PRV_S, PRV_M}
                                                          THEN val.ie[p]
                                                          ELSE r.mstatus.ie[p]]]]

Masked(old, mask, val) == (old \ mask) \cup (val \cap mask)

(* A mistake: sie reaches the enables that are not delegated.               *)
set_csr_sie_unmasked(r, csr, val) ==
  CASE csr = "mstatus" -> set_mstatus(r, val)
    [] csr = "sstatus" -> set_mstatus(r, [r.mstatus EXCEPT !.ie[PRV_S] = val.ie[PRV_S],
                                                           !.SPIE = val.SPIE, !.SPP = val.SPP])
    [] csr = "mip"     -> [r EXCEPT !.mip = Masked(@, {IRQ_S_SOFT, IRQ_S_TIMER}, val)]
    [] csr = "sip"     -> [r EXCEPT !.mip = Masked(@, {IRQ_S_SOFT} \cap r.mideleg, val)]
    [] csr = "mie"     -> [r EXCEPT !.mie = Masked(@, all_ints, val)]
    [] csr = "sie"     -> [r EXCEPT !.mie = Masked(@, delegable_ints, val)]
    [] csr = "mideleg" -> [r EXCEPT !.mideleg = Masked(@, delegable_ints, val)]
    [] csr = "medeleg" -> [r EXCEPT !.medeleg = Masked(@, causes, val)]

set_csr(r, csr, val) ==
  CASE csr = "mstatus" -> set_mstatus(r, val)
    [] csr = "sstatus" -> set_mstatus(r, [r.mstatus EXCEPT !.ie[PRV_S] = val.ie[PRV_S],
                                                           !.SPIE = val.SPIE, !.SPP = val.SPP])
    [] csr = "mip"     -> [r EXCEPT !.mip = Masked(@, {IRQ_S_SOFT, IRQ_S_TIMER}, val)]
    [] csr = "sip"     -> [r EXCEPT !.mip = Masked(@, {IRQ_S_SOFT} \cap r.mideleg, val)]
    [] csr = "mie"     -> [r EXCEPT !.mie = Masked(@, all_ints, val)]
    [] csr = "sie"     -> [r EXCEPT !.mie = Masked(@, r.mideleg, val)]
    [] csr = "mideleg" -> [r EXCEPT !.mideleg = Masked(@, delegable_ints, val)]
    [] csr = "medeleg" -> [r EXCEPT !.medeleg = Masked(@, causes, val)]

csr_priv(csr) == IF csr \in {"sstatus", "sie", "sip"} THEN PRV_S ELSE PRV_M

set_privilege(r, prv) == [r EXCEPT !.prv = IF prv = PRV_H THEN PRV_U ELSE prv]

-----------------------------------------------------------------------------
(* Interrupts and traps of one hart r.                                       *)

(* A mistake: MIE masks M-mode interrupts below M-mode too.                 *)
enabled_interrupts_mie(r) ==
  LET pending   == r.mip \cap r.mie
      m_enabled == r.mstatus.ie[PRV_M]
      s_enabled == r.prv < PRV_S \/ (r.prv = PRV_S /\ r.mstatus.ie[PRV_S])
  IN  (IF m_enabled THEN pending \ r.mideleg ELSE {})
      \cup (IF s_enabled THEN pending \cap r.mideleg ELSE {})

(* The interrupts that take_interrupt would raise one of.                    *)
enabled_interrupts(r) ==
  LET pending   == r.mip \cap r.mie
      m_enabled == r.prv < PRV_M \/ (r.prv = PRV_M /\ r.mstatus.ie[PRV_M])
      s_enabled == r.prv < PRV_S \/ (r.prv = PRV_S /\ r.mstatus.ie[PRV_S])
  IN  (IF m_enabled THEN pending \ r.mideleg ELSE {})
      \cup (IF s_enabled THEN pending \cap r.mideleg ELSE {})

(* ctz: the interrupt with the lowest number is the one that is raised.      *)
ctz(I) == CHOOSE i \in I : \A j \in I : i <= j

(* A mistake: the reservation is kept.                                      *)
yield_load_reservation_not(r) == r

yield_load_reservation(r) == [r EXCEPT !.load_reservation = NoReservation]

(* Whether a trap goes to S-mode: the cause is delegated, and the hart is    *)
(* not above it.  Interrupts and exceptions have causes of their own.        *)
Delegated(r, interrupt, cause) ==
  r.prv <= PRV_S /\ cause \in (IF interrupt THEN r.mideleg ELSE r.medeleg)

(* A mistake: the enable of M-mode is saved, not that of the other mode.    *)
trap_to_m_pie(r) ==
  set_privilege(set_mstatus(r, [r.mstatus EXCEPT !.MPIE = @ \/ r.mstatus.ie[PRV_M],
                                                 !.MPP = r.prv, !.ie[PRV_M] = FALSE]), PRV_M)

trap_to_m(r) ==
  set_privilege(set_mstatus(r, [r.mstatus EXCEPT !.MPIE = r.mstatus.ie[r.prv],
                                                 !.MPP = r.prv, !.ie[PRV_M] = FALSE]), PRV_M)

trap_to_s(r) ==
  set_privilege(set_mstatus(r, [r.mstatus EXCEPT !.SPIE = r.mstatus.ie[r.prv],
                                                 !.SPP = r.prv, !.ie[PRV_S] = FALSE]), PRV_S)

enter_debug_mode(r) == [set_privilege(r, PRV_M) EXCEPT !.debug = TRUE, !.dprv = r.prv]

(* In Debug Mode a trap only restarts the Debug ROM: the reservation stays.  *)
take_trap(r, interrupt, cause) ==
  IF ~interrupt /\ cause = CAUSE_BREAKPOINT /\ r.ebreak THEN enter_debug_mode(r)
  ELSE IF r.debug THEN r
  ELSE IF Delegated(r, interrupt, cause) THEN yield_load_reservation(trap_to_s(r))
  ELSE yield_load_reservation(trap_to_m(r))

return_m(r) ==
  set_mstatus(set_privilege(r, r.mstatus.MPP),
              [r.mstatus EXCEPT !.ie[r.mstatus.MPP] = r.mstatus.MPIE,
                                !.MPIE = FALSE, !.MPP = PRV_U])

return_s(r) ==
  set_mstatus(set_privilege(r, r.mstatus.SPP),
              [r.mstatus EXCEPT !.ie[r.mstatus.SPP] = r.mstatus.SPIE,
                                !.SPIE = FALSE, !.SPP = PRV_U])

-----------------------------------------------------------------------------
(* The bus.                                                                  *)

Neg(a) == (2^BusBits - a) % 2^BusBits

rtc_size == 1 + sc.nprocs

(* make_config_string: the first page behind the timer is hart 0's, and so   *)
(* on.                                                                       *)
(* A mistake: the registers of the timer are taken for one page.            *)
cpu_addr_packed(p) == EXT_IO_BASE + Align * (1 + p)

cpu_addr(p) == EXT_IO_BASE + ((rtc_size - 1) \div Align + 1) * Align + p * Align

timecmp_addr(p) == EXT_IO_BASE + 1 + p

(* The map of the bus: devices are kept under the negative of their base.    *)
devices ==
  {[key |-> Neg(DEBUG_START), dev |-> <<"debug", 0>>],
   [key |-> Neg(DEFAULT_RSTVEC), dev |-> <<"rom", 0>>],
   [key |-> Neg(EXT_IO_BASE), dev |-> <<"rtc", 0>>]}
  \cup {[key |-> Neg(cpu_addr(p)), dev |-> <<"cpu", p>>] : p \in Procs}

lower_bound(k) ==
  LET above == {d \in devices : d.key >= k}
  IN  {d \in above : \A e \in above : d.key <= e.key}

(* rtc_t::increment: every hart's timer interrupt follows its comparison.    *)
(* A mistake: the bit is set and never cleared.                             *)
rtc_increment_edge(time, cmp, H) ==
  [p \in Procs |-> IF time >= cmp[p] THEN [H[p] EXCEPT !.mip = @ \cup {IRQ_M_TIMER}] ELSE H[p]]

rtc_increment(time, cmp, H) ==
  [p \in Procs |-> [H[p] EXCEPT !.mip = IF time >= cmp[p] THEN @ \cup {IRQ_M_TIMER}
                                                         ELSE @ \ {IRQ_M_TIMER}]]

(* What a store of v to a bus address does: accepted or not, and the harts   *)
(* and comparisons afterwards.  A value of an IPI register is its low bit.   *)
bus_store(a, v) ==
  LET refused == [ok |-> FALSE, hart |-> hart, mtimecmp |-> mtimecmp, rtc |-> FALSE]
      found   == lower_bound(Neg(a))
      d       == CHOOSE e \in found : TRUE
      off     == (a + d.key) % 2^BusBits
      p       == d.dev[2]
      cmp     == [mtimecmp EXCEPT ![off - 1] = v]
  IN  CASE found = {} -> refused
        [] found # {} /\ d.dev[1] = "rtc" /\ off >= 1 /\ off < rtc_size ->
             [ok |-> TRUE, hart |-> rtc_increment(mtime, cmp, hart), mtimecmp |-> cmp, rtc |-> TRUE]
        [] found # {} /\ d.dev[1] = "cpu" /\ off = 0 ->
             [refused EXCEPT !.ok = TRUE,
                !.hart[p].mip = IF v % 2 = 1 THEN @ \cup {IRQ_M_SOFT} ELSE @ \ {IRQ_M_SOFT}]
        [] OTHER -> refused

(* Whether a load from a bus address is accepted: the harts' registers       *)
(* cannot be read.                                                           *)
bus_load(a) ==
  \E d \in lower_bound(Neg(a)) :
    LET off == (a + d.key) % 2^BusBits IN
    \/ d.dev[1] = "rtc" /\ off < rtc_size
    \/ d.dev[1] = "rom" /\ off < Align

addr_is_mem(a) == a >= DRAM_BASE /\ a < DRAM_BASE + memsz

-----------------------------------------------------------------------------
(* History.                                                                  *)

(* Whether an interrupt is due, as the privileged architecture has it: one   *)
(* that is pending and enabled interrupts every mode below the one that      *)
(* handles it, and that mode itself if its enable is set.                    *)
InterruptDue(r) ==
  \E i \in r.mip \cap r.mie :
    LET target == IF i \in r.mideleg THEN PRV_S ELSE PRV_M
    IN  r.prv < target \/ (r.prv = target /\ r.mstatus.ie[target])

Ran == late' = [late EXCEPT ![c] = IF InterruptDue(hart[c]) THEN @ + 1 ELSE 0]

(* Someone stores to memory: other harts' reservations of it are touched.    *)
StoredBy(who, a) ==
  touched' = touched \cup {p \in Procs \ who : lastLR[p] = a}

(* The traps of a hart, the last one first: one of each level at most, as a  *)
(* trap that finds its own level in use overwrites what was saved there.     *)
Pushed(fs, r, new) ==
  LET f == [level |-> new.prv, prv |-> r.prv, ie |-> r.mstatus.ie[r.prv]]
  IN  CASE new.debug \/ r.debug -> fs
        [] ~(new.debug \/ r.debug) /\ \E i \in DOMAIN fs : fs[i].level # new.prv ->
             <<f, fs[CHOOSE i \in DOMAIN fs : fs[i].level # new.prv]>>
        [] OTHER -> <<f>>

Popped(fs, level) ==
  IF fs # <<>> /\ fs[1].level = level THEN Tail(fs) ELSE <<>>

-----------------------------------------------------------------------------
(* processor_t::step on the hart whose turn it is.                           *)

Running == cpu.at = "step" /\ cpu.n > 0

(* The hart executes an instruction: no interrupt was found at the head of   *)
(* the loop, which only a slice, a serialization and a return go through.    *)
Executes == Running /\ ~(cpu.fresh /\ enabled_interrupts(hart[c]) # {}) /\ ~hart[c].debug

Retire(serialize) == cpu' = [cpu EXCEPT !.n = @ - 1, !.fresh = serialize]

(* A hart with state r traps, and gives the rest of the step away.           *)
Traps(r, interrupt, cause) ==
  LET new == take_trap(r, interrupt, cause)
  IN  /\ hart' = [hart EXCEPT ![c] = new]
      /\ cpu' = [cpu EXCEPT !.n = 0]
      /\ frames' = [frames EXCEPT ![c] = Pushed(@, r, new)]
      /\ UNCHANGED <<sc, mtime, mtimecmp, dint, ticked>>

Excepts(cause) == Traps(hart[c], FALSE, cause) /\ Ran /\ UNCHANGED <<lastLR, touched>>

TakeInterrupt ==
  /\ Running /\ cpu.fresh
  /\ enabled_interrupts(hart[c]) # {}
  /\ Traps(hart[c], TRUE, ctz(enabled_interrupts(hart[c])))
  /\ late' = [late EXCEPT ![c] = 0]
  /\ UNCHANGED <<lastLR, touched>>

Nop ==
  /\ Executes /\ [op |-> "nop"] \in sc.code[c]
  /\ Retire(FALSE) /\ Ran
  /\ UNCHANGED <<sc, hart, mtime, mtimecmp, dint, ticked, lastLR, touched, frames>>

EcallInsn ==
  /\ Executes /\ [op |-> "ecall"] \in sc.code[c]
  /\ Excepts(CAUSE_ECALL(hart[c].prv))

Ebreak ==
  /\ Executes /\ [op |-> "ebreak"] \in sc.code[c]
  /\ Excepts(CAUSE_BREAKPOINT)

(* A CSR instruction leaves the loop once before it executes.                *)
SerializeBefore ==
  /\ ~hart[c].serialized
  /\ hart' = [hart EXCEPT ![c].serialized = TRUE]
  /\ cpu' = [cpu EXCEPT !.fresh = TRUE]
  /\ UNCHANGED <<sc, mtime, mtimecmp, dint, ticked, lastLR, touched, frames, late>>

(* Below the privilege of the CSR it traps, and is serialized no more.       *)
CsrIllegal(i) ==
  /\ hart[c].serialized
  /\ hart[c].prv < csr_priv(i.csr)
  /\ Traps([hart[c] EXCEPT !.serialized = FALSE], FALSE, CAUSE_ILLEGAL_INSTRUCTION)
  /\ Ran
  /\ UNCHANGED <<lastLR, touched>>

CsrWrite(i) ==
  /\ hart[c].serialized
  /\ hart[c].prv >= csr_priv(i.csr)
  /\ hart' = [hart EXCEPT ![c] = set_csr([@ EXCEPT !.serialized = FALSE], i.csr, i.val)]
  /\ Retire(FALSE) /\ Ran
  /\ frames' = [frames EXCEPT ![c] = IF i.csr \in {"mstatus", "sstatus"} THEN <<>> ELSE @]
  /\ UNCHANGED <<sc, mtime, mtimecmp, dint, ticked, lastLR, touched>>

Csrrw ==
  \E i \in sc.code[c] :
    /\ i.op = "csrrw" /\ Executes
    /\ SerializeBefore \/ CsrIllegal(i) \/ CsrWrite(i)

Returns(level, new) ==
  /\ hart' = [hart EXCEPT ![c] = new]
  /\ Retire(TRUE) /\ Ran
  /\ frames' = [frames EXCEPT ![c] = Popped(@, level)]
  /\ UNCHANGED <<sc, mtime, mtimecmp, dint, ticked, lastLR, touched>>

Mret ==
  /\ Executes /\ [op |-> "mret"] \in sc.code[c]
  /\ IF hart[c].prv >= PRV_M THEN Returns(PRV_M, return_m(hart[c])) ELSE Excepts(CAUSE_ILLEGAL_INSTRUCTION)

Sret ==
  /\ Executes /\ [op |-> "sret"] \in sc.code[c]
  /\ IF hart[c].prv >= PRV_S THEN Returns(PRV_S, return_s(hart[c])) ELSE Excepts(CAUSE_ILLEGAL_INSTRUCTION)

(* The reservation is made before the load, which may fault.                 *)
Lr ==
  \E i \in sc.code[c] :
    /\ i.op = "lr" /\ Executes
    /\ LET reserved == [hart[c] EXCEPT !.load_reservation = i.addr]
       IN  IF addr_is_mem(i.addr) \/ bus_load(i.addr)
           THEN /\ hart' = [hart EXCEPT ![c] = reserved]
                /\ Retire(FALSE)
                /\ UNCHANGED <<sc, mtime, mtimecmp, dint, ticked, frames>>
           ELSE Traps(reserved, FALSE, CAUSE_FAULT_LOAD)
    /\ lastLR' = [lastLR EXCEPT ![c] = i.addr]
    /\ touched' = touched \ {c}
    /\ Ran

StoreToMemory(a) ==
  /\ addr_is_mem(a)
  /\ StoredBy({c}, a)
  /\ Retire(FALSE) /\ Ran
  /\ UNCHANGED <<sc, hart, mtime, mtimecmp, dint, ticked, lastLR, frames>>

StoreToDevice(a, v) ==
  LET b == bus_store(a, v) IN
  /\ ~addr_is_mem(a)
  /\ IF b.ok
     THEN /\ hart' = b.hart /\ mtimecmp' = b.mtimecmp
          /\ ticked' = (ticked \/ b.rtc)
          /\ Retire(FALSE) /\ Ran
          /\ UNCHANGED <<sc, mtime, dint, lastLR, touched, frames>>
     ELSE Excepts(CAUSE_FAULT_STORE)

Store ==
  \E i \in sc.code[c] :
    /\ i.op = "store" /\ Executes
    /\ StoreToMemory(i.addr) \/ StoreToDevice(i.addr, i.val)

(* A store if the reservation is this hart's own and of this address.        *)
Sc ==
  \E i \in sc.code[c] :
    /\ i.op = "sc" /\ Executes
    /\ IF hart[c].load_reservation = i.addr
       THEN StoreToMemory(i.addr) \/ StoreToDevice(i.addr, i.val)
       ELSE /\ Retire(FALSE) /\ Ran
            /\ UNCHANGED <<sc, hart, mtime, mtimecmp, dint, ticked, lastLR, touched, frames>>

(* In Debug Mode the hart waits in the Debug ROM; once its debug interrupt   *)
(* is set it runs the program of the debugger, which stores to memory or     *)
(* lets the hart go, and clears the interrupt.  From then on an ebreak stops *)
(* the hart, as gdb's server has it in dcsr.                                 *)
InDebugMode == Running /\ hart[c].debug /\ ~(cpu.fresh /\ enabled_interrupts(hart[c]) # {})

DebugWaits ==
  /\ InDebugMode /\ Retire(FALSE)
  /\ UNCHANGED <<sc, hart, mtime, mtimecmp, dint, history>>

DebugStore ==
  /\ InDebugMode /\ c \in dint
  /\ \E a \in sc.debugStores : StoredBy({c}, a)
  /\ dint' = dint \ {c}
  /\ Retire(FALSE)
  /\ UNCHANGED <<sc, hart, mtime, mtimecmp, ticked, lastLR, frames, late>>

Dret ==
  /\ InDebugMode /\ c \in dint
  /\ hart' = [hart EXCEPT ![c] = [set_privilege(@, @.dprv) EXCEPT !.debug = FALSE, !.ebreak = TRUE]]
  /\ dint' = dint \ {c}
  /\ Retire(TRUE)
  /\ UNCHANGED <<sc, mtime, mtimecmp, history>>

-----------------------------------------------------------------------------
(* sim_t::step and what happens between its calls.                           *)

(* dcsr.halt is what --halted says until gdb's server lets the hart go for   *)
(* the first time: then it clears the bit, and sets those for ebreak.        *)
HaltedByDcsr(r) == sc.halted /\ ~r.ebreak

EntersDebugMode == ~hart[c].debug /\ (c \in dint \/ HaltedByDcsr(hart[c]))

(* The hart is given k instructions of its slice: all of it, or what the     *)
(* interactive mode and the rest of an earlier call make of it.              *)
BeginStep ==
  /\ cpu.at \in {"idle", "host"}
  /\ \E k \in (IF sc.split THEN 1..INTERLEAVE - cpu.current_step
                           ELSE {INTERLEAVE - cpu.current_step}) :
       cpu' = [cpu EXCEPT !.at = "step", !.steps = k, !.fresh = TRUE,
                          !.n = IF hart[c].debug /\ k > DebugSteps THEN DebugSteps ELSE k]
  /\ hart' = IF EntersDebugMode
             THEN [hart EXCEPT ![c] = enter_debug_mode(@)]
             ELSE hart
  /\ UNCHANGED <<sc, mtime, mtimecmp, dint, history>>

(* A mistake: the last hart keeps its turn.                                 *)
EndStep_stuck ==
  /\ cpu.at = "step" /\ cpu.n = 0
  /\ IF cpu.current_step + cpu.steps = INTERLEAVE
     THEN /\ cpu' = [cpu EXCEPT !.at = "host", !.current_step = 0,
                                !.current_proc = IF c + 1 = sc.nprocs THEN c ELSE c + 1]
          /\ hart' = [hart EXCEPT ![c] = yield_load_reservation(@)]
          /\ UNCHANGED <<mtime, ticked>>
     ELSE /\ cpu' = [cpu EXCEPT !.at = "idle", !.current_step = @ + cpu.steps]
          /\ UNCHANGED <<hart, mtime, ticked>>
  /\ UNCHANGED <<sc, mtimecmp, dint, lastLR, touched, frames, late>>

(* At the end of its slice a hart gives up its reservation and the next one  *)
(* is taken; after the last of them the timer ticks.                         *)
EndStep ==
  /\ cpu.at = "step" /\ cpu.n = 0
  /\ IF cpu.current_step + cpu.steps = INTERLEAVE
     THEN LET yielded == [hart EXCEPT ![c] = yield_load_reservation(@)]
              last    == c + 1 = sc.nprocs
              time    == IF last /\ mtime < MaxTime THEN mtime + 1 ELSE mtime
          IN  /\ cpu' = [cpu EXCEPT !.at = "host", !.current_step = 0,
                                    !.current_proc = IF last THEN 0 ELSE c + 1]
              /\ mtime' = time
              /\ hart' = IF last THEN rtc_increment(time, mtimecmp, yielded) ELSE yielded
              /\ ticked' = (ticked \/ last)
     ELSE /\ cpu' = [cpu EXCEPT !.at = "idle", !.current_step = @ + cpu.steps]
          /\ UNCHANGED <<hart, mtime, ticked>>
  /\ UNCHANGED <<sc, mtimecmp, dint, lastLR, touched, frames, late>>

(* The host runs when a slice has ended, and may write the target's memory.  *)
HostStore ==
  /\ cpu.at = "host"
  /\ \E a \in sc.hostStores : StoredBy({}, a)
  /\ UNCHANGED <<sc, machine, ticked, lastLR, frames, late>>

(* gdb's server runs between two calls of step, and knows hart 0 only.       *)
DebugInterrupt ==
  /\ cpu.at \in {"idle", "host"} /\ sc.debugger
  /\ dint' = dint \cup {0}
  /\ UNCHANGED <<sc, hart, cpu, mtime, mtimecmp, history>>

Next ==
  \/ TakeInterrupt \/ Nop \/ EcallInsn \/ Ebreak \/ Csrrw \/ Mret \/ Sret
  \/ Lr \/ Sc \/ Store \/ DebugWaits \/ DebugStore \/ Dret
  \/ BeginStep \/ EndStep \/ HostStore \/ DebugInterrupt

(* main() never stops calling step.                                          *)
Spec == Init /\ [][Next]_vars /\ WF_vars(Next)

-----------------------------------------------------------------------------
(* Properties.                                                               *)

Hart == [prv : {PRV_U, PRV_S, PRV_M}, mstatus : Status,
         mie : SUBSET all_ints, mip : SUBSET all_ints,
         mideleg : SUBSET delegable_ints, medeleg : SUBSET causes,
         load_reservation : Nat \cup {NoReservation}, serialized : BOOLEAN,
         debug : BOOLEAN, dprv : {PRV_U, PRV_S, PRV_M}, ebreak : BOOLEAN]

Frame == [level : {PRV_S, PRV_M}, prv : {PRV_U, PRV_S, PRV_M}, ie : BOOLEAN]

(* Privileges, masks and the place in the step loop stay what the code       *)
(* declares; the enables of U-mode and H-mode are never set; Debug Mode has  *)
(* the privilege of M-mode.                                                  *)
TypeOK ==
  /\ sc \in Scenarios
  /\ hart \in [Procs -> Hart]
  /\ \A p \in Procs :
       /\ ~hart[p].mstatus.ie[PRV_U] /\ ~hart[p].mstatus.ie[PRV_H]
       /\ hart[p].debug => hart[p].prv = PRV_M
  /\ cpu \in [at : {"idle", "host", "step"}, current_proc : Procs,
              current_step : 0..INTERLEAVE - 1, steps : 0..INTERLEAVE,
              n : 0..INTERLEAVE, fresh : BOOLEAN]
  /\ cpu.at = "step" => cpu.n <= cpu.steps /\ cpu.current_step + cpu.steps <= INTERLEAVE
  /\ cpu.at # "step" => cpu.n = 0
  /\ mtime \in 0..MaxTime
  /\ dint \subseteq Procs /\ touched \subseteq Procs
  /\ frames \in [Procs -> Seq(Frame)]

(* As long as a hart's reservation can make an sc succeed, neither another   *)
(* hart nor the host has stored to the reserved word since the lr.  No store *)
(* looks at anybody's reservation: it holds because whoever else stores runs *)
(* only after the slice has ended.                                           *)
ReservationHolds ==
  \A p \in Procs : hart[p].load_reservation # NoReservation => p \notin touched

(* The timer interrupt is a level: once the timer has ticked or a comparison *)
(* was written, every hart's MTIP says whether mtime has reached its         *)
(* mtimecmp, whatever the program writes to mip and whoever wrote mtimecmp.  *)
TimerLevel ==
  ticked => \A p \in Procs : IRQ_M_TIMER \in hart[p].mip <=> mtime >= mtimecmp[p]

(* The state is well formed, and although the loop looks for interrupts only *)
(* where it starts over, no hart runs on with an interrupt due for as long   *)
(* as a slice.                                                               *)
InterruptsTimely == TypeOK /\ \A p \in Procs : late[p] < INTERLEAVE

(* A return from a trap goes back to the mode that was interrupted, with     *)
(* the enable that mode had, through any nesting of S-mode and M-mode        *)
(* handlers that do not write mstatus themselves.                            *)
ReturnRestores ==
  [][LET f == frames[c][1] IN
     /\ frames[c] # <<>>
     /\ hart[c].prv >= f.level
     /\ \/ f.level = PRV_M /\ Mret
        \/ f.level = PRV_S /\ Sret
     => /\ hart'[c].prv = f.prv
        /\ hart'[c].mstatus.ie[f.prv] = f.ie]_vars

(* A hart that stays below M-mode leaves everything alone that belongs to    *)
(* M-mode: which interrupts are enabled that are not delegated, what is      *)
(* delegated, and the state that an M-mode trap has saved.                   *)
GuestConfined ==
  [][\A p \in Procs :
       hart[p].prv < PRV_M /\ hart'[p].prv < PRV_M =>
         LET r == hart[p]  s == hart'[p] IN
         /\ s.mie \ r.mideleg = r.mie \ r.mideleg
         /\ s.mideleg = r.mideleg /\ s.medeleg = r.medeleg
         /\ s.mstatus.MPP = r.mstatus.MPP /\ s.mstatus.MPIE = r.mstatus.MPIE
         /\ s.mstatus.ie[PRV_M] = r.mstatus.ie[PRV_M]]_vars

(* The addresses that the config string announces are the ones the bus       *)
(* leads to: a store to the ipi or timecmp address of a hart reaches that    *)
(* hart, and a store to any other address changes neither on any hart.       *)
ConfigStringTrue ==
  [][LET Stores == {i \in sc.code[c] : i.op \in {"store", "sc"}} IN
     \A p \in Procs :
       /\ \A i \in Stores :
            /\ i.addr = cpu_addr(p) /\ StoreToDevice(i.addr, i.val)
                 => (IRQ_M_SOFT \in hart'[p].mip <=> i.val % 2 = 1)
            /\ i.addr = timecmp_addr(p) /\ StoreToDevice(i.addr, i.val)
                 => mtimecmp'[p] = i.val
       /\ (IRQ_M_SOFT \in hart'[p].mip) # (IRQ_M_SOFT \in hart[p].mip)
            => \E i \in Stores : i.addr = cpu_addr(p) /\ StoreToDevice(i.addr, i.val)
       /\ mtimecmp'[p] # mtimecmp[p]
            => \E i \in Stores : i.addr = timecmp_addr(p) /\ StoreToDevice(i.addr, i.val)]_vars

(* Every hart gets its turn again and again, whatever traps, interrupts and  *)
(* debuggers make of the slices.                                             *)
HartsRotate == \A p \in 0..1 : []<>(p \in Procs => c = p)

-----------------------------------------------------------------------------
(* The inductive invariants.                                                 *)

(* Only the hart whose slice it is may hold a reservation, and nobody but    *)
(* this hart stores before the slice has ended.                              *)
OnlyOneReserves ==
  \A p \in Procs : hart[p].load_reservation # NoReservation =>
    p = c /\ cpu.at # "host" /\ p \notin touched

(* Where the loop does not start over, the instructions that ran late and    *)
(* those left of the step do not fill a slice.                               *)
LateInSlice ==
  /\ late \in [Procs -> 0..INTERLEAVE - 1]
  /\ cpu.at = "step" /\ ~cpu.fresh /\ ~hart[c].debug => late[c] + cpu.n < INTERLEAVE

(* A trap that has not returned still has in mstatus what it saved there.    *)
Saved(r, f) ==
  /\ f.level = PRV_M => r.mstatus.MPP = f.prv /\ r.mstatus.MPIE = f.ie
  /\ f.level = PRV_S => r.mstatus.SPP = f.prv /\ r.mstatus.SPIE = f.ie
  /\ f.prv = PRV_U => ~f.ie

Stack(r, fs) ==
  \/ fs = <<>>
  \/ \E f \in Frame : fs = <<f>> /\ Saved(r, f)
  \/ \E f, g \in Frame : /\ fs = <<f, g>> /\ f.level # g.level
                         /\ Saved(r, f) /\ Saved(r, g)

FramesSaved == \A p \in Procs : Stack(hart[p], frames[p])

IndInv == TypeOK /\ OnlyOneReserves /\ LateInSlice /\ FramesSaved /\ TimerLevel
=============================================================================
