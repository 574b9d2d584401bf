----------------------------- MODULE MCMachine ------------------------------
(* Machines for TLC: two harts that contend for one word under a debugger    *)
(* and a host; one hart that runs an M-mode, an S-mode and a U-mode program  *)
(* with interrupts of each kind; two harts that interrupt each other through *)
(* the devices.                                                              *)
EXTENDS Machine

Op(o) == [op |-> o]
Csr(r, v) == [op |-> "csrrw", csr |-> r, val |-> v]
StoreTo(a, v) == [op |-> "store", addr |-> a, val |-> v]
LrFrom(a) == [op |-> "lr", addr |-> a]
ScTo(a) == [op |-> "sc", addr |-> a, val |-> 1]

Word == DRAM_BASE

StatusOf(sie, mie, spp, mpp) ==
  [ie |-> [p \in 0..3 |-> CASE p = PRV_S -> sie [] p = PRV_M -> mie [] OTHER -> TRUE],
   SPIE |-> sie, MPIE |-> mie, SPP |-> spp, MPP |-> mpp]

Contention ==
  [nprocs |-> 2, debugger |-> TRUE, halted |-> FALSE, split |-> TRUE,
   hostStores |-> {Word}, debugStores |-> {Word},
   code |-> [p \in 0..1 |-> {LrFrom(Word), ScTo(Word), StoreTo(Word, 0), Op("ecall"), Op("ebreak")}
                            \cup (IF p = 0 THEN {LrFrom(EXT_IO_BASE + 4), LrFrom(EXT_IO_BASE + 1), ScTo(EXT_IO_BASE + 1)} ELSE {})]]

Privilege ==
  [nprocs |-> 1, debugger |-> FALSE, halted |-> FALSE, split |-> FALSE,
   hostStores |-> {}, debugStores |-> {},
   code |-> [p \in {0} |->
     {Csr("mie", {IRQ_S_SOFT, IRQ_M_TIMER}), Csr("sie", {}), Csr("sie", all_ints),
      Csr("mip", {IRQ_S_SOFT}), Csr("sip", {}), Csr("mideleg", {IRQ_S_SOFT, IRQ_M_TIMER}),
      Csr("medeleg", {CAUSE_ECALL(PRV_U), CAUSE_BREAKPOINT}),
      Csr("mstatus", StatusOf(TRUE, TRUE, PRV_U, PRV_S)), Csr("mstatus", StatusOf(FALSE, TRUE, PRV_S, PRV_H)),
      Csr("sstatus", StatusOf(TRUE, FALSE, PRV_U, PRV_M)),
      Op("mret"), Op("sret"), Op("ecall"), Op("ebreak"),
      StoreTo(timecmp_addr(0), Never), StoreTo(timecmp_addr(0), 1)}]]

Devices ==
  [nprocs |-> 2, debugger |-> FALSE, halted |-> FALSE, split |-> FALSE,
   hostStores |-> {}, debugStores |-> {},
   code |-> [p \in 0..1 |->
     IF p = 0
     THEN {StoreTo(EXT_IO_BASE + 4, 1), StoreTo(EXT_IO_BASE + 6, 1), StoreTo(EXT_IO_BASE + 6, 2),
           StoreTo(EXT_IO_BASE, 1), StoreTo(EXT_IO_BASE + 1, Never), StoreTo(EXT_IO_BASE + 2, 2),
           StoreTo(EXT_IO_BASE + 3, 1), StoreTo(0, 1), StoreTo(DEFAULT_RSTVEC, 1), StoreTo(EXT_IO_BASE + 7, 1),
           StoreTo(DRAM_BASE + memsz, 1)}
     ELSE {Csr("mie", {IRQ_M_SOFT, IRQ_M_TIMER, IRQ_S_TIMER}), Csr("mstatus", StatusOf(FALSE, TRUE, PRV_U, PRV_M)),
           Csr("mip", {IRQ_S_TIMER}), StoreTo(EXT_IO_BASE + 6, 0), StoreTo(EXT_IO_BASE + 2, Never),
           Op("mret"), Op("nop")}]]

\* The same with --halted: both harts stop before their first instruction, and
\* gdb lets the first of them go.
Halted == [Contention EXCEPT !.halted = TRUE]

MCScenarios == {Contention, Halted, Privilege, Devices}

=============================================================================
