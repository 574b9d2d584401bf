------------------------------ MODULE GdbServer ------------------------------
(***************************************************************************)
(* gdbserver_t (riscv/gdbserver.cc): the queue of operations, the steps of *)
(* each operation, the packet handlers and handle(), which the main loop   *)
(* calls between two slices of simulation.  The operators are functions of *)
(* the server's record g and of the debug module's words; SpikeDebug turns *)
(* them into actions.                                                      *)
(*                                                                         *)
(* Abstractions.  A packet and a reply are records.  Every memory access   *)
(* of a memory operation moves one value (find_access_size picks its       *)
(* width).  The program under debug runs in M-mode or without virtual      *)
(* memory, where collect_translation_info_op_t has nothing to do and       *)
(* translate() is the identity.                                            *)
(***************************************************************************)
EXTENDS DebugRom

\* An operation of operation_queue; its class decides which fields it uses.
Operation(kind) == [kind |-> kind, st |-> 0, flag |-> FALSE, r |-> "", a |-> 0,
                    n |-> 0, vals |-> <<>>]
halt_op(send_status) == [Operation("halt") EXCEPT !.flag = send_status]
continue_op(single_step) == [Operation("continue") EXCEPT !.flag = single_step]
register_read_op(r) == [Operation("regread") EXCEPT !.r = r]
register_write_op(r, v) == [Operation("regwrite") EXCEPT !.r = r, !.vals = <<v>>]
general_registers_read_op == Operation("regs")
memory_read_op(a, n, toBreakpoint) ==
  [Operation("memread") EXCEPT !.a = a, !.n = n, !.flag = toBreakpoint]
memory_write_op(a, vals) == [Operation("memwrite") EXCEPT !.a = a, !.vals = vals]

Reply(k) == [k |-> k, vals |-> <<>>]
DataReply(vals) == [k |-> "data", vals |-> vals]

\* What one perform_step leaves behind.
Step(g, op, ram, int, done, out) ==
  [g |-> g, op |-> op, ram |-> ram, int |-> int, done |-> done, out |-> out]
\* The operation goes on once the program prog has run in Debug RAM.
RunProgram(g, op, ram, prog) ==
  Step(g, [op EXCEPT !.st = @ + 1], write_words(ram, prog), TRUE, FALSE, <<>>)
Finish(g, op, ram, out) == Step(g, op, ram, FALSE, TRUE, out)

dr_write_jump == Jmp(DEBUG_ROM_RESUME)
dr_write_load(r, slot) == Insn("ld", r, slot)
dr_write_store(r, slot) == Insn("sd", r, slot)
dr_read(ram, slot) == read64(ram, slot)

-----------------------------------------------------------------------------
\* halt_op_t.  Steps: 0 ST_ENTER, 1 ST_XLEN, 2 ST_DPC, 3 ST_MSTATUS, 4 ST_DCSR.
xlen_program == << Insn("li", "s1", -1), Insn("srli", "s1", 31), Insn("sw", "s1", 0),
                   Insn("srli", "s1", 31), Insn("sw", "s1", 1), dr_write_jump >>
\* Mutant: the program that reads dpc does not halt the hart.
write_dpc_program_no_halt ==
  << Csr("csrr", "s0", "dpc"), dr_write_store("s0", SLOT_DATA0), dr_write_jump >>
write_dpc_program ==
  << [op |-> "csrsi", r |-> "", c |-> "dcsr", n |-> DCSR_HALT],
     Csr("csrr", "s0", "dpc"), dr_write_store("s0", SLOT_DATA0), dr_write_jump >>

DetectedXlen(ram, xlen) ==
  CASE read32(ram, 0) = 1 /\ read32(ram, 1) = 0   -> 32
    [] read32(ram, 0) = -1 /\ read32(ram, 1) = 3  -> 64
    [] read32(ram, 0) = -1 /\ read32(ram, 1) = -1 -> 128
    [] OTHER -> xlen

DcsrCauseOf(v) == (v \div 64) % 8
StopReply(cause) == CASE cause = CAUSE_DEBUGINT -> Reply("S02")
                      [] cause \in {CAUSE_STEP, CAUSE_HALT} -> Reply("T05")
                      [] cause = CAUSE_SWBP -> Reply("T05swbreak")
                      [] OTHER -> Reply("abort")

halt_step(g, op, ram) ==
  CASE op.st = 0 /\ g.xlen = 0 -> RunProgram(g, op, ram, xlen_program)
    [] op.st = 0 /\ g.xlen # 0 ->
         RunProgram(g, [op EXCEPT !.st = 1], ram, write_dpc_program)
    [] op.st = 1 -> RunProgram([g EXCEPT !.xlen = DetectedXlen(ram, @)], op, ram,
                               write_dpc_program)
    [] op.st = 2 -> RunProgram([g EXCEPT !.dpc = dr_read(ram, SLOT_DATA0)], op, ram,
                               << Csr("csrr", "s0", "mstatus"),
                                  dr_write_store("s0", SLOT_DATA0), dr_write_jump >>)
    [] op.st = 3 -> RunProgram([g EXCEPT !.mstatus = dr_read(ram, SLOT_DATA0),
                                         !.mstatus_dirty = FALSE], op, ram,
                               << Csr("csrr", "s0", "dcsr"), Insn("sw", "s0", SLOT_DATA0),
                                  dr_write_jump >>)
    [] op.st = 4 -> LET dcsr == read32(ram, SLOT_DATA0)
                    IN Finish([g EXCEPT !.dcsr = dcsr], op, ram,
                              IF op.flag THEN <<StopReply(DcsrCauseOf(dcsr))>> ELSE <<>>)

\* continue_op_t: restore dpc, then mstatus, then dcsr; the last program also
\* resumes the hart.
ResumeDcsr(dcsr, single_step) ==
  dcsr - (IF (dcsr \div DCSR_HALT) % 2 = 1 THEN DCSR_HALT ELSE 0)
       - (IF (dcsr \div DCSR_STEP) % 2 = 1 THEN DCSR_STEP ELSE 0)
       - (IF (dcsr \div DCSR_EBREAK) % 2 = 1 THEN DCSR_EBREAK ELSE 0)
       + (IF single_step THEN DCSR_STEP ELSE 0) + DCSR_EBREAK

continue_step(g, op, ram) ==
  CASE op.st = 0 ->
         RunProgram([g EXCEPT !.fence_i_required = FALSE], op,
                    write64(ram, SLOT_DATA0, g.dpc),
                    << dr_write_load("s0", SLOT_DATA0), Csr("csrw", "s0", "dpc") >>
                      \o (IF g.fence_i_required THEN << Op0("fence") >> ELSE <<>>)
                      \o << dr_write_jump >>)
    [] op.st = 1 -> RunProgram(g, op, write64(ram, SLOT_DATA0, g.mstatus),
                               << dr_write_load("s0", SLOT_DATA0),
                                  Csr("csrw", "s0", "mstatus"), dr_write_jump >>)
    [] op.st = 2 ->
         [RunProgram(g, op, write32(ram, SLOT_DATA0, Data(ResumeDcsr(g.dcsr, op.flag))),
                     << Insn("lw", "s0", SLOT_DATA0), Csr("csrw", "s0", "dcsr"),
                        dr_write_jump >>) EXCEPT !.done = TRUE]

\* maybe_restore_tselect_op_t, maybe_restore_mstatus_op_t: they write a
\* program and do not set the interrupt that would run it.
restore_step(g, op, ram, dirty, csr, value) ==
  Finish(g, op,
         IF dirty THEN write64(write_words(ram, << dr_write_load("s0", SLOT_DATA1),
                                                   Csr("csrw", "s0", csr),
                                                   dr_write_jump >>),
                               SLOT_DATA1, value)
         ELSE ram, <<>>)

-----------------------------------------------------------------------------
\* Mutant: the result word is not looked at.
Failed_ignored(ram) == FALSE
Failed(ram) == read32(ram, RESULT) # 0

\* A program that uses a floating point register first switches the unit on.
SetFs(v) == (v % 8) + 8
fp_program(insn) ==
  << dr_write_load("s0", SLOT_DATA1), Csr("csrw", "s0", "mstatus"), insn, dr_write_jump >>
IsCsrReg(r) == r \in {"mepc", "nocsr"}

\* register_read_op_t.  An integer register is stored as it is when Debug RAM
\* is entered; pc, mstatus and the privilege mode come from the server's copy.
register_read_step(g, op, ram) ==
  CASE op.st = 0 /\ op.r \in {"s0", "s1", "x"} ->
         RunProgram(g, op, ram, << Insn("sd", op.r, SLOT_DATA0), dr_write_jump >>)
    [] op.st = 0 /\ op.r = "pc" -> Finish(g, op, ram, << DataReply(<<g.dpc>>) >>)
    [] op.st = 0 /\ op.r = "f" ->
         RunProgram([g EXCEPT !.mstatus_dirty = TRUE], op,
                    write64(ram, SLOT_DATA1, SetFs(g.mstatus)),
                    fp_program(Insn("fsd", "", SLOT_DATA0)))
    [] op.st = 0 /\ op.r = "mstatus" -> Finish(g, op, ram, << DataReply(<<g.mstatus>>) >>)
    [] op.st = 0 /\ IsCsrReg(op.r) ->
         RunProgram(g, op, write64(ram, SLOT_DATA0, -1),
                    << Csr("csrr", "s0", op.r), dr_write_store("s0", SLOT_DATA0),
                       dr_write_jump >>)
    [] op.st = 0 /\ op.r = "priv" -> Finish(g, op, ram, << DataReply(<<g.dcsr % 4>>) >>)
    [] op.st = 0 /\ op.r = "none" -> Finish(g, op, ram, << Reply("E02") >>)
    [] op.st = 1 -> Finish(g, op, ram, IF Failed(ram) THEN << Reply("E03") >>
                                       ELSE << DataReply(<<dr_read(ram, SLOT_DATA0)>>) >>)

\* register_write_op_t
register_write_step(g, op, ram) ==
  LET value == op.vals[1]
      ram1  == write64(ram, SLOT_DATA0, value)
      With(insn) == << dr_write_load("s0", SLOT_DATA0), insn, dr_write_jump >>
  IN CASE op.st = 0 /\ op.r = "s0" -> RunProgram(g, op, ram1, With(Csr("csrw", "s0", "dscratch")))
       [] op.st = 0 /\ op.r = "s1" ->
            RunProgram(g, op, ram1, With(dr_write_store("s0", SLOT_DATA_LAST)))
       [] op.st = 0 /\ op.r = "x" -> RunProgram(g, op, ram1, With(Insn("mv", "x", 0)))
       [] op.st = 0 /\ op.r = "pc" -> Finish([g EXCEPT !.dpc = value], op, ram1, <<>>)
       [] op.st = 0 /\ op.r = "f" ->
            RunProgram([g EXCEPT !.mstatus_dirty = TRUE], op,
                       write64(ram1, SLOT_DATA1, SetFs(g.mstatus)),
                       fp_program(Insn("fld", "", SLOT_DATA0)))
       [] op.st = 0 /\ op.r = "mstatus" ->
            Finish([g EXCEPT !.mstatus = value, !.mstatus_dirty = TRUE], op, ram1, <<>>)
       [] op.st = 0 /\ IsCsrReg(op.r) -> RunProgram(g, op, ram1, With(Csr("csrw", "s0", op.r)))
       [] op.st = 0 /\ op.r = "priv" ->
            Finish([g EXCEPT !.dcsr = (@ - (@ % 4)) + value], op, ram1, <<>>)
       [] op.st = 0 /\ op.r = "none" -> Finish(g, op, ram1, << Reply("E02") >>)
       [] op.st = 1 -> Finish(g, op, ram, << Reply(IF Failed(ram) THEN "E03" ELSE "OK") >>)

\* general_registers_read_op_t.  Two registers are read per step; s0 = x8 is
\* the second of its pair and s1 = x9 the first of the next.  The steps for
\* the other pairs, which differ from the first one in the registers alone,
\* are left out.
general_registers_read_step(g, op, ram) ==
  LET got1 == op.vals \o <<dr_read(ram, SLOT_DATA0)>>
      got2 == got1 \o <<dr_read(ram, SLOT_DATA1)>>
  IN CASE op.st = 0 -> RunProgram(g, op, ram,
                         << dr_write_store("x", SLOT_DATA0), dr_write_store("x", SLOT_DATA1),
                            dr_write_jump >>)
       [] op.st = 1 -> RunProgram(g, [op EXCEPT !.vals = got2], ram,
                         << dr_write_store("x", SLOT_DATA0), Csr("csrr", "s0", "dscratch"),
                            dr_write_store("s0", SLOT_DATA1), dr_write_jump >>)
       [] op.st = 2 -> RunProgram(g, [op EXCEPT !.vals = got2], ram,
                         << dr_write_load("s1", SLOT_DATA_LAST),
                            dr_write_store("s1", SLOT_DATA0),
                            dr_write_store("x", SLOT_DATA1), dr_write_jump >>)
       [] op.st = 3 -> Finish(g, op, ram, << DataReply(got1) >>)

\* memory_read_op_t: to gdb, or into the instruction a software breakpoint
\* replaces.  After the first access only the address changes.
memory_read_step(g, op, ram) ==
  LET got  == op.vals \o <<dr_read(ram, SLOT_DATA1)>>
      next == op.a + Len(got)
  IN CASE op.st = 0 -> RunProgram(g, op, write64(ram, SLOT_DATA0, op.a),
                         << dr_write_load("s0", SLOT_DATA0), Insn("ldmem", "s1", 0),
                            dr_write_store("s1", SLOT_DATA1), dr_write_jump >>)
       [] op.st > 0 /\ Failed(ram) -> Finish(g, op, ram, << Reply("E99") >>)
       [] op.st > 0 /\ ~Failed(ram) /\ Len(got) = op.n ->
            IF op.flag THEN Finish([g EXCEPT !.instruction[op.a] = got[1]], op, ram, <<>>)
            ELSE Finish(g, op, ram, << DataReply(got) >>)
       [] OTHER -> RunProgram(g, [op EXCEPT !.vals = got],
                              write64(ram, SLOT_DATA0, next), <<>>)

\* memory_write_op_t
memory_write_step(g, op, ram) ==
  LET offset == op.st
      next(k) == write64(write64(ram, SLOT_DATA1, op.vals[k + 1]), SLOT_DATA0, op.a + k)
  IN CASE op.st = 0 -> RunProgram(g, op, next(0),
                         << dr_write_load("s0", SLOT_DATA0), dr_write_load("s1", SLOT_DATA1),
                            Insn("stmem", "s1", 0), dr_write_jump >>)
       [] op.st > 0 /\ Failed(ram) -> Finish(g, op, ram, << Reply("E98") >>)
       [] op.st > 0 /\ ~Failed(ram) /\ offset >= Len(op.vals) ->
            Finish(g, op, ram, << Reply("OK") >>)
       [] OTHER -> RunProgram(g, op, next(offset), <<>>)

perform_step(g, op, ram) ==
  CASE op.kind = "halt"            -> halt_step(g, op, ram)
    [] op.kind = "continue"        -> continue_step(g, op, ram)
    [] op.kind = "restore_tselect" ->
         restore_step(g, op, ram, g.tselect_valid, "tselect", 0)
    [] op.kind = "restore_mstatus" ->
         restore_step(g, op, ram, g.mstatus_dirty, "mstatus", g.mstatus)
    [] op.kind = "regread"         -> register_read_step(g, op, ram)
    [] op.kind = "regwrite"        -> register_write_step(g, op, ram)
    [] op.kind = "regs"            -> general_registers_read_step(g, op, ram)
    [] op.kind = "memread"         -> memory_read_step(g, op, ram)
    [] op.kind = "memwrite"        -> memory_write_step(g, op, ram)
    [] op.kind = "collect"         -> Finish(g, op, ram, <<>>)

-----------------------------------------------------------------------------
Packets == {"c", "s", "m", "X", "p", "P", "g", "Z", "z", "?"}
Packet(k, r, a, vals) == [k |-> k, r |-> r, a |-> a, vals |-> vals]
CtrlC == Packet("interrupt", "", 0, <<>>)

add_operations(g, ops) == [g EXCEPT !.queue = @ \o ops]
send_packet(g, reply) == [g EXCEPT !.out = Append(@, reply)]

\* software_breakpoint_insert and software_breakpoint_remove, with the OK
\* that handle_breakpoint sends.
NoInstruction == -98
\* Mutant: the breakpoint is written before the instruction is read.
software_breakpoint_insert_swapped(g, a, ebreak) ==
  send_packet(add_operations([g EXCEPT !.fence_i_required = TRUE,
                                       !.instruction[a] = Junk],
                << Operation("collect"), memory_write_op(a, <<ebreak>>),
                   memory_read_op(a, 1, TRUE) >>), Reply("OK"))
software_breakpoint_insert(g, a, ebreak) ==
  send_packet(add_operations([g EXCEPT !.fence_i_required = TRUE,
                                       !.instruction[a] = Junk],
                << Operation("collect"), memory_read_op(a, 1, TRUE),
                   memory_write_op(a, <<ebreak>>) >>), Reply("OK"))

\* A breakpoint that is not in the map is found as an all-zero one.
software_breakpoint_remove(g, a) ==
  LET found == g.instruction[a] # NoInstruction
  IN send_packet(add_operations([g EXCEPT !.fence_i_required = TRUE,
                                          !.instruction[a] = NoInstruction],
                   << Operation("collect"),
                      memory_write_op(IF found THEN a ELSE 0,
                                      <<IF found THEN g.instruction[a] ELSE 0>>) >>),
                 Reply("OK"))

handle_continue(g) ==
  add_operations(g, << Operation("restore_tselect"), Operation("restore_mstatus"),
                       continue_op(FALSE) >>)
handle_step(g) == add_operations(g, << Operation("restore_tselect"), continue_op(TRUE) >>)
handle_memory_read(g, p) ==
  add_operations(g, << Operation("collect"), memory_read_op(p.a, p.vals[1], FALSE) >>)
handle_memory_binary_write(g, p) ==
  add_operations(g, << Operation("collect"), memory_write_op(p.a, p.vals) >>)
handle_register_read(g, p) == add_operations(g, << register_read_op(p.r) >>)
handle_register_write(g, p) ==
  send_packet(add_operations(g, << register_write_op(p.r, p.vals[1]) >>), Reply("OK"))
handle_general_registers_read(g) == add_operations(g, << general_registers_read_op >>)
handle_halt_reason(g) == send_packet(g, Reply("S00"))

handle_packet(g, p, ebreak) ==
  CASE p.k = "c" -> handle_continue(g)
    [] p.k = "s" -> handle_step(g)
    [] p.k = "m" -> handle_memory_read(g, p)
    [] p.k = "X" -> handle_memory_binary_write(g, p)
    [] p.k = "p" -> handle_register_read(g, p)
    [] p.k = "P" -> handle_register_write(g, p)
    [] p.k = "g" -> handle_general_registers_read(g)
    [] p.k = "Z" -> software_breakpoint_insert(g, p.a, ebreak)
    [] p.k = "z" -> software_breakpoint_remove(g, p.a)
    [] p.k = "?" -> handle_halt_reason(g)

\* handle_interrupt, once for each interrupt character.
\* Mutant: the halt does not report to gdb.
handle_interrupts_silent(g, k) == add_operations(g, [i \in 1..k |-> halt_op(FALSE)])
handle_interrupts(g, k) == add_operations(g, [i \in 1..k |-> halt_op(TRUE)])

\* process_requests: the interrupt characters in front, then one packet.  (A
\* packet that was handled is not empty, so the loop ends as it does for a
\* partial one.)
process_requests(g, ebreak) ==
  LET ints == {i \in 0..Len(g.recv) : \A j \in 1..i : g.recv[j] = CtrlC}
      k    == CHOOSE i \in ints : \A j \in ints : j <= i
      g1   == handle_interrupts([g EXCEPT !.recv = SubSeq(@, k + 1, Len(@))], k)
  IN IF g1.recv = <<>> THEN g1
     ELSE handle_packet([g1 EXCEPT !.recv = Tail(@)], Head(g1.recv), ebreak)
=============================================================================
