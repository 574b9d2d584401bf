----------------------------- MODULE SpikeDebug -----------------------------
(***************************************************************************)
(* Spike under gdb: the main loop of sim_t (riscv/sim.cc), which alternates *)
(* a slice of simulation of hart 0 (DebugHart) with gdbserver_t::handle()  *)
(* (GdbServer), and a gdb client at the other end of the socket.           *)
(***************************************************************************)
EXTENDS DebugHart, GdbServer

CONSTANT Sessions   \* programs, and what gdb may do to them

ASSUME SessionsAssumption ==
  \A s \in Sessions :
    /\ s.pc \in Addresses /\ s.prv \in {PRV_U, PRV_M}  \* where the program starts
    /\ s.mie \in BOOLEAN /\ s.timer \in BOOLEAN       \* and which interrupts it has
    /\ s.max \in Nat             \* bound: connections and packets of s.commands in all
    /\ s.interrupt \in BOOLEAN   \* whether gdb may send the interrupt character,
    /\ s.disconnect \in BOOLEAN  \* and close the connection and come back
    /\ s.uninitialized \subseteq BOOLEAN  \* what a bool that nobody sets may be

VARIABLES turn,      \* what the main loop does next: "client", "run", "handle"
          gdbserver, \* gdbserver_t
          session,   \* the session this is
          gdb,       \* the client, and the socket
          believed   \* history: where the client has breakpoints, and where it asked twice

vars == <<hartVars, turn, session, gdbserver, gdb, believed>>

ServerType ==
  /\ gdbserver.xlen \in {0, 32, 64, 128}
  /\ gdbserver.dpc \in Int
  /\ gdbserver.dcsr \in Int
  /\ gdbserver.mstatus \in Int
  /\ gdbserver.mstatus_dirty \in BOOLEAN
  /\ gdbserver.tselect_valid \in BOOLEAN
  /\ gdbserver.fence_i_required \in BOOLEAN
  /\ gdbserver.connected \in BOOLEAN
  /\ \A i \in DOMAIN gdbserver.queue :
       gdbserver.queue[i].kind \in {"halt", "continue", "restore_tselect",
         "restore_mstatus", "regread", "regwrite", "regs", "memread", "memwrite",
         "collect"}

TypeOK == /\ HartTypeOK
          /\ turn \in {"client", "run", "handle"}
          /\ ServerType
          /\ gdb.conn \in {"off", "asked", "on", "closed"}
          /\ gdb.view \in {"halted", "running"}
          /\ gdb.owed \in 0..2
          /\ believed \in [at : SUBSET Addresses, twice : SUBSET Addresses]

Init ==
  /\ session \in Sessions
  /\ HartInit(session.pc, session.prv, session.mie)
  /\ turn = "client"
  /\ gdbserver \in [xlen : {0}, dpc : {0}, dcsr : {0}, mstatus : {0},
                    mstatus_dirty : {FALSE}, tselect_valid : session.uninitialized,
                    fence_i_required : session.uninitialized, connected : {FALSE},
                    queue : {<<>>}, recv : {<<>>}, out : {<<>>},
                    instruction : {[a \in Addresses |-> NoInstruction]}]
  /\ gdb = [conn |-> "off", view |-> "halted", owed |-> 0, cmd |-> CtrlC,
            int |-> FALSE, left |-> session.max, socket |-> <<>>]
  /\ believed = [at |-> {}, twice |-> {}]

-----------------------------------------------------------------------------
\* sim_t::main: a slice, then handle().
Slice == /\ turn = "client"
         /\ turn' = "run"
         /\ BeginSlice
         /\ UNCHANGED <<session, gdbserver, gdb, believed>>

Run == /\ turn = "run"
       /\ Execute
       /\ UNCHANGED <<session, turn, gdbserver, gdb, believed>>

SliceEnds == /\ turn = "run"
             /\ turn' = "handle"
             /\ EndSlice(session.timer)
             /\ UNCHANGED <<session, gdbserver, gdb, believed>>

\* The operation at the front of the queue makes one step.
FrontStep == perform_step(gdbserver, Head(gdbserver.queue), debug_ram)

\* Mutant: the operation does not wait for the hart to clear the interrupt.
OperationMayStep_at_once == gdbserver.queue # <<>>
OperationMayStep == ~interrupt /\ gdbserver.queue # <<>>

AfterOperation ==
  IF OperationMayStep
    THEN LET r == FrontStep
         IN [r.g EXCEPT !.queue = IF r.done THEN Tail(@) ELSE <<r.op>> \o Tail(@),
                        !.out = @ \o r.out]
    ELSE gdbserver

AfterNotification(g) ==
  IF halt_notification THEN add_operations(g, << halt_op(TRUE) >>) ELSE g

\* read() finds data, the end of the connection, or nothing.
AfterRead(g) ==
  IF gdb.socket # <<>> THEN [g EXCEPT !.recv = @ \o gdb.socket]
  ELSE IF gdb.conn = "closed"
    THEN [g EXCEPT !.connected = FALSE, !.recv = <<>>, !.out = <<>>]
    ELSE g

\* Mutant: the attaching client does not halt the hart.
accept_running(g) == [g EXCEPT !.connected = (gdb.conn = "asked")]
accept(g) ==
  IF gdb.conn = "asked"
    THEN add_operations([g EXCEPT !.connected = TRUE], << halt_op(FALSE) >>)
    ELSE g

AfterRequests(g) == IF g.queue = <<>> THEN process_requests(g, EBREAK) ELSE g

\* What the debugger does to the program on purpose: it writes a register
\* (register_write_op_t) or resumes it (the last step of continue_op_t).
Intended(op) ==
  LET value == op.vals[1]
  IN CASE op.kind # "regwrite" \/ op.st # 0 -> hist
       [] op.r = "s0"   -> [hist EXCEPT !.s0 = value]
       [] op.r = "s1"   -> [hist EXCEPT !.s1 = value]
       [] op.r = "x"    -> [hist EXCEPT !.x = value]
       [] op.r = "f"    -> [hist EXCEPT !.f = value]
       [] op.r = "pc"   -> [hist EXCEPT !.pc = value]
       [] op.r = "mepc" -> [hist EXCEPT !.mepc = value]
       [] op.r = "priv" -> [hist EXCEPT !.prv = value]
       [] op.r = "mstatus" -> [hist EXCEPT !.mie = Has(value, 1), !.fs = (value \div 8) % 4]
       [] OTHER -> hist
Resumes(op) == op.kind = "continue" /\ op.st = 2

\* gdbserver_t::handle with a client.
HandleClient ==
  /\ turn = "handle"
  /\ gdbserver.connected
  /\ turn' = "client"
  /\ gdbserver' = AfterRequests(AfterRead(AfterNotification(AfterOperation)))
  /\ debug_ram' = IF OperationMayStep THEN FrontStep.ram ELSE debug_ram
  /\ interrupt' = (interrupt \/ (OperationMayStep /\ FrontStep.int))
  /\ halt_notification' = FALSE
  /\ gdb' = [gdb EXCEPT !.socket = <<>>,
                        !.conn = IF gdb.conn = "closed" /\ gdb.socket = <<>>
                                 THEN "off" ELSE @]
  /\ hist' = IF OperationMayStep THEN Intended(Head(gdbserver.queue)) ELSE hist
  /\ insns' = IF OperationMayStep /\ Resumes(Head(gdbserver.queue)) THEN <<>> ELSE insns
  /\ UNCHANGED <<session, state, mem, mip, believed>>

\* gdbserver_t::handle without one.
HandleNoClient ==
  /\ turn = "handle"
  /\ ~gdbserver.connected
  /\ turn' = "client"
  /\ gdbserver' = AfterRequests(accept(gdbserver))
  /\ gdb' = [gdb EXCEPT !.conn = IF @ = "asked" THEN "on" ELSE @]
  /\ UNCHANGED <<session, hartVars, believed>>

-----------------------------------------------------------------------------
\* The client.  gdb takes the target to be halted when it attaches, sends one
\* packet at a time, waits for every reply the server sends to it, and lets
\* the target run until a stop reply.
ClientMay == turn = "client" /\ gdb.conn = "on" /\ gdbserver.connected
RepliesTo(p) == CASE p.k \in {"c", "s"} -> 0
                  [] p.k = "P" /\ p.r \in {"pc", "mstatus", "priv"} -> 1
                  [] p.k \in {"P", "Z", "z"} -> 2
                  [] OTHER -> 1

Connect == /\ turn = "client"
           /\ gdb.conn = "off"
           /\ gdb.left > 0
           /\ ~gdbserver.connected
           /\ gdb' = [gdb EXCEPT !.conn = "asked", !.view = "halted", !.owed = 0,
                                 !.int = FALSE, !.left = @ - 1]
           /\ UNCHANGED <<session, hartVars, turn, gdbserver, believed>>

Send(p) ==
  /\ ClientMay
  /\ gdb.view = "halted"
  /\ gdb.owed = 0
  /\ gdb.left > 0
  /\ believed' = CASE p.k = "Z" -> [at    |-> believed.at \cup {p.a},
                                    twice |-> believed.twice \cup ({p.a} \cap believed.at)]
                   [] p.k = "z" -> [believed EXCEPT !.at = @ \ {p.a}]
                   [] OTHER -> believed
  /\ gdb' = [gdb EXCEPT !.socket = Append(@, p), !.cmd = p, !.left = @ - 1,
                        !.owed = RepliesTo(p), !.int = FALSE,
                        !.view = IF p.k \in {"c", "s"} THEN "running" ELSE "halted"]
  /\ UNCHANGED <<session, hartVars, turn, gdbserver>>

SendInterrupt ==
  /\ ClientMay
  /\ session.interrupt
  /\ gdb.view = "running"
  /\ ~gdb.int
  /\ gdb' = [gdb EXCEPT !.socket = Append(@, CtrlC), !.int = TRUE]
  /\ UNCHANGED <<session, hartVars, turn, gdbserver, believed>>

IsStop(reply) == reply.k \in {"S02", "T05", "T05swbreak"}

Receive ==
  /\ ClientMay
  /\ gdbserver.out # <<>>
  /\ gdbserver' = [gdbserver EXCEPT !.out = Tail(@)]
  /\ gdb' = IF IsStop(Head(gdbserver.out)) THEN [gdb EXCEPT !.view = "halted"]
            ELSE [gdb EXCEPT !.owed = IF @ > 0 THEN @ - 1 ELSE 0]
  /\ UNCHANGED <<session, hartVars, turn, believed>>

Disconnect ==
  /\ ClientMay
  /\ session.disconnect
  /\ gdb.socket = <<>>
  /\ gdb' = [gdb EXCEPT !.conn = "closed"]
  /\ UNCHANGED <<session, hartVars, turn, gdbserver, believed>>

Next == \/ Slice \/ Run \/ SliceEnds \/ HandleClient \/ HandleNoClient
        \/ Connect \/ (\E p \in session.commands : Send(p)) \/ SendInterrupt \/ Receive
        \/ Disconnect

Simulator == Slice \/ Run \/ SliceEnds \/ HandleClient \/ HandleNoClient

\* The simulator's only thread goes on for ever.
Spec == Init /\ [][Next]_vars /\ WF_vars(Simulator)

-----------------------------------------------------------------------------
\* Debug RAM has two users and no lock but the debug interrupt.  handle()
\* never changes it while the hart, between two slices, is in the middle of
\* using it: fetching from it, or saving s1, restoring s1 or leaving the
\* result there.
HartUsesRam == InRam(state.pc) \/ state.pc \in {Rom(k) : k \in {8, 10, 11, 26, 28}}
DebugRamExclusive ==
  [][turn = "handle" /\ debug_ram' # debug_ram => ~HartUsesRam]_vars

\* However often Debug Mode is entered and left, the program finds its pc,
\* registers, privilege, interrupt enable and floating point unit as its own
\* last instruction, or a register write of gdb, left them: the ROM and the
\* operations that ran in between saved and restored them.
ProgramUndisturbed == state.cause = CAUSE_NONE => Visible(state) = hist

\* When gdb has been told that the target stopped, and no operation is
\* pending, the hart is halted and what the server has cached of it (dpc,
\* dcsr) is where and how the program will go on.  An interrupt character can
\* cross another stop, and gdb then counts one stop reply too many.
Attached == gdb.conn = "on" /\ gdbserver.connected /\ turn = "client"
Idle == Attached /\ gdb.view = "halted" /\ gdb.owed = 0 /\ gdbserver.queue = <<>>
HaltedAsTold ==
  Idle /\ ~session.interrupt =>
          /\ state.cause # CAUSE_NONE
          /\ state.halt
          /\ gdbserver.dpc = hist.pc
          /\ gdbserver.dcsr % 4 = hist.prv

\* The reply to a read of registers or memory is what the program would
\* find, and a read that faults is reported: as an error, or, for a CSR the
\* hart does not have, as the ~0 that the comment at gdbserver.cc:634 expects.
\* One read is not truthful: `p` of s0 stores s0 as the Debug ROM left it, so
\* gdb is told misa (`g` takes s0 from dscratch and is right).
Told == Head(gdbserver.out)
Reads(p) == Attached /\ gdbserver.out # <<>> /\ gdb.owed > 0 /\ gdb.cmd.k = p
Register(r) == CASE r = "mstatus" -> get_mstatus([state EXCEPT !.fs = hist.fs,
                                                             !.mie = hist.mie])
                 [] r = "priv" -> hist.prv
                 [] OTHER -> hist[r]
ReadsTruthful ==
  /\ Reads("p") => Told \in CASE gdb.cmd.r = "nocsr" -> {Reply("E03"), DataReply(<<-1>>)}
                               [] gdb.cmd.r = "none"  -> {Reply("E02")}
                               [] gdb.cmd.r = "s0"    -> {DataReply(<<MISA>>)}
                               [] OTHER -> {DataReply(<<Register(gdb.cmd.r)>>)}
  /\ Reads("g") => Told = DataReply(<<hist.x, hist.x, hist.x, hist.s0, hist.s1>>)
  /\ Reads("m") =>
       LET range == gdb.cmd.a..(gdb.cmd.a + gdb.cmd.vals[1] - 1)
       IN Told = IF range \subseteq Addresses
                 THEN DataReply([i \in 1..gdb.cmd.vals[1] |-> mem[gdb.cmd.a + i - 1]])
                 ELSE Reply("E99")

\* A step command runs one instruction of the program, which may be one that
\* traps, or the first of an interrupt handler.  mret is the exception: it
\* leaves the inner loop of step() before the single-step test, so the step
\* goes on over the instruction behind it, unless an interrupt is taken there.
Stepped == SelectSeq(insns, LAMBDA op : op # "interrupt")
StepIsOneInstruction ==
  Attached /\ gdb.cmd.k = "s" /\ gdb.view = "running" /\ gdbserver.out # <<>>
    => /\ IsStop(Told)
       /\ \/ Len(Stepped) = 1
          \/ Len(Stepped) = 2 /\ Stepped[1] = "mret" /\ Stepped[2] # "mret"

\* The Debug Mode entry that ends a step finds the program right behind the
\* instruction that was stepped, or at the handler of the trap it took: the
\* entry comes from the program and not from the Debug ROM, at whatever
\* instruction an interrupt character falls into the step.  Two cases are the
\* exception, and leave dpc in the Debug ROM.  For a stepped ebreak take_trap
\* enters Debug Mode, and step() then does so once more.  And an interrupt
\* taken before the stepped instruction ends the slice with the step still to
\* be done, so that a debug interrupt may come first, and is stepped itself.
EbreakStepped == fetch.op = "ebreak" /\ state.ebreak /\ ~interrupt_taken
InterruptFirst == insns # <<>> /\ insns[Len(insns)] = "interrupt"
StepStopsInProgram ==
  [][state'.cause = CAUSE_STEP /\ state.cause # CAUSE_STEP =>
       IF EbreakStepped \/ (~InProgram /\ InterruptFirst)
       THEN InRom(state'.dpc) ELSE state'.dpc = hist'.pc]_vars

\* The state is well formed, and when gdb is idle, memory holds an ebreak where
\* gdb has a breakpoint and the original instruction everywhere else, unless
\* gdb writes memory itself.  A `Z` for a breakpoint gdb has already is the
\* exception: the comment at gdbserver.cc:1992 wants it to change nothing, but
\* it saves the ebreak as the instruction, and the ebreak stays for good.
BreakpointsAsBelieved ==
  /\ TypeOK
  /\ (\A p \in session.commands : p.k # "X")
     /\ Idle /\ gdbserver.out = <<>> /\ gdbserver.recv = <<>> /\ gdb.socket = <<>> =>
       \A a \in Addresses :
         mem[a] = IF a \in believed.at \cup believed.twice THEN EBREAK ELSE Code[a]

\* An attaching gdb finds the hart halted in the end.
HaltsOnAttach ==
  gdb.conn = "asked" ~> (state.halt /\ state.cause # CAUSE_NONE) \/ gdb.conn = "off"

\* A program that gdb interrupts stops, and gdb is told.
Stopped == \E i \in DOMAIN gdbserver.out : IsStop(gdbserver.out[i])
StopsOnInterrupt ==
  (gdb.int /\ gdb.view = "running") ~> (Stopped \/ gdb.view = "halted" \/ gdb.conn # "on")
=============================================================================
