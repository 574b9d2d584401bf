---------------------------- MODULE MCSpikeDebug ----------------------------
(* Small programs and command sets for SpikeDebug. *)
EXTENDS SpikeDebug

\* Four programs: at 1 a loop with a trap handler at 4 that acknowledges the
\* timer, at 6 a loop that changes s0, at 10 a word that is no instruction, with
\* another one behind it (both also serve as data), at 12 an ebreak.
Programs == << LI(7), LI(8), JUMP(1), ACK, MRET, LI(7), NOP, LI(8), JUMP(6), 51, 52,
               EBREAK >>

Cmd(k) == Packet(k, "", 0, <<>>)
ControlCommands == { Cmd("c"), Cmd("s"), Cmd("?") }
StepCommands == { Cmd("s") }
\* The integer registers and memory, with accesses beyond its end, ...
Read(r) == Packet("p", r, 0, <<>>)
Write(r, v) == Packet("P", r, 0, <<v>>)
IntegerCommands ==
  { Cmd("s"), Cmd("g"), Packet("m", "", 10, <<2>>), Packet("m", "", 12, <<2>>),
    Packet("X", "", 10, <<53, 54>>), Read("s0"), Read("s1"), Read("x"), Read("pc"),
    Write("s0", 61), Write("s1", 62), Write("x", 63), Write("pc", 8) }
\* ... and the other classes of registers.
OtherCommands ==
  { Cmd("s"), Cmd("g"), Read("f"), Read("mstatus"), Read("mepc"), Read("nocsr"),
    Read("priv"), Read("none"), Write("f", 64), Write("mstatus", 12), Write("mepc", 2),
    Write("priv", PRV_U), Write("none", 66) }
BreakCommands == { Cmd("c"), Packet("Z", "", 7, <<>>), Packet("z", "", 7, <<>>) }
RunCommands == { Cmd("c") }

\* A session with the plain loop in M-mode; gdb only sends packets.
Session(commands, max) ==
  [pc |-> 6, prv |-> PRV_M, mie |-> FALSE, timer |-> FALSE,
   commands |-> commands, max |-> max, interrupt |-> FALSE, disconnect |-> FALSE,
   uninitialized |-> {TRUE}]

\* Programs that trap while gdb steps them: the loop of a U-mode program with
\* timer interrupts, an illegal instruction, an ebreak.
TimerSession == [Session(StepCommands, 4) EXCEPT !.pc = 1, !.prv = PRV_U, !.timer = TRUE]
IllegalSession == [Session(StepCommands, 4) EXCEPT !.pc = 10]
EbreakSession == [Session(StepCommands, 2) EXCEPT !.pc = 12]

ControlSessions ==
  { [Session(ControlCommands, 3) EXCEPT !.interrupt = TRUE],
    [TimerSession EXCEPT !.interrupt = TRUE, !.max = 3],
    [IllegalSession EXCEPT !.interrupt = TRUE, !.max = 3],
    EbreakSession }

\* Clients that come and go while a U-mode program takes timer interrupts.
ReconnectSession == [Session(RunCommands, 3) EXCEPT !.pc = 1, !.prv = PRV_U, !.timer = TRUE,
                                                    !.interrupt = TRUE, !.disconnect = TRUE,
                                                    !.uninitialized = BOOLEAN]

\* Registers and memory, breakpoints, steps over traps, clients that leave.
DataSessions == { Session(IntegerCommands, 3), Session(OtherCommands, 3),
                  Session(BreakCommands, 6), TimerSession, IllegalSession,
                  ReconnectSession }

AttachSessions == { [Session(RunCommands, 1) EXCEPT !.pc = 1, !.mie = TRUE, !.timer = TRUE] }
=============================================================================
