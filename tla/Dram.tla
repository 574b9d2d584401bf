-------------------------------- MODULE Dram --------------------------------
(***************************************************************************)
(* A channel of DRAMSim2: MemoryController.cpp with its command queue and  *)
(* its ranks, MemorySystem.cpp around it, and the two clients of the       *)
(* repository: the loop of TraceBasedSim.cpp, which offers a transaction   *)
(* again until it is accepted and runs for as many cycles as it was told   *)
(* to, and spike, which hands its transactions to a memory system that     *)
(* keeps what the controller does not accept.  Only the test at the start  *)
(* of spike's main() lets cycles pass: the transactions of the simulation  *)
(* itself, dram_sim_t::access, are added and no cycle ever serves them.    *)
(*                                                                         *)
(* A cycle is one action: everything MemorySystem::update() does, in its   *)
(* order.  Energy, latencies and statistics are left out.  Storage is      *)
(* Bank.cpp's: a write stores the number of its transaction, which tells   *)
(* which write a read has seen (the default build, NO_STORAGE, moves the   *)
(* same packets without contents).                                         *)
(***************************************************************************)
EXTENDS DramQueue

CONSTANTS Policies,    \* the combinations of policies that are explored
          Addresses,   \* the addresses there are
          Gaps,        \* the cycles a line of the trace may have to wait
          MaxTrans,    \* how many transactions there are
          Patience     \* how many cycles in a row transactions may be waiting

ASSUME ClientAssumption ==
  /\ \A i \in Policies : /\ i.addresses \subseteq Addresses
                          /\ i.transactions \in 0..MaxTrans
                          /\ i.test \in Seq([write : BOOLEAN, addr : Addresses, updates : Nat])
                          /\ Len(i.test) <= i.transactions
  /\ Addresses \subseteq Nat /\ Gaps \subseteq Nat /\ MaxTrans \in Nat

\* The fields of an address are masked to their widths.  With a number of ranks
\* that is no power of two (megsOfMemory / megsPerRank) a field can name a rank
\* that is not there, and the code then reads outside its tables: such an address
\* is not used here.
ASSUME MappingAssumption ==
  \A a \in Addresses : /\ addressMapping(a).rank \in Ranks
                       /\ addressMapping(a).bank \in Banks
                       /\ addressMapping(a).row \in Rows

VARIABLES ini,          \* the policies of system.ini, the client, its addresses, the
                        \* number of its transactions and the calls of spike's test
          bankStates,   \* the controller's table
          queue,        \* the command queue
          ranks,
          mc,           \* the controller's other fields
          pendingTransactions,
          line,         \* the line of the trace that waits, or NoLine
          count,        \* the transactions so far
          accepted,     \* history: the last write to an address the controller accepted
          storage,      \* Bank::rowEntries
          answered,     \* history: the transactions that have been completed
          waited,       \* history: the cycles since all transactions were
          stale,        \* history: reads that did not see the last write before them
          error         \* the message of the last exit() or abort()

dramVars == <<bankStates, queue, ranks, mc, pendingTransactions, accepted, storage,
              answered, stale, error>>
vars == <<ini, dramVars, line, count, waited>>

NoLine == [id |-> 0, write |-> FALSE, addr |-> 0, wait |-> 0, expect |-> 0]

Init ==
  /\ ini \in Policies
  /\ bankStates = [r \in Ranks |-> [b \in Banks |-> NewBankState]]
  /\ queue = NewQueue
  /\ ranks = [r \in Ranks |-> NewRank]
  /\ mc = [transactionQueue |-> <<>>, pendingReads |-> <<>>, returns |-> <<>>,
           cmd |-> NoPacket, cmdCyclesLeft |-> 0, data |-> NoPacket, dataCyclesLeft |-> 0,
           writeData |-> <<>>, refreshRank |-> 0,
           refreshCountdown |-> [r \in Ranks |-> (RefreshCycles \div NUM_RANKS) * (r + 1)],
           powerDown |-> [r \in Ranks |-> FALSE]]
  /\ pendingTransactions = <<>>
  /\ line = NoLine
  /\ count = 0
  /\ accepted = [a \in Addresses |-> 0]
  /\ storage = [a \in Addresses |-> 0]
  /\ answered = {}
  /\ waited = 0
  /\ stale = {}
  /\ error = "none"

-----------------------------------------------------------------------------
(* The stages of MemoryController::update().  s is a record of dramVars. *)

State == [bank |-> bankStates, queue |-> queue, ranks |-> ranks, mc |-> mc,
          pending |-> pendingTransactions, accepted |-> accepted, store |-> storage, done |-> answered,
          stale |-> stale, error |-> error]

Fail(s, message) == [s EXCEPT !.error = IF @ = "none" THEN message ELSE @]
Check(s, ok, message) == IF ok THEN s ELSE Fail(s, message)

WillAcceptTransaction(s) == Len(s.mc.transactionQueue) < TRANS_QUEUE_DEPTH

\* A read that is accepted is to see the last write accepted before it.
addTransaction(s, t) ==
  IF WillAcceptTransaction(s)
  THEN [s EXCEPT !.mc.transactionQueue = Append(@, [t EXCEPT !.expect = s.accepted[t.addr]]),
                 !.accepted[t.addr] = IF t.write THEN t.id ELSE @]
  ELSE s

\* Implicit state changes of the banks.
CountdownBank(old) ==
  CASE old.countdown = 0 -> old
    [] old.countdown > 1 -> [old EXCEPT !.countdown = @ - 1]
    [] old.countdown = 1 /\ old.lastCommand \in {"READ_P", "WRITE_P"} ->
         [old EXCEPT !.state = "Precharging", !.lastCommand = "PRECHARGE", !.countdown = tRP]
    [] old.countdown = 1 /\ old.lastCommand \in {"REFRESH", "PRECHARGE"} ->
         [old EXCEPT !.state = "Idle", !.countdown = 0]
    [] OTHER -> [old EXCEPT !.countdown = 0]

CountdownBanks(s) ==
  [s EXCEPT !.bank = [r \in Ranks |-> [b \in Banks |-> CountdownBank(@[r][b])]]]

\* Bank::read and Bank::write, on the words of all banks.
BankRead(store, p) == store[p.addr]
BankWrite(store, p) == [store EXCEPT ![p.addr] = p.data]

\* A packet arrives at its rank: a command, or the data of a write.
ToRank(s, p) ==
  LET checked == Check(s, Allowed(s.ranks[p.rank].bankStates, p),
                       "received a command when not allowed")
  IN  [checked EXCEPT
         !.ranks[p.rank] = RankReceives(@, p, BankRead(s.store, p)),
         !.store = IF p.type = "DATA" THEN BankWrite(@, p) ELSE @]

CommandBus(s) ==
  IF s.mc.cmd = NoPacket THEN s
  ELSE IF s.mc.cmdCyclesLeft > 1 THEN [s EXCEPT !.mc.cmdCyclesLeft = @ - 1]
  ELSE [ToRank(s, s.mc.cmd) EXCEPT !.mc = [s.mc EXCEPT !.cmd = NoPacket, !.cmdCyclesLeft = 0]]

\* The callback WriteDataDone, then the rank.
DataBus(s) ==
  IF s.mc.data = NoPacket THEN s
  ELSE IF s.mc.dataCyclesLeft > 1 THEN [s EXCEPT !.mc.dataCyclesLeft = @ - 1]
  ELSE [ToRank(s, s.mc.data) EXCEPT
          !.mc = [s.mc EXCEPT !.data = NoPacket, !.dataCyclesLeft = 0],
          !.done = @ \cup {s.mc.data.id}]

SendWriteData(s) ==
  LET waiting == [i \in DOMAIN s.mc.writeData |->
                    [s.mc.writeData[i] EXCEPT !.countdown = @ - 1]]
  IN  IF waiting # <<>> /\ Head(waiting).countdown = 0
      THEN [Check(s, s.mc.data = NoPacket, "Data Bus Collision")
              EXCEPT !.mc = [s.mc EXCEPT !.data = Head(waiting).packet,
                                         !.dataCyclesLeft = BL \div 2,
                                         !.writeData = Tail(waiting)]]
      ELSE [s EXCEPT !.mc.writeData = waiting]

\* A mutant: a rank that is powered down is not told.
RefreshDueUntold(s) ==
  LET r == s.mc.refreshRank
  IN  IF s.mc.refreshCountdown[r] = 0
      THEN [s EXCEPT !.queue = needRefresh(@, r),
                     !.mc.refreshCountdown[r] = RefreshCycles,
                     !.mc.refreshRank = (r + 1) % NUM_RANKS]
      ELSE s

\* The refresh that is due, and the power-up in time for the next one.
RefreshDue(s) ==
  LET r == s.mc.refreshRank
  IN  IF s.mc.refreshCountdown[r] = 0
      THEN [s EXCEPT !.queue = needRefresh(@, r),
                     !.ranks[r].refreshWaiting = TRUE,
                     !.mc = [s.mc EXCEPT !.refreshCountdown[r] = RefreshCycles,
                                         !.refreshRank = (r + 1) % NUM_RANKS]]
      ELSE IF s.mc.powerDown[r] /\ s.mc.refreshCountdown[r] <= tXP
      THEN [s EXCEPT !.ranks[r].refreshWaiting = TRUE]
      ELSE s

\* A mutant: the bursts of two ranks may follow each other at once.
AfterReadSameRank(table, p) ==
  [table EXCEPT ![p.rank] = [b \in Banks |->
     IF b = p.bank /\ p.type = "READ_P"
     THEN [@[b] EXCEPT !.nextActivate = READ_AUTOPRE_DELAY, !.nextRead = READ_AUTOPRE_DELAY,
                       !.nextWrite = READ_AUTOPRE_DELAY, !.lastCommand = "READ_P",
                       !.countdown = READ_TO_PRE_DELAY]
     ELSE [@[b] EXCEPT !.nextRead = larger(@, BurstGap),
                       !.nextWrite = larger(@, READ_TO_WRITE_DELAY),
                       !.nextPrecharge = larger(@, READ_TO_PRE_DELAY)]]]

\* The controller's table after the command p has left the queue.
AfterRead(table, p) ==
  [r \in Ranks |-> [b \in Banks |->
     LET old == table[r][b]
         here == r = p.rank /\ b = p.bank
         auto == larger(old.nextActivate, READ_AUTOPRE_DELAY)
     IN  IF here /\ p.type = "READ_P"
         THEN [old EXCEPT !.nextActivate = auto, !.nextRead = auto, !.nextWrite = auto,
                          !.lastCommand = "READ_P", !.countdown = READ_TO_PRE_DELAY]
         ELSE IF r = p.rank
         THEN [old EXCEPT !.nextRead = larger(@, BurstGap),
                          !.nextWrite = larger(@, READ_TO_WRITE_DELAY),
                          !.nextPrecharge = IF here THEN larger(@, READ_TO_PRE_DELAY) ELSE @,
                          !.lastCommand = IF here THEN "READ" ELSE @]
         ELSE IF old.state = "RowActive"
         THEN [old EXCEPT !.nextRead = larger(@, BL \div 2 + tRTRS),
                          !.nextWrite = larger(@, READ_TO_WRITE_DELAY)]
         ELSE old]]

AfterWrite(table, p) ==
  [r \in Ranks |-> [b \in Banks |->
     LET old == table[r][b]
         here == r = p.rank /\ b = p.bank
         auto == larger(old.nextActivate, WRITE_AUTOPRE_DELAY)
     IN  IF here /\ p.type = "WRITE_P"
         THEN [old EXCEPT !.nextActivate = auto, !.nextRead = auto, !.nextWrite = auto,
                          !.lastCommand = "WRITE_P", !.countdown = WRITE_TO_PRE_DELAY]
         ELSE IF r = p.rank
         THEN [old EXCEPT !.nextWrite = larger(@, BurstGap),
                          !.nextRead = larger(@, WRITE_TO_READ_DELAY_B),
                          !.nextPrecharge = IF here THEN larger(@, WRITE_TO_PRE_DELAY) ELSE @,
                          !.lastCommand = IF here THEN "WRITE" ELSE @]
         ELSE IF old.state = "RowActive"
         THEN [old EXCEPT !.nextWrite = larger(@, BL \div 2 + tRTRS),
                          !.nextRead = larger(@, WRITE_TO_READ_DELAY_R)]
         ELSE old]]

\* A mutant: tRRD is forgotten.
AfterActivateAlone(table, p) ==
  [table EXCEPT ![p.rank][p.bank] =
     [@ EXCEPT !.state = "RowActive", !.lastCommand = "ACTIVATE", !.row = p.row,
               !.nextActivate = larger(@, tRC), !.nextPrecharge = larger(@, tRAS),
               !.nextRead = larger(@, tRCD - AL), !.nextWrite = larger(@, tRCD - AL)]]

AfterActivate(table, p) ==
  [table EXCEPT ![p.rank] = [b \in Banks |->
     LET old == table[p.rank][b]
     IN  IF b = p.bank
         THEN [old EXCEPT !.state = "RowActive", !.lastCommand = "ACTIVATE", !.row = p.row,
                          !.nextActivate = larger(@, tRC), !.nextPrecharge = larger(@, tRAS),
                          !.nextRead = larger(@, tRCD - AL), !.nextWrite = larger(@, tRCD - AL)]
         ELSE [old EXCEPT !.nextActivate = larger(@, tRRD)]]]

AfterPrecharge(table, p) ==
  LET old == table[p.rank][p.bank]
  IN  [table EXCEPT ![p.rank][p.bank] =
         [old EXCEPT !.state = "Precharging", !.lastCommand = "PRECHARGE", !.countdown = tRP,
                     !.nextActivate = larger(@, tRP)]]

AfterRefresh(table, p) ==
  [table EXCEPT ![p.rank] = [b \in Banks |->
     [table[p.rank][b] EXCEPT !.state = "Refreshing", !.lastCommand = "REFRESH",
                              !.countdown = tRFC, !.nextActivate = tRFC]]]

AfterCommand(table, p) ==
  CASE IsRead(p) -> AfterRead(table, p)
    [] IsWrite(p) -> AfterWrite(table, p)
    [] p.type = "ACTIVATE" -> AfterActivate(table, p)
    [] p.type = "PRECHARGE" -> AfterPrecharge(table, p)
    [] p.type = "REFRESH" -> AfterRefresh(table, p)

IssueCommand(s) ==
  LET popped == pop(ini, s.queue, s.bank)
      p == popped.packet
      data == [packet |-> [p EXCEPT !.type = "DATA"], countdown |-> WL]
  IN  IF p = NoPacket THEN [s EXCEPT !.queue = popped.queue]
      ELSE [Check(s, s.mc.cmd = NoPacket, "Command Bus Collision")
              EXCEPT !.queue = popped.queue, !.bank = AfterCommand(@, p),
                     !.mc = [s.mc EXCEPT !.cmd = p, !.cmdCyclesLeft = tCMD,
                                         !.writeData = IF IsWrite(p) THEN Append(@, data)
                                                                     ELSE @]]

\* Transaction::getBusPacketType
getBusPacketType(t) ==
  IF ini.rowBufferPolicy = "ClosePage"
  THEN IF t.write THEN "WRITE_P" ELSE "READ_P"
  ELSE IF t.write THEN "WRITE" ELSE "READ"

\* The first transaction that finds room becomes an activate and an access.
ScheduleTransaction(s) ==
  LET trans == s.mc.transactionQueue
      fits == {i \in DOMAIN trans :
                 LET at == addressMapping(trans[i].addr)
                 IN  hasRoomFor(ini, s.queue, 2, at.rank, at.bank)}
      t == trans[Min(fits)]
  IN  IF fits = {} THEN s
      ELSE [s EXCEPT
              !.mc = [s.mc EXCEPT !.transactionQueue = RemoveAt(@, Min(fits)),
                                  !.pendingReads = IF t.write THEN @ ELSE Append(@, t)],
              !.queue = enqueue(ini, enqueue(ini, @, BusPacket("ACTIVATE", t)),
                                BusPacket(getBusPacketType(t), t))]

\* Power down an idle rank, power up one that has something to do.
Power(s) ==
  LET idle(r) == /\ isEmpty(s.queue, r) /\ ~s.ranks[r].refreshWaiting
      down == {r \in Ranks : idle(r) /\ \A b \in Banks : s.bank[r][b].state = "Idle"}
      up == {r \in Ranks : ~idle(r) /\ s.mc.powerDown[r] /\ s.bank[r][0].nextPowerUp = 0}
      ok == /\ \A r \in down : MayPowerDown(s.ranks[r])
            /\ \A r \in up : MayPowerUp(s.ranks[r])
  IN  [Check(s, ok, "Trying to power a rank down or up when not allowed") EXCEPT
         !.mc.powerDown = [r \in Ranks |-> (s.mc.powerDown[r] \/ r \in down) /\ r \notin up],
         !.ranks = [r \in Ranks |-> IF r \in down THEN RankPowerDown(s.ranks[r])
                                    ELSE IF r \in up THEN RankPowerUp(s.ranks[r])
                                    ELSE s.ranks[r]],
         !.bank = [r \in Ranks |-> [b \in Banks |->
                     IF r \in down THEN BankPowerDown(s.bank[r][b])
                     ELSE IF r \in up THEN BankPowerUp(s.bank[r][b]) ELSE s.bank[r][b]]]]

\* A mutant: it goes to the last read that waits.
ReturnReadLast(s) ==
  LET p == Head(s.mc.returns)
      match == {i \in DOMAIN s.mc.pendingReads : s.mc.pendingReads[i].addr = p.addr}
      t == s.mc.pendingReads[Max(match)]
  IN  IF s.mc.returns = <<>> THEN s
      ELSE [s EXCEPT !.mc.returns = Tail(@),
                     !.mc.pendingReads = RemoveAt(@, Max(match)),
                     !.done = @ \cup {t.id},
                     !.stale = IF t.expect = p.data THEN @ ELSE @ \cup {t.id}]

\* One packet of read data per cycle goes back to the first read that waits
\* for its address.
ReturnRead(s) ==
  LET p == Head(s.mc.returns)
      match == {i \in DOMAIN s.mc.pendingReads : s.mc.pendingReads[i].addr = p.addr}
      t == s.mc.pendingReads[Min(match)]
  IN  IF s.mc.returns = <<>> THEN s
      ELSE IF match = {} THEN Fail(s, "Can't find a matching transaction")
      ELSE [s EXCEPT !.mc = [s.mc EXCEPT !.returns = Tail(@),
                                         !.pendingReads = RemoveAt(@, Min(match))],
                     !.done = @ \cup {t.id},
                     !.stale = IF t.expect = p.data THEN @ ELSE @ \cup {t.id}]

\* The refresh counters and the clocks of all objects.
StepClocks(s) ==
  [s EXCEPT !.mc.refreshCountdown = [r \in Ranks |-> @[r] - 1],
            !.bank = [r \in Ranks |-> [b \in Banks |-> step(@[r][b])]],
            !.ranks = [r \in Ranks |-> RankStep(@[r])]]

ControllerUpdate(s) ==
  ReturnRead(Power(ScheduleTransaction(IssueCommand(RefreshDue(
    SendWriteData(DataBus(CommandBus(CountdownBanks(s)))))))))

\* MemorySystem::update(): the ranks, whose data the controller receives in
\* the order of the ranks, a transaction that has been waiting, the controller.
UpdateRanks(s) ==
  LET all == [i \in 1..NUM_RANKS |-> RankReturns(s.ranks[i - 1])]
  IN  [s EXCEPT !.ranks = [r \in Ranks |-> RankUpdate(@[r])],
                !.mc.returns = @ \o FlattenSeq(all)]

\* A mutant: off by one in the room that a waiting transaction needs.
MovePendingStrict(s) ==
  IF s.pending # <<>> /\ Len(s.mc.transactionQueue) + 1 < TRANS_QUEUE_DEPTH
  THEN [addTransaction(s, Head(s.pending)) EXCEPT !.pending = Tail(@)] ELSE s

MovePending(s) ==
  IF s.pending # <<>> /\ WillAcceptTransaction(s)
  THEN [addTransaction(s, Head(s.pending)) EXCEPT !.pending = Tail(@)] ELSE s

update(s) == StepClocks(ControllerUpdate(MovePending(UpdateRanks(s))))

-----------------------------------------------------------------------------
(* The clients *)

Becomes(s) ==
  /\ bankStates' = s.bank /\ queue' = s.queue /\ ranks' = s.ranks /\ mc' = s.mc
  /\ pendingTransactions' = s.pending /\ accepted' = s.accepted /\ storage' = s.store
  /\ answered' = s.done /\ stale' = s.stale /\ error' = s.error

\* The transaction t is offered to the controller, and the cycle passes.
OfferAndUpdate(t) ==
  /\ Becomes(update(addTransaction(State, t)))
  /\ line' = IF WillAcceptTransaction(State) THEN NoLine ELSE [t EXCEPT !.wait = 0]

WaitAndUpdate(t) == Becomes(update(State)) /\ line' = t

Transaction(w, a, gap) ==
  [id |-> count + 1, write |-> w, addr |-> a, wait |-> gap, expect |-> 0]

CyclePasses == waited' = IF answered' = 1..count' THEN 0 ELSE waited + 1

\* TraceBasedSim: a line of the trace is read when none waits.
ReadLine ==
  /\ ini.client = "trace" /\ error = "none" /\ line = NoLine /\ count < ini.transactions
  /\ \E w \in BOOLEAN, a \in ini.addresses, gap \in Gaps :
       IF gap = 0 THEN OfferAndUpdate(Transaction(w, a, 0))
                  ELSE WaitAndUpdate(Transaction(w, a, gap))
  /\ count' = count + 1 /\ CyclePasses
  /\ UNCHANGED ini

\* TraceBasedSim: the line that waits is due, or not yet.
RetryLine ==
  /\ ini.client = "trace" /\ error = "none" /\ line # NoLine
  /\ IF line.wait <= 1 THEN OfferAndUpdate(line)
                       ELSE WaitAndUpdate([line EXCEPT !.wait = @ - 1])
  /\ UNCHANGED <<ini, count>> /\ CyclePasses

\* TraceBasedSim: the trace has ended, and the loop has not.
EndOfTrace ==
  /\ ini.client = "trace" /\ error = "none" /\ line = NoLine /\ count = ini.transactions
  /\ WaitAndUpdate(NoLine)
  /\ UNCHANGED <<ini, count>> /\ CyclePasses

\* MemorySystem::addTransaction(isWrite, addr).
Hand(w, a) ==
  IF WillAcceptTransaction(State)
  THEN Becomes(addTransaction(State, Transaction(w, a, 0)))
  ELSE Becomes([State EXCEPT !.pending = Append(@, Transaction(w, a, 0))])

\* spike, the test in main(): its next call, then its loop of calls of
\* update(), of which line.wait are to come.
TestCall ==
  /\ ini.client = "spike" /\ error = "none" /\ line.wait = 0 /\ count < Len(ini.test)
  /\ Hand(ini.test[count + 1].write, ini.test[count + 1].addr)
  /\ line' = [line EXCEPT !.wait = ini.test[count + 1].updates]
  /\ count' = count + 1
  /\ UNCHANGED <<ini, waited>>

TestUpdate ==
  /\ ini.client = "spike" /\ error = "none" /\ line.wait > 0
  /\ WaitAndUpdate([line EXCEPT !.wait = @ - 1])
  /\ UNCHANGED <<ini, count>> /\ CyclePasses

\* spike: dram_sim_t::access, once the simulation runs.
access ==
  /\ ini.client = "spike" /\ error = "none" /\ line.wait = 0
  /\ count >= Len(ini.test) /\ count < ini.transactions
  /\ \E w \in BOOLEAN, a \in ini.addresses : Hand(w, a)
  /\ count' = count + 1
  /\ UNCHANGED <<ini, line, waited>>

Next == ReadLine \/ RetryLine \/ EndOfTrace \/ TestCall \/ TestUpdate \/ access

Spec == Init /\ [][Next]_vars

-----------------------------------------------------------------------------
(* Properties *)

TypeOK ==
  /\ ini \in Policies
  /\ count \in 0..MaxTrans
  /\ line \in [id : 0..count, write : BOOLEAN, addr : Nat, wait : Nat, expect : Nat]
  /\ queue \in Queue
  /\ bankStates \in [Ranks -> [Banks -> Bank]]
  /\ \A r \in Ranks : ranks[r].bankStates \in [Banks -> Bank]

\* The exits that are not about commands.
OtherErrors == {"none", "Data Bus Collision", "Can't find a matching transaction"}

\* The state is well formed, no command reaches a rank that is not ready for
\* it, none meets another one on the command bus, and no rank is powered down
\* or up that may not: the ERROR exits of Rank.cpp, and the one of
\* MemoryController.cpp for the command bus.
CommandsInTime == TypeOK /\ error \in OtherErrors

\* Only one of controller and ranks drives the data bus.  The code checks it
\* for two packets of the controller alone ("Data Bus Collision"): the delays
\* between commands have to see to it.
DataBusExclusive ==
  LET reads == {r \in Ranks : ranks[r].outgoingDataPacket # NoPacket}
  IN  /\ Cardinality(reads) <= 1
      /\ reads = {} \/ mc.data = NoPacket
      /\ error # "Data Bus Collision"

\* A read returns what the last write that the controller accepted before it
\* has written, whatever the command queue did in between; what comes back
\* always finds the read that waits for it, and only what a client has handed
\* over is completed.
ReadsSeeLastWrite ==
  /\ stale = {}
  /\ error # "Can't find a matching transaction"
  /\ answered \subseteq 1..count

\* A refresh that waits is sent before the next rank's one takes its place, and
\* no rank's counter passes zero, though only one rank's is looked at.
RefreshKept ==
  [][/\ queue.refreshWaiting /\ queue'.refreshWaiting
          => queue'.refreshRank = queue.refreshRank
     /\ \A r \in Ranks : mc'.refreshCountdown[r] \in 0..RefreshCycles]_vars

\* No transaction starves while the client lets cycles pass: however reads,
\* writes, refreshes and power-downs meet, all of them are completed after at
\* most Patience cycles.  (After its test spike calls update() no more, and what
\* it hands over then waits for ever.)
AllServed == waited <= Patience

-----------------------------------------------------------------------------
(* The inductive invariant behind the checks of Rank.cpp: the table of the   *)
(* controller never promises more than the rank will have when the command   *)
(* arrives, a cycle later.                                                   *)

\* The banks of rank r once the command on the bus has arrived.
Arrived(s, r) ==
  IF s.mc.cmd # NoPacket /\ s.mc.cmd.rank = r
  THEN ReceivedBanks(s.ranks[r].bankStates, s.mc.cmd) ELSE s.ranks[r].bankStates

\* An open row, of which the rank may want one cycle more.
Open(c, k) ==
  /\ k.state = "RowActive" /\ k.row = c.row /\ c.countdown = 0
  /\ k.nextRead <= c.nextRead + 1 /\ k.nextWrite <= c.nextWrite + 1
  /\ k.nextPrecharge <= c.nextPrecharge + 1

\* A row that closes by itself: the rank has closed it at once, and the
\* controller does not use it until it is closed there too.
Closing(c, k, d) ==
  /\ k.state = "Idle" /\ ini.rowBufferPolicy = "ClosePage"
  /\ c.lastCommand \in {"READ_P", "WRITE_P"} /\ c.countdown > 0
  /\ c.countdown <= c.nextRead + d /\ c.countdown <= c.nextWrite + d

\* Bank c of the controller's table covers bank k of the rank.  d is 1 between
\* two cycles and 0 when the controller has counted down.
Covers(c, k, d) ==
  /\ c \in Bank /\ k \in Bank
  /\ k.nextActivate <= c.nextActivate + 1
  /\ c.state \in {"Idle", "Precharging", "Refreshing"} => k.state = "Idle"
  /\ c.state = "PowerDown" => k.state = "PowerDown"
  /\ c.state = "RowActive" => Open(c, k) \/ Closing(c, k, d)
  /\ c.state \in {"Idle", "PowerDown"} => c.countdown = 0
  /\ c.state = "Precharging" => c.lastCommand = "PRECHARGE" /\ c.countdown > 0
  /\ c.state = "Refreshing" => /\ c.lastCommand = "REFRESH" /\ c.countdown > 0
                               /\ c.countdown <= c.nextActivate + d

\* A rank is powered down as a whole, and both sides know when it may come back.
RankCovered(table, banks, down, isDown, d) ==
  /\ down \in BOOLEAN /\ isDown = down
  /\ \A b \in Banks : /\ Covers(table[b], banks[b], d)
                      /\ table[b].state = "PowerDown" <=> down
                      /\ down => banks[b].nextPowerUp = table[0].nextPowerUp

Transactions == [id : Nat, write : BOOLEAN, addr : Addresses, wait : Nat, expect : Nat]

\* The commands that a page policy makes of transactions.
Queued == IF ini.rowBufferPolicy = "ClosePage" THEN {"ACTIVATE", "READ_P", "WRITE_P"}
                                              ELSE {"ACTIVATE", "READ", "WRITE"}

QueuePackets(r) == {p \in Packet : p.rank = r /\ p.type \in Queued}

QueueOK(q) ==
  /\ q \in Queue
  /\ q.refreshWaiting => q.refreshRank \in Ranks
  /\ \A r \in Ranks, b \in Banks : q.queues[r][b] \in Seq(QueuePackets(r))

\* The fields of a rank, of the controller and of the state.
IsRank(rank) ==
  /\ rank = [bankStates |-> rank.bankStates, refreshWaiting |-> rank.refreshWaiting,
             isPowerDown |-> rank.isPowerDown,
             outgoingDataPacket |-> rank.outgoingDataPacket,
             dataCyclesLeft |-> rank.dataCyclesLeft, readReturn |-> rank.readReturn]
  /\ rank.bankStates \in [Banks -> Bank]

IsController(m) ==
  /\ m = [transactionQueue |-> m.transactionQueue, pendingReads |-> m.pendingReads,
          returns |-> m.returns, cmd |-> m.cmd, cmdCyclesLeft |-> m.cmdCyclesLeft,
          data |-> m.data, dataCyclesLeft |-> m.dataCyclesLeft, writeData |-> m.writeData,
          refreshRank |-> m.refreshRank, refreshCountdown |-> m.refreshCountdown,
          powerDown |-> m.powerDown]
  /\ m.powerDown \in [Ranks -> BOOLEAN]

IsState(s) ==
  /\ s = [bank |-> s.bank, queue |-> s.queue, ranks |-> s.ranks, mc |-> s.mc,
          pending |-> s.pending, accepted |-> s.accepted, store |-> s.store,
          done |-> s.done, stale |-> s.stale, error |-> s.error]
  /\ s.bank \in [Ranks -> [Banks -> Bank]]
  /\ DOMAIN s.ranks = Ranks /\ \A r \in Ranks : IsRank(s.ranks[r])
  /\ IsController(s.mc)

\* The data of a write.
DataPacket == [type : {"DATA"}, addr : Nat, rank : Ranks, bank : Banks, row : Rows,
               id : Nat, data : Nat]

\* The parts that are not about banks.
Typed(s) ==
  /\ s.mc.transactionQueue \in Seq(Transactions) /\ s.pending \in Seq(Transactions)
  /\ s.accepted \in [Addresses -> Nat]
  /\ s.mc.refreshRank \in Ranks
  /\ s.mc.data \in DataPacket \cup {NoPacket}
  /\ s.mc.writeData \in Seq([packet : DataPacket, countdown : Int])
  /\ QueueOK(s.queue)

CommandOK(s) ==
  s.mc.cmd # NoPacket =>
    /\ s.mc.cmd \in Packet /\ s.mc.cmdCyclesLeft = 1
    /\ Allowed(s.ranks[s.mc.cmd.rank].bankStates, s.mc.cmd)

IndInv ==
  /\ TypeOK /\ error \in OtherErrors
  /\ ini.client = "trace" /\ line # NoLine => line.addr \in Addresses
  /\ IsState(State) /\ Typed(State) /\ CommandOK(State)
  /\ \A r \in Ranks : RankCovered(bankStates[r], Arrived(State, r), mc.powerDown[r],
                                   ranks[r].isPowerDown, 1)

-----------------------------------------------------------------------------
(* The inductive invariant behind the data bus: the bursts that are on it or  *)
(* on their way to it do not overlap, and the table makes every later one     *)
(* wait until the last of them has ended.                                     *)

\* The cycles of a burst.
Half == BL \div 2

\* The parts under ini/ have it, and without it the delays do not suffice.
ASSUME BusAssumption == RL >= 2 /\ tRTRS >= 1 /\ tRCD - AL >= Half + 1

\* Who puts bursts on the data bus: the ranks, and the controller.
Lanes == 0..NUM_RANKS

Lane(s, i) ==
  IF i = NUM_RANKS
  THEN [out |-> s.mc.data, left |-> s.mc.dataCyclesLeft, waiting |-> s.mc.writeData]
  ELSE [out |-> s.ranks[i].outgoingDataPacket, left |-> s.ranks[i].dataCyclesLeft,
        waiting |-> s.ranks[i].readReturn]

\* The cycles until the bursts of a lane start, or have started.
Starts(l) == {l.waiting[i].countdown : i \in DOMAIN l.waiting}
               \cup IF l.out = NoPacket THEN {} ELSE {l.left - Half}

IsLane(l) ==
  /\ Len(l.waiting) \in Nat
  /\ l.waiting = [i \in 1..Len(l.waiting) |-> [packet |-> l.waiting[i].packet,
                                               countdown |-> l.waiting[i].countdown]]
  /\ \A i \in 1..Len(l.waiting) : l.waiting[i].countdown \in Nat \ {0}
  /\ l.out # NoPacket => l.left \in 1..Half

\* The bursts of one lane follow each other.
LaneOK(l) ==
  /\ IsLane(l)
  /\ \A i, j \in DOMAIN l.waiting :
       i < j => l.waiting[i].countdown + Half <= l.waiting[j].countdown
  /\ l.out # NoPacket => \A i \in DOMAIN l.waiting : l.left <= l.waiting[i].countdown

\* The bursts of two lanes do not overlap.
Apart(l, m) == \A x \in Starts(l), y \in Starts(m) : x + Half <= y \/ y + Half <= x

\* All bursts have ended after n cycles; a read on the command bus counts, too.
EndBy(s, n) == \A i \in Lanes : \A x \in Starts(Lane(s, i)) : x + Half <= n
AllEndBy(s, n) == EndBy(s, n) /\ (IsRead(s.mc.cmd) => RL + 1 + Half <= n)

\* d is 1 between two cycles and 0 when the bursts have moved on.
BusFree(s, d) ==
  /\ s.error # "Data Bus Collision"
  /\ \A i \in Lanes : LaneOK(Lane(s, i))
  /\ \A i, j \in Lanes : i # j => Apart(Lane(s, i), Lane(s, j))
  /\ EndBy(s, RL + Half)
  /\ IsRead(s.mc.cmd) => EndBy(s, RL + 1)
  /\ \A r \in Ranks, b \in Banks :
       LET c == s.bank[r][b]
       IN  c.state = "RowActive" /\ c.countdown = 0
             => AllEndBy(s, c.nextRead + RL + 1 + d) /\ AllEndBy(s, c.nextWrite + WL + d)

BusInv == BusFree(State, 1)
=============================================================================
