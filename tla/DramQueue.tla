------------------------------ MODULE DramQueue ------------------------------
(***************************************************************************)
(* CommandQueue.cpp: which command goes out in this cycle.  A queue is a   *)
(* record q, the table of banks the controller keeps is bankStates[r][b],  *)
(* and ini holds the three policies of system.ini.  pop() returns the      *)
(* queue it leaves and the command, or NoPacket.                           *)
(***************************************************************************)
EXTENDS DramDevice, SequencesExt

NewQueue == [queues |-> [r \in Ranks |-> [b \in Banks |-> <<>>]],
             nextRank |-> 0, nextBank |-> 0, nextRankPRE |-> 0, nextBankPRE |-> 0,
             refreshRank |-> 0, refreshWaiting |-> FALSE, sendAct |-> TRUE,
             tFAWCountdown |-> [r \in Ranks |-> <<>>],
             rowAccessCounters |-> [r \in Ranks |-> [b \in Banks |-> 0]]]

Queue == [queues : [Ranks -> [Banks -> Seq(Packet)]],
          nextRank : Ranks, nextBank : Banks, nextRankPRE : Ranks, nextBankPRE : Banks,
          refreshRank : Ranks \cup {-1}, refreshWaiting : BOOLEAN, sendAct : BOOLEAN,
          tFAWCountdown : [Ranks -> Seq(Int)],
          rowAccessCounters : [Ranks -> [Banks -> Nat]]]

\* getCommandQueue: one queue per rank, or one per rank and bank.
QueueIndex(ini, b) == IF ini.queuingStructure = "PerRank" THEN 0 ELSE b
getCommandQueue(ini, q, r, b) == q.queues[r][QueueIndex(ini, b)]

hasRoomFor(ini, q, n, r, b) ==
  CMD_QUEUE_DEPTH - Len(getCommandQueue(ini, q, r, b)) >= n

enqueue(ini, q, p) ==
  [q EXCEPT !.queues[p.rank][QueueIndex(ini, p.bank)] = Append(@, p)]

Erase(ini, q, r, b, i) ==
  [q EXCEPT !.queues[r][QueueIndex(ini, b)] = RemoveAt(@, i)]

isEmpty(q, r) == \A b \in Banks : q.queues[r][b] = <<>>

needRefresh(q, r) == [q EXCEPT !.refreshWaiting = TRUE, !.refreshRank = r]

\* nextRankAndBank, as positions on a circle of all ranks and banks.
PlaceOf(ini, r, b) ==
  IF ini.schedulingPolicy = "RankThenBankRoundRobin"
  THEN b * NUM_RANKS + r ELSE r * NUM_BANKS + b
RankAt(ini, n) ==
  IF ini.schedulingPolicy = "RankThenBankRoundRobin"
  THEN n % NUM_RANKS ELSE n \div NUM_BANKS
BankAt(ini, n) ==
  IF ini.schedulingPolicy = "RankThenBankRoundRobin"
  THEN n \div NUM_RANKS ELSE n % NUM_BANKS
Places == NUM_RANKS * NUM_BANKS
nextRankAndBank(ini, r, b) ==
  LET n == (PlaceOf(ini, r, b) + 1) % Places
  IN  [rank |-> RankAt(ini, n), bank |-> BankAt(ini, n)]

isIssuable(q, bankStates, p) ==
  LET b == bankStates[p.rank][p.bank]
      open == /\ b.state = "RowActive" /\ b.row = p.row
              /\ q.rowAccessCounters[p.rank][p.bank] < TOTAL_ROW_ACCESSES
  IN  CASE p.type = "ACTIVATE" -> /\ b.state \in {"Idle", "Refreshing"}
                                  /\ b.nextActivate = 0
                                  /\ Len(q.tFAWCountdown[p.rank]) < 4
        [] IsWrite(p) -> open /\ b.nextWrite = 0
        [] IsRead(p) -> open /\ b.nextRead = 0

-----------------------------------------------------------------------------
(* What pop() tries, in its order.  A try is [packet, queue]. *)

Nothing(q) == [packet |-> NoPacket, queue |-> q]

\* The four-activate window moves on.
StepWindow(q) ==
  [q EXCEPT !.tFAWCountdown = [r \in Ranks |->
     LET left == [i \in DOMAIN @[r] |-> @[r][i] - 1]
     IN  IF left # <<>> /\ Head(left) = 0 THEN Tail(left) ELSE left]]

\* A precharge of the open bank b of rank r.
SendPRE(q, r, b) ==
  [packet |-> OwnPacket("PRECHARGE", r, b),
   queue |-> [q EXCEPT !.rowAccessCounters[r][b] = 0]]

\* A rank waits for its refresh: finish the open row of the first bank that
\* is not ready, close it (open page), or send the refresh.
TryRefresh(ini, q, bankStates) ==
  LET r == q.refreshRank
      busy == {b \in Banks : \/ bankStates[r][b].state = "RowActive"
                             \/ bankStates[r][b].nextActivate > 0}
      b == Min(busy)
      queue == getCommandQueue(ini, q, r, b)
      same == {j \in DOMAIN queue : queue[j].bank = b /\ queue[j].row = bankStates[r][b].row}
      column == same # {} /\ queue[Min(same)].type # "ACTIVATE"
  IN  IF ~q.refreshWaiting THEN Nothing(q)
      ELSE IF busy = {}
      THEN IF bankStates[r][0].state = "PowerDown" THEN Nothing(q)
           ELSE [packet |-> OwnPacket("REFRESH", r, 0),
                 queue |-> [q EXCEPT !.refreshRank = -1, !.refreshWaiting = FALSE]]
      ELSE IF bankStates[r][b].state # "RowActive" THEN Nothing(q)
      ELSE IF column
      THEN IF isIssuable(q, bankStates, queue[Min(same)])
           THEN [packet |-> queue[Min(same)], queue |-> Erase(ini, q, r, b, Min(same))]
           ELSE Nothing(q)
      ELSE IF ini.rowBufferPolicy = "OpenPage" /\ bankStates[r][b].nextPrecharge = 0
      THEN SendPRE(q, r, b)
      ELSE Nothing(q)

\* Which entries of a queue may go out, apart from isIssuable: in close page
\* a column access never leaves its activate behind, in open page nothing
\* overtakes an access to the same row.
MayLeave(ini, queue, i) ==
  IF ini.rowBufferPolicy = "OpenPage"
  THEN \A j \in 1..(i - 1) : \/ queue[j].type = "ACTIVATE"
                             \/ queue[j].bank # queue[i].bank
                             \/ queue[j].row # queue[i].row
  ELSE IF ini.queuingStructure = "PerRank"
  THEN ~(i > 1 /\ queue[i - 1].type = "ACTIVATE" /\ queue[i - 1].addr = queue[i].addr)
  ELSE i = 1

\* The entries that can go out of the queue for rank r and bank b.
Ready(ini, q, bankStates, r, b) ==
  LET queue == getCommandQueue(ini, q, r, b)
  IN  IF q.refreshWaiting /\ r = q.refreshRank THEN {}
      ELSE {i \in DOMAIN queue : /\ isIssuable(q, bankStates, queue[i])
                                 /\ MayLeave(ini, queue, i)}

\* In open page the activate of an access that finds its row open goes too.
Take(ini, q, r, b, i) ==
  LET queue == getCommandQueue(ini, q, r, b)
      p == queue[i]
      hit == ini.rowBufferPolicy = "OpenPage" /\ i > 1 /\ queue[i - 1].type = "ACTIVATE"
      rest == Erase(ini, q, r, b, i)
  IN  [packet |-> p,
       queue |-> [IF hit THEN [Erase(ini, rest, r, b, i - 1)
                                 EXCEPT !.rowAccessCounters[p.rank][p.bank] = @ + 1]
                         ELSE rest
                  EXCEPT !.nextRank = r, !.nextBank = b]]

\* The round robin over the queues, from nextRank and nextBank.
TryIssue(ini, q, bankStates) ==
  LET start == PlaceOf(ini, q.nextRank, q.nextBank)
      rank(k) == IF ini.queuingStructure = "PerRank" THEN (q.nextRank + k) % NUM_RANKS
                 ELSE RankAt(ini, (start + k) % Places)
      bank(k) == IF ini.queuingStructure = "PerRank" THEN q.nextBank
                 ELSE BankAt(ini, (start + k) % Places)
      turns == 0..((IF ini.queuingStructure = "PerRank" THEN NUM_RANKS ELSE Places) - 1)
      found == {k \in turns : Ready(ini, q, bankStates, rank(k), bank(k)) # {}}
      k == Min(found)
  IN  IF found = {} THEN Nothing(q)
      ELSE Take(ini, q, rank(k), bank(k), Min(Ready(ini, q, bankStates, rank(k), bank(k))))

\* Open page, nothing to issue: close a row nothing waits for, or one that
\* has been used long enough.
TryClose(ini, q, bankStates) ==
  LET start == PlaceOf(ini, q.nextRankPRE, q.nextBankPRE)
      rank(k) == RankAt(ini, (start + k) % Places)
      bank(k) == BankAt(ini, (start + k) % Places)
      wanted(r, b) == \E i \in DOMAIN getCommandQueue(ini, q, r, b) :
                        LET p == getCommandQueue(ini, q, r, b)[i]
                        IN  p.bank = b /\ p.row = bankStates[r][b].row
      closable == {k \in 0..(Places - 1) :
                     LET b == bankStates[rank(k)][bank(k)]
                     IN  /\ b.state = "RowActive" /\ b.nextPrecharge = 0
                         /\ \/ ~wanted(rank(k), bank(k))
                            \/ q.rowAccessCounters[rank(k)][bank(k)] = TOTAL_ROW_ACCESSES}
      k == Min(closable)
  IN  IF closable = {} \/ ini.rowBufferPolicy = "ClosePage" THEN Nothing(q)
      ELSE SendPRE([q EXCEPT !.nextRankPRE = rank(k), !.nextBankPRE = bank(k)],
                   rank(k), bank(k))

\* After a command: posted CAS, the round robin, and the window.
Sent(ini, try) ==
  LET q == try.queue
      next == nextRankAndBank(ini, q.nextRank, q.nextBank)
      posted == AL > 0 /\ q.sendAct
      moved == IF posted THEN [q EXCEPT !.sendAct = FALSE]
               ELSE [q EXCEPT !.sendAct = TRUE, !.nextRank = next.rank, !.nextBank = next.bank]
  IN  [try EXCEPT !.queue =
         IF try.packet.type = "ACTIVATE"
         THEN [moved EXCEPT !.tFAWCountdown[try.packet.rank] = Append(@, tFAW)]
         ELSE moved]

pop(ini, queue, bankStates) ==
  LET q == StepWindow(queue)
      refresh == TryRefresh(ini, q, bankStates)
      issue == TryIssue(ini, q, bankStates)
      close == TryClose(ini, q, bankStates)
  IN  IF refresh.packet # NoPacket THEN Sent(ini, refresh)
      ELSE IF issue.packet # NoPacket THEN Sent(ini, issue)
      ELSE IF close.packet # NoPacket THEN Sent(ini, close)
      ELSE Nothing(q)
=============================================================================
