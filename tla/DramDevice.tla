----------------------------- MODULE DramDevice -----------------------------
(***************************************************************************)
(* The parts of DRAMSim2 that the command queue and the controller share:  *)
(* the timing parameters of an ini file and the delays made of them, the   *)
(* mapping of addresses, the state of a bank (BankState.h, which controller *)
(* and rank each keep a copy of) and the rank (Rank.cpp, Bank.cpp).        *)
(*                                                                         *)
(* Times are kept as the cycles that are left, so nextRead = 0 stands for  *)
(* currentClockCycle >= nextRead: the clocks of rank, queue and controller *)
(* always agree, and a time that has passed plays no part any more.        *)
(***************************************************************************)
EXTENDS Integers, Sequences, FiniteSetsExt

CONSTANTS NUM_CHANS, NUM_RANKS, NUM_BANKS, NUM_ROWS, NUM_COLS,
          CL, AL, BL, tRAS, tRCD, tRRD, tRC, tRP, tCCD, tRTP, tWTR, tWR,
          tRTRS, tRFC, tFAW, tCKE, tXP, tCMD,
          RefreshCycles,          \* REFRESH_PERIOD / tCK
          TRANS_QUEUE_DEPTH, CMD_QUEUE_DEPTH, TOTAL_ROW_ACCESSES,
          addressMappingScheme    \* 1..7

Ranks == 0..(NUM_RANKS - 1)
Banks == 0..(NUM_BANKS - 1)
Rows == 0..(NUM_ROWS - 1)

larger(a, b) == IF a >= b THEN a ELSE b

RL == CL + AL
WL == RL - 1
READ_TO_PRE_DELAY == AL + BL \div 2 + larger(tRTP, tCCD) - tCCD
WRITE_TO_PRE_DELAY == WL + BL \div 2 + tWR
READ_TO_WRITE_DELAY == RL + BL \div 2 + tRTRS - WL
READ_AUTOPRE_DELAY == AL + tRTP + tRP
WRITE_AUTOPRE_DELAY == WL + BL \div 2 + tWR + tRP
WRITE_TO_READ_DELAY_B == WL + BL \div 2 + tWTR            \* same rank
WRITE_TO_READ_DELAY_R == WL + BL \div 2 + tRTRS - RL      \* another rank
BurstGap == larger(tCCD, BL \div 2)

\* What the parts under DRAMSim2's ini/ have in common.
ASSUME TimingAssumption ==
  /\ NUM_RANKS \in Nat \ {0} /\ NUM_BANKS \in Nat \ {0} /\ NUM_ROWS \in Nat \ {0}
  /\ CL \in Nat \ {0} /\ AL \in Nat /\ BL \in Nat \ (0..1)
  /\ tRAS \in Nat /\ tRCD \in Nat /\ tRRD \in Nat /\ tRC \in Nat /\ tRP \in Nat \ {0}
  /\ tCCD \in Nat /\ tRTP \in Nat /\ tWTR \in Nat /\ tWR \in Nat /\ tRTRS \in Nat
  /\ tRFC \in Nat \ {0} /\ tFAW \in Nat /\ tCKE \in Nat /\ tXP \in Nat /\ tCMD = 1
  /\ AL <= tRCD /\ READ_TO_PRE_DELAY <= READ_AUTOPRE_DELAY

\* The fields of an address, lowest bits first, in each scheme.  The bits
\* below them (byte offset and low column bits) are gone already.
Scheme1 == <<"bank", "col", "row", "rank", "chan">>
Scheme2 == <<"rank", "bank", "col", "row", "chan">>
Scheme3 == <<"row", "col", "bank", "rank", "chan">>
Scheme4 == <<"col", "row", "bank", "rank", "chan">>
Scheme5 == <<"bank", "rank", "col", "row", "chan">>
Scheme6 == <<"col", "rank", "bank", "row", "chan">>
Scheme7 == <<"chan", "bank", "rank", "col", "row">>
Schemes == <<Scheme1, Scheme2, Scheme3, Scheme4, Scheme5, Scheme6, Scheme7>>

\* The bits that are enough for value things, rounded up.
dramsim_log2(value) == CHOOSE n \in 0..value : 2^n >= value /\ \A m \in 0..(n - 1) : 2^m < value

\* The values that a field of so many bits has.
FieldSize ==
  LET values(count) == 2^dramsim_log2(count)
  IN  [chan |-> values(NUM_CHANS), rank |-> values(NUM_RANKS), bank |-> values(NUM_BANKS),
       row |-> values(NUM_ROWS), col |-> values(NUM_COLS)]

\* What is shifted out before field i of the scheme is taken.
SizeBelow(order) ==
  LET below[i \in 1..Len(order)] ==
        IF i = 1 THEN 1 ELSE below[i - 1] * FieldSize[order[i - 1]]
  IN  below

addressMapping(addr) ==
  LET order == Schemes[addressMappingScheme]
      place(f) == CHOOSE i \in DOMAIN order : order[i] = f
      field(f) == (addr \div SizeBelow(order)[place(f)]) % FieldSize[f]
  IN  [f \in DOMAIN FieldSize |-> field(f)]

-----------------------------------------------------------------------------
(* Bus packets.  id names the transaction a packet was made for. *)

NoPacket == [type |-> "none", addr |-> 0, rank |-> 0, bank |-> 0, row |-> 0,
             id |-> 0, data |-> 0]

Commands == {"READ", "READ_P", "WRITE", "WRITE_P", "ACTIVATE", "PRECHARGE", "REFRESH"}

\* A command for a bank, or for a rank.
Packet == [type : Commands, addr : Nat, rank : Ranks, bank : Banks, row : Rows,
           id : Nat, data : Nat]

BusPacket(type, trans) ==
  LET at == addressMapping(trans.addr)
  IN  [type |-> type, addr |-> trans.addr, rank |-> at.rank, bank |-> at.bank,
       row |-> at.row, id |-> trans.id, data |-> trans.id]

\* A command of the controller's own: REFRESH and PRECHARGE.
OwnPacket(type, r, b) == [NoPacket EXCEPT !.type = type, !.rank = r, !.bank = b]

IsRead(p) == p.type \in {"READ", "READ_P"}
IsWrite(p) == p.type \in {"WRITE", "WRITE_P"}

-----------------------------------------------------------------------------
(* BankState *)

Bank == [state : {"Idle", "RowActive", "Precharging", "Refreshing", "PowerDown"},
         row : Rows, nextRead : Nat, nextWrite : Nat, nextActivate : Nat,
         nextPrecharge : Nat, nextPowerUp : Nat, lastCommand : Commands,
         countdown : Nat]

NewBankState == [state |-> "Idle", row |-> 0, nextRead |-> 0, nextWrite |-> 0,
                 nextActivate |-> 0, nextPrecharge |-> 0, nextPowerUp |-> 0,
                 lastCommand |-> "READ", countdown |-> 0]

less1(n) == IF n > 0 THEN n - 1 ELSE 0

\* A cycle passes: SimulatorObject::step() increments currentClockCycle.
step(b) == [b EXCEPT !.nextRead = less1(@), !.nextWrite = less1(@),
                     !.nextActivate = less1(@), !.nextPrecharge = less1(@),
                     !.nextPowerUp = less1(@)]

\* A bank when its rank is powered down or up: the same in both tables.
BankPowerDown(b) == [b EXCEPT !.state = "PowerDown", !.nextPowerUp = tCKE]
BankPowerUp(b) == [b EXCEPT !.state = "Idle", !.nextActivate = tXP]

-----------------------------------------------------------------------------
(* Rank *)

NewRank == [bankStates |-> [b \in Banks |-> NewBankState],
            refreshWaiting |-> FALSE, isPowerDown |-> FALSE,
            outgoingDataPacket |-> NoPacket, dataCyclesLeft |-> 0,
            readReturn |-> <<>>]     \* the packets and their countdowns

\* The checks of receiveFromBus: are the banks of a rank ready for this command?
Allowed(banks, p) ==
  LET b == banks[p.bank]
  IN  CASE IsRead(p) -> b.state = "RowActive" /\ b.nextRead = 0 /\ b.row = p.row
        [] IsWrite(p) -> b.state = "RowActive" /\ b.nextWrite = 0 /\ b.row = p.row
        [] p.type = "ACTIVATE" -> b.state = "Idle" /\ b.nextActivate = 0
        [] p.type = "PRECHARGE" -> b.state = "RowActive" /\ b.nextPrecharge = 0
        [] p.type = "REFRESH" -> \A c \in Banks : banks[c].state = "Idle"
        [] p.type = "DATA" -> TRUE

\* receiveFromBus: what command p does to the rank's bank b, the one it is for
\* or another one.
ReceivedBank(b, here, p) ==
  CASE IsRead(p) ->
         [b EXCEPT !.nextRead = larger(@, BurstGap),
                   !.nextWrite = larger(@, READ_TO_WRITE_DELAY),
                   !.nextPrecharge = IF here /\ p.type = "READ"
                                     THEN larger(@, READ_TO_PRE_DELAY) ELSE @,
                   !.nextActivate = IF here /\ p.type = "READ_P"
                                    THEN larger(@, READ_AUTOPRE_DELAY) ELSE @,
                   !.state = IF here /\ p.type = "READ_P" THEN "Idle" ELSE @]
    [] IsWrite(p) ->
         [b EXCEPT !.nextWrite = larger(@, BurstGap),
                   !.nextRead = larger(@, WRITE_TO_READ_DELAY_B),
                   !.nextPrecharge = IF here /\ p.type = "WRITE"
                                     THEN larger(@, WRITE_TO_PRE_DELAY) ELSE @,
                   !.nextActivate = IF here /\ p.type = "WRITE_P"
                                    THEN larger(@, WRITE_AUTOPRE_DELAY) ELSE @,
                   !.state = IF here /\ p.type = "WRITE_P" THEN "Idle" ELSE @]
    [] p.type = "ACTIVATE" ->
         IF here
         THEN [b EXCEPT !.state = "RowActive", !.row = p.row,
                        !.nextActivate = tRC, !.nextPrecharge = tRAS,
                        !.nextRead = tRCD - AL, !.nextWrite = tRCD - AL]
         ELSE [b EXCEPT !.nextActivate = larger(@, tRRD)]
    [] p.type = "PRECHARGE" ->
         IF here THEN [b EXCEPT !.state = "Idle", !.nextActivate = larger(@, tRP)]
                 ELSE b
    [] p.type = "REFRESH" -> [b EXCEPT !.nextActivate = tRFC]
    [] p.type = "DATA" -> b

\* The rank's own table of its banks after command p.
ReceivedBanks(banks, p) == [b \in Banks |-> ReceivedBank(banks[b], b = p.bank, p)]

\* receiveFromBus.  A read takes the stored value with it (Bank::read).
RankReceives(rank, p, stored) ==
  [rank EXCEPT
     !.bankStates = ReceivedBanks(@, p),
     !.refreshWaiting = @ /\ p.type # "REFRESH",
     !.readReturn = IF IsRead(p)
                    THEN Append(@, [packet |-> [p EXCEPT !.type = "DATA", !.data = stored],
                                    countdown |-> RL])
                    ELSE @]

\* The packet that update() hands to the controller, if its time has come.
RankReturns(rank) ==
  IF rank.outgoingDataPacket # NoPacket /\ rank.dataCyclesLeft = 1
  THEN <<rank.outgoingDataPacket>> ELSE <<>>

RankUpdate(rank) ==
  LET waiting == [i \in DOMAIN rank.readReturn |->
                    [rank.readReturn[i] EXCEPT !.countdown = @ - 1]]
      ready == waiting # <<>> /\ Head(waiting).countdown = 0
      sent == RankReturns(rank) # <<>>
  IN  [rank EXCEPT
         !.outgoingDataPacket = IF ready THEN Head(waiting).packet
                                ELSE IF sent THEN NoPacket ELSE @,
         !.dataCyclesLeft = IF ready THEN BL \div 2 ELSE less1(@),
         !.readReturn = IF ready THEN Tail(waiting) ELSE waiting]

\* powerDown() and powerUp() with their checks.
MayPowerDown(rank) == \A b \in Banks : rank.bankStates[b].state = "Idle"
RankPowerDown(rank) ==
  [rank EXCEPT !.isPowerDown = TRUE, !.bankStates = [b \in Banks |-> BankPowerDown(@[b])]]
MayPowerUp(rank) ==
  rank.isPowerDown /\ \A b \in Banks : rank.bankStates[b].nextPowerUp = 0
RankPowerUp(rank) ==
  [rank EXCEPT !.isPowerDown = FALSE, !.bankStates = [b \in Banks |-> BankPowerUp(@[b])]]

RankStep(rank) == [rank EXCEPT !.bankStates = [b \in Banks |-> step(@[b])]]
=============================================================================
