----------------------------- MODULE Dram_proofs -----------------------------
(* Why no command of the controller reaches a rank that is not ready for it, *)
(* for all timings that satisfy TimingAssumption, any numbers of ranks and   *)
(* banks, all policies and all sequences of transactions.                    *)
EXTENDS Dram, TLAPS, SequenceTheorems, WellFoundedInduction

-----------------------------------------------------------------------------
(* The delays *)

LEMMA Delays ==
  /\ READ_TO_PRE_DELAY \in Nat \ {0} /\ WRITE_TO_PRE_DELAY \in Nat \ {0}
  /\ READ_TO_WRITE_DELAY \in Nat /\ WRITE_TO_READ_DELAY_B \in Nat
  /\ WRITE_TO_READ_DELAY_R \in Nat /\ BurstGap \in Nat
  /\ READ_AUTOPRE_DELAY \in Nat /\ WRITE_AUTOPRE_DELAY \in Nat
  /\ READ_TO_PRE_DELAY <= READ_AUTOPRE_DELAY
  /\ WRITE_TO_PRE_DELAY <= WRITE_AUTOPRE_DELAY
  /\ tRCD - AL \in Nat /\ BL \div 2 + tRTRS \in Nat
<1>1. BL \div 2 \in Nat \ {0}
  BY TimingAssumption
<1> DEFINE half == BL \div 2
<1> HIDE DEF half
<1>2. half \in Nat \ {0}
  BY <1>1 DEF half
<1> QED
  BY <1>2, TimingAssumption
  DEF half, larger, RL, WL, READ_TO_PRE_DELAY, WRITE_TO_PRE_DELAY, READ_TO_WRITE_DELAY,
      WRITE_TO_READ_DELAY_B, WRITE_TO_READ_DELAY_R, BurstGap, READ_AUTOPRE_DELAY,
      WRITE_AUTOPRE_DELAY

LEMMA Timings ==
  /\ NUM_RANKS \in Nat \ {0} /\ NUM_BANKS \in Nat \ {0} /\ NUM_ROWS \in Nat \ {0}
  /\ tRAS \in Nat /\ tRRD \in Nat /\ tRC \in Nat /\ tRP \in Nat \ {0}
  /\ tRFC \in Nat \ {0} /\ tCKE \in Nat /\ tXP \in Nat /\ tCMD = 1 /\ tFAW \in Nat
BY TimingAssumption

LEMMA Less1 ==
  ASSUME NEW n \in Nat
  PROVE  less1(n) \in Nat /\ less1(n) <= n /\ n <= less1(n) + 1
BY DEF less1

LEMMA Larger ==
  ASSUME NEW m \in Nat, NEW n \in Nat
  PROVE  larger(m, n) \in Nat /\ m <= larger(m, n) /\ n <= larger(m, n)
BY DEF larger

(* The same delay, put into both tables: a cycle later the rank still wants  *)
(* at most one cycle more than the controller waits.                         *)
LEMMA Raised ==
  ASSUME NEW k \in Nat, NEW c \in Nat, NEW x \in Nat, k <= c + 1
  PROVE  /\ larger(less1(k), x) <= less1(larger(c, x)) + 1
         /\ less1(k) <= less1(larger(c, x)) + 1
         /\ less1(k) <= less1(c) + 1
         /\ less1(c) <= less1(larger(c, x))
         /\ x <= less1(x) + 1
BY DEF larger, less1

-----------------------------------------------------------------------------
(* A bank *)

LEMMA StepType ==
  ASSUME NEW b \in Bank
  PROVE  /\ step(b) \in Bank
         /\ step(b).state = b.state /\ step(b).row = b.row
         /\ step(b).lastCommand = b.lastCommand /\ step(b).countdown = b.countdown
         /\ step(b).nextRead = less1(b.nextRead) /\ step(b).nextWrite = less1(b.nextWrite)
         /\ step(b).nextActivate = less1(b.nextActivate)
         /\ step(b).nextPrecharge = less1(b.nextPrecharge)
         /\ step(b).nextPowerUp = less1(b.nextPowerUp)
<1>1. /\ less1(b.nextRead) \in Nat /\ less1(b.nextWrite) \in Nat
      /\ less1(b.nextActivate) \in Nat /\ less1(b.nextPrecharge) \in Nat
      /\ less1(b.nextPowerUp) \in Nat
  BY Less1 DEF Bank
<1> QED
  BY <1>1 DEF step, Bank

(* A bank that keeps its state, and whose times are only raised.             *)
LEMMA KeepsCover ==
  ASSUME NEW c, NEW k, Covers(c, k, 0), NEW c1 \in Bank, NEW k1 \in Bank,
         c1.state = c.state, c1.row = c.row, c1.countdown = c.countdown,
         c1.lastCommand = c.lastCommand \/ k.state = "RowActive",
         k1.state = k.state, k1.row = k.row,
         less1(c.nextRead) <= c1.nextRead, less1(c.nextWrite) <= c1.nextWrite,
         less1(c.nextActivate) <= c1.nextActivate,
         k1.nextActivate <= c1.nextActivate + 1,
         k.state = "RowActive" => /\ k1.nextRead <= c1.nextRead + 1
                                  /\ k1.nextWrite <= c1.nextWrite + 1
                                  /\ k1.nextPrecharge <= c1.nextPrecharge + 1
  PROVE  Covers(c1, k1, 1)
<1>1. /\ c \in Bank /\ k \in Bank
      /\ c.nextRead <= less1(c.nextRead) + 1 /\ c.nextWrite <= less1(c.nextWrite) + 1
      /\ c.nextActivate <= less1(c.nextActivate) + 1
      /\ less1(c.nextRead) \in Nat /\ less1(c.nextWrite) \in Nat /\ less1(c.nextActivate) \in Nat
  BY Less1 DEF Covers, Bank
<1>2. CASE c.state = "RowActive"
  BY <1>1, <1>2 DEF Covers, Open, Closing, Bank
<1>3. CASE c.state # "RowActive"
  BY <1>1, <1>3 DEF Covers, Bank
<1> QED BY <1>2, <1>3

(* A rank with its banks, a cycle later.                                     *)
LEMMA RankStepBanks ==
  ASSUME NEW rank, IsRank(rank)
  PROVE  /\ IsRank(RankStep(rank))
         /\ RankStep(rank).bankStates = [b \in Banks |-> step(rank.bankStates[b])]
         /\ \A b \in Banks : RankStep(rank).bankStates[b] = step(rank.bankStates[b])
         /\ RankStep(rank).isPowerDown = rank.isPowerDown
         /\ RankStep(rank).refreshWaiting = rank.refreshWaiting
<1> DEFINE banks == [b \in Banks |-> step(rank.bankStates[b])]
<1>1. \A b \in Banks : banks[b] = step(rank.bankStates[b]) /\ step(rank.bankStates[b]) \in Bank
  BY StepType DEF IsRank
<1>2. banks \in [Banks -> Bank]
  BY <1>1
<1>3. RankStep(rank) = [rank EXCEPT !.bankStates = banks]
  BY DEF RankStep
<1> HIDE DEF banks
<1>4. /\ RankStep(rank).bankStates = banks
      /\ RankStep(rank) =
           [bankStates |-> banks,
            refreshWaiting |-> rank.refreshWaiting, isPowerDown |-> rank.isPowerDown,
            outgoingDataPacket |-> rank.outgoingDataPacket,
            dataCyclesLeft |-> rank.dataCyclesLeft, readReturn |-> rank.readReturn]
  BY <1>3 DEF IsRank
<1>5. IsRank(RankStep(rank))
  BY <1>1, <1>2, <1>4 DEF IsRank
<1> QED
  BY <1>1, <1>4, <1>5 DEF banks

(* The alternatives of the code exclude each other.                          *)
LEMMA ReadIs ==
  ASSUME NEW p, IsRead(p)
  PROVE  /\ ~IsWrite(p) /\ p.type # "ACTIVATE" /\ p.type # "PRECHARGE"
         /\ p.type # "REFRESH" /\ p.type # "DATA"
BY DEF IsRead, IsWrite

LEMMA WriteIs ==
  ASSUME NEW p, IsWrite(p)
  PROVE  /\ ~IsRead(p) /\ p.type # "ACTIVATE" /\ p.type # "PRECHARGE"
         /\ p.type # "REFRESH" /\ p.type # "DATA"
BY DEF IsRead, IsWrite

LEMMA ActivateIs ==
  ASSUME NEW p, p.type = "ACTIVATE"
  PROVE  /\ ~IsRead(p) /\ ~IsWrite(p)
         /\ p.type # "PRECHARGE" /\ p.type # "REFRESH" /\ p.type # "DATA"
BY DEF IsRead, IsWrite

LEMMA PrechargeIs ==
  ASSUME NEW p, p.type = "PRECHARGE"
  PROVE  /\ ~IsRead(p) /\ ~IsWrite(p)
         /\ p.type # "ACTIVATE" /\ p.type # "REFRESH" /\ p.type # "DATA"
BY DEF IsRead, IsWrite

LEMMA RefreshIs ==
  ASSUME NEW p, p.type = "REFRESH"
  PROVE  /\ ~IsRead(p) /\ ~IsWrite(p)
         /\ p.type # "ACTIVATE" /\ p.type # "PRECHARGE" /\ p.type # "DATA"
BY DEF IsRead, IsWrite

LEMMA DataIs ==
  ASSUME NEW p, p.type = "DATA"
  PROVE  /\ ~IsRead(p) /\ ~IsWrite(p)
         /\ p.type # "ACTIVATE" /\ p.type # "PRECHARGE" /\ p.type # "REFRESH"
BY DEF IsRead, IsWrite

LEMMA ReceivedRead ==
  ASSUME NEW banks, NEW p, IsRead(p), NEW b \in Banks, banks[b] \in Bank
  PROVE  LET x == banks[b]
             y == ReceivedBanks(banks, p)[b]
             closes == b = p.bank /\ p.type = "READ_P"
         IN  /\ y \in Bank /\ y.row = x.row
             /\ y.state = IF closes THEN "Idle" ELSE x.state
             /\ y.nextRead = larger(x.nextRead, BurstGap)
             /\ y.nextWrite = larger(x.nextWrite, READ_TO_WRITE_DELAY)
             /\ y.nextPrecharge = IF b = p.bank /\ p.type = "READ"
                                  THEN larger(x.nextPrecharge, READ_TO_PRE_DELAY)
                                  ELSE x.nextPrecharge
             /\ y.nextActivate = IF closes THEN larger(x.nextActivate, READ_AUTOPRE_DELAY)
                                 ELSE x.nextActivate
             /\ y.nextPowerUp = x.nextPowerUp
<1> DEFINE x == banks[b]
           y == ReceivedBanks(banks, p)[b]
           nr == larger(x.nextRead, BurstGap)
           nw == larger(x.nextWrite, READ_TO_WRITE_DELAY)
           np == IF b = p.bank /\ p.type = "READ"
                 THEN larger(x.nextPrecharge, READ_TO_PRE_DELAY) ELSE x.nextPrecharge
           na == IF b = p.bank /\ p.type = "READ_P"
                 THEN larger(x.nextActivate, READ_AUTOPRE_DELAY) ELSE x.nextActivate
           st == IF b = p.bank /\ p.type = "READ_P" THEN "Idle" ELSE x.state
<1>1. y = [x EXCEPT !.nextRead = nr, !.nextWrite = nw, !.nextPrecharge = np,
                    !.nextActivate = na, !.state = st]
  BY ReadIs, Zenon DEF ReceivedBanks, ReceivedBank
<1>2. /\ nr \in Nat /\ nw \in Nat /\ np \in Nat /\ na \in Nat
      /\ st \in {"Idle", "RowActive", "Precharging", "Refreshing", "PowerDown"}
  BY Larger, Delays DEF Bank
<1>3. x \in Bank
  OBVIOUS
<1> HIDE DEF x, y, nr, nw, np, na, st
<1>4. /\ y \in Bank /\ y.row = x.row /\ y.state = st /\ y.nextRead = nr /\ y.nextWrite = nw
      /\ y.nextPrecharge = np /\ y.nextActivate = na /\ y.nextPowerUp = x.nextPowerUp
  BY <1>1, <1>2, <1>3 DEF Bank
<1> QED
  BY <1>4 DEF x, y, nr, nw, np, na, st

LEMMA AfterReadBank ==
  ASSUME NEW table, NEW p, NEW b \in Banks, NEW r \in Ranks, table[r][b] \in Bank
  PROVE  LET c == table[r][b]
             d == AfterRead(table, p)[r][b]
             here == r = p.rank /\ b = p.bank
             closes == here /\ p.type = "READ_P"
             auto == larger(c.nextActivate, READ_AUTOPRE_DELAY)
         IN  /\ d \in Bank /\ d.state = c.state /\ d.row = c.row
             /\ d.nextPowerUp = c.nextPowerUp
             /\ closes => /\ d.nextRead = auto /\ d.nextWrite = auto /\ d.nextActivate = auto
                          /\ d.lastCommand = "READ_P" /\ d.countdown = READ_TO_PRE_DELAY
             /\ ~closes => /\ d.countdown = c.countdown /\ d.nextActivate = c.nextActivate
                           /\ d.lastCommand = IF here THEN "READ" ELSE c.lastCommand
             /\ ~closes /\ r = p.rank =>
                  /\ d.nextRead = larger(c.nextRead, BurstGap)
                  /\ d.nextWrite = larger(c.nextWrite, READ_TO_WRITE_DELAY)
                  /\ d.nextPrecharge = IF here THEN larger(c.nextPrecharge, READ_TO_PRE_DELAY)
                                       ELSE c.nextPrecharge
             /\ r # p.rank =>
                  /\ c.nextRead <= d.nextRead /\ c.nextWrite <= d.nextWrite
                  /\ d.nextPrecharge = c.nextPrecharge
<1> DEFINE c == table[r][b]
           d == AfterRead(table, p)[r][b]
           here == r = p.rank /\ b = p.bank
           closes == here /\ p.type = "READ_P"
           auto == larger(c.nextActivate, READ_AUTOPRE_DELAY)
           nr == larger(c.nextRead, BurstGap)
           nw == larger(c.nextWrite, READ_TO_WRITE_DELAY)
           np == IF here THEN larger(c.nextPrecharge, READ_TO_PRE_DELAY) ELSE c.nextPrecharge
           lc == IF here THEN "READ" ELSE c.lastCommand
           ar == larger(c.nextRead, BL \div 2 + tRTRS)
           aw == larger(c.nextWrite, READ_TO_WRITE_DELAY)
<1>1. c \in Bank
  OBVIOUS
<1>2. /\ nr \in Nat /\ nw \in Nat /\ np \in Nat /\ ar \in Nat /\ aw \in Nat /\ auto \in Nat
      /\ lc \in Commands
      /\ c.nextRead <= ar /\ c.nextWrite <= aw
  BY <1>1, Larger, Delays DEF Bank, Commands
<1>3. d = IF closes
          THEN [c EXCEPT !.nextActivate = auto, !.nextRead = auto, !.nextWrite = auto,
                         !.lastCommand = "READ_P", !.countdown = READ_TO_PRE_DELAY]
          ELSE IF r = p.rank
          THEN [c EXCEPT !.nextRead = nr, !.nextWrite = nw, !.nextPrecharge = np, !.lastCommand = lc]
          ELSE IF c.state = "RowActive"
          THEN [c EXCEPT !.nextRead = ar, !.nextWrite = aw]
          ELSE c
  BY Zenon DEF AfterRead
<1>4. closes => here
  OBVIOUS
<1>5. here => r = p.rank
  OBVIOUS
<1> HIDE DEF c, d, nr, nw, np, lc, ar, aw, auto, closes
<1>6. CASE closes
  <2>1. READ_TO_PRE_DELAY \in Nat
    BY Delays
  <2>2. d = [c EXCEPT !.nextActivate = auto, !.nextRead = auto, !.nextWrite = auto,
                      !.lastCommand = "READ_P", !.countdown = READ_TO_PRE_DELAY]
    BY <1>3, <1>6
  <2>3. /\ d \in Bank /\ d.state = c.state /\ d.row = c.row /\ d.nextPowerUp = c.nextPowerUp
        /\ d.nextRead = auto /\ d.nextWrite = auto /\ d.nextActivate = auto
        /\ d.lastCommand = "READ_P" /\ d.countdown = READ_TO_PRE_DELAY
    BY <1>1, <1>2, <2>1, <2>2 DEF Bank, Commands
  <2> QED
    BY <1>4, <1>5, <1>6, <2>3 DEF c, d, auto, closes
<1>7. CASE ~closes /\ r = p.rank
  <2>1. /\ d \in Bank /\ d.state = c.state /\ d.row = c.row /\ d.nextPowerUp = c.nextPowerUp
        /\ d.countdown = c.countdown /\ d.nextActivate = c.nextActivate
        /\ d.lastCommand = lc /\ d.nextRead = nr /\ d.nextWrite = nw /\ d.nextPrecharge = np
    BY <1>1, <1>2, <1>3, <1>7 DEF Bank
  <2> QED
    BY <1>7, <2>1 DEF c, d, closes, lc, nr, nw, np
<1>8. CASE ~closes /\ r # p.rank
  <2>1. /\ d \in Bank /\ d.state = c.state /\ d.row = c.row /\ d.nextPowerUp = c.nextPowerUp
        /\ d.countdown = c.countdown /\ d.nextActivate = c.nextActivate
        /\ d.lastCommand = c.lastCommand /\ d.nextPrecharge = c.nextPrecharge
        /\ c.nextRead <= d.nextRead /\ c.nextWrite <= d.nextWrite
    <3>1. CASE c.state = "RowActive"
      <4>1. d = [c EXCEPT !.nextRead = ar, !.nextWrite = aw]
        BY <1>3, <1>8, <3>1
      <4> QED BY <1>1, <1>2, <4>1 DEF Bank
    <3>2. CASE c.state # "RowActive"
      BY <1>1, <1>3, <1>8, <3>2 DEF Bank
    <3> QED BY <3>1, <3>2
  <2> QED
    BY <1>8, <2>1 DEF c, d, closes
<1> QED BY <1>6, <1>7, <1>8

LEMMA ReceivedWrite ==
  ASSUME NEW banks, NEW p, IsWrite(p), NEW b \in Banks, banks[b] \in Bank
  PROVE  LET x == banks[b]
             y == ReceivedBanks(banks, p)[b]
             closes == b = p.bank /\ p.type = "WRITE_P"
         IN  /\ y \in Bank /\ y.row = x.row
             /\ y.state = IF closes THEN "Idle" ELSE x.state
             /\ y.nextWrite = larger(x.nextWrite, BurstGap)
             /\ y.nextRead = larger(x.nextRead, WRITE_TO_READ_DELAY_B)
             /\ y.nextPrecharge = IF b = p.bank /\ p.type = "WRITE"
                                  THEN larger(x.nextPrecharge, WRITE_TO_PRE_DELAY)
                                  ELSE x.nextPrecharge
             /\ y.nextActivate = IF closes THEN larger(x.nextActivate, WRITE_AUTOPRE_DELAY)
                                 ELSE x.nextActivate
             /\ y.nextPowerUp = x.nextPowerUp
<1> DEFINE x == banks[b]
           y == ReceivedBanks(banks, p)[b]
           nr == larger(x.nextWrite, BurstGap)
           nw == larger(x.nextRead, WRITE_TO_READ_DELAY_B)
           np == IF b = p.bank /\ p.type = "WRITE"
                 THEN larger(x.nextPrecharge, WRITE_TO_PRE_DELAY) ELSE x.nextPrecharge
           na == IF b = p.bank /\ p.type = "WRITE_P"
                 THEN larger(x.nextActivate, WRITE_AUTOPRE_DELAY) ELSE x.nextActivate
           st == IF b = p.bank /\ p.type = "WRITE_P" THEN "Idle" ELSE x.state
<1>1. y = [x EXCEPT !.nextWrite = nr, !.nextRead = nw, !.nextPrecharge = np,
                    !.nextActivate = na, !.state = st]
  BY WriteIs, Zenon DEF ReceivedBanks, ReceivedBank
<1>2. /\ nr \in Nat /\ nw \in Nat /\ np \in Nat /\ na \in Nat
      /\ st \in {"Idle", "RowActive", "Precharging", "Refreshing", "PowerDown"}
  BY Larger, Delays DEF Bank
<1>3. x \in Bank
  OBVIOUS
<1> HIDE DEF x, y, nr, nw, np, na, st
<1>4. /\ y \in Bank /\ y.row = x.row /\ y.state = st /\ y.nextWrite = nr /\ y.nextRead = nw
      /\ y.nextPrecharge = np /\ y.nextActivate = na /\ y.nextPowerUp = x.nextPowerUp
  BY <1>1, <1>2, <1>3 DEF Bank
<1> QED
  BY <1>4 DEF x, y, nr, nw, np, na, st

LEMMA AfterWriteBank ==
  ASSUME NEW table, NEW p, NEW b \in Banks, NEW r \in Ranks, table[r][b] \in Bank
  PROVE  LET c == table[r][b]
             d == AfterWrite(table, p)[r][b]
             here == r = p.rank /\ b = p.bank
             closes == here /\ p.type = "WRITE_P"
             auto == larger(c.nextActivate, WRITE_AUTOPRE_DELAY)
         IN  /\ d \in Bank /\ d.state = c.state /\ d.row = c.row
             /\ d.nextPowerUp = c.nextPowerUp
             /\ closes => /\ d.nextRead = auto /\ d.nextWrite = auto /\ d.nextActivate = auto
                          /\ d.lastCommand = "WRITE_P" /\ d.countdown = WRITE_TO_PRE_DELAY
             /\ ~closes => /\ d.countdown = c.countdown /\ d.nextActivate = c.nextActivate
                           /\ d.lastCommand = IF here THEN "WRITE" ELSE c.lastCommand
             /\ ~closes /\ r = p.rank =>
                  /\ d.nextWrite = larger(c.nextWrite, BurstGap)
                  /\ d.nextRead = larger(c.nextRead, WRITE_TO_READ_DELAY_B)
                  /\ d.nextPrecharge = IF here THEN larger(c.nextPrecharge, WRITE_TO_PRE_DELAY)
                                       ELSE c.nextPrecharge
             /\ r # p.rank =>
                  /\ c.nextRead <= d.nextRead /\ c.nextWrite <= d.nextWrite
                  /\ d.nextPrecharge = c.nextPrecharge
<1> DEFINE c == table[r][b]
           d == AfterWrite(table, p)[r][b]
           here == r = p.rank /\ b = p.bank
           closes == here /\ p.type = "WRITE_P"
           auto == larger(c.nextActivate, WRITE_AUTOPRE_DELAY)
           nr == larger(c.nextWrite, BurstGap)
           nw == larger(c.nextRead, WRITE_TO_READ_DELAY_B)
           np == IF here THEN larger(c.nextPrecharge, WRITE_TO_PRE_DELAY) ELSE c.nextPrecharge
           lc == IF here THEN "WRITE" ELSE c.lastCommand
           ar == larger(c.nextWrite, BL \div 2 + tRTRS)
           aw == larger(c.nextRead, WRITE_TO_READ_DELAY_R)
<1>1. c \in Bank
  OBVIOUS
<1>2. /\ nr \in Nat /\ nw \in Nat /\ np \in Nat /\ ar \in Nat /\ aw \in Nat /\ auto \in Nat
      /\ lc \in Commands
      /\ c.nextWrite <= ar /\ c.nextRead <= aw
  BY <1>1, Larger, Delays DEF Bank, Commands
<1>3. d = IF closes
          THEN [c EXCEPT !.nextActivate = auto, !.nextRead = auto, !.nextWrite = auto,
                         !.lastCommand = "WRITE_P", !.countdown = WRITE_TO_PRE_DELAY]
          ELSE IF r = p.rank
          THEN [c EXCEPT !.nextWrite = nr, !.nextRead = nw, !.nextPrecharge = np, !.lastCommand = lc]
          ELSE IF c.state = "RowActive"
          THEN [c EXCEPT !.nextWrite = ar, !.nextRead = aw]
          ELSE c
  BY Zenon DEF AfterWrite
<1>4. closes => here
  OBVIOUS
<1>5. here => r = p.rank
  OBVIOUS
<1> HIDE DEF c, d, nr, nw, np, lc, ar, aw, auto, closes
<1>6. CASE closes
  <2>1. WRITE_TO_PRE_DELAY \in Nat
    BY Delays
  <2>2. d = [c EXCEPT !.nextActivate = auto, !.nextRead = auto, !.nextWrite = auto,
                      !.lastCommand = "WRITE_P", !.countdown = WRITE_TO_PRE_DELAY]
    BY <1>3, <1>6
  <2>3. /\ d \in Bank /\ d.state = c.state /\ d.row = c.row /\ d.nextPowerUp = c.nextPowerUp
        /\ d.nextRead = auto /\ d.nextWrite = auto /\ d.nextActivate = auto
        /\ d.lastCommand = "WRITE_P" /\ d.countdown = WRITE_TO_PRE_DELAY
    BY <1>1, <1>2, <2>1, <2>2 DEF Bank, Commands
  <2> QED
    BY <1>4, <1>5, <1>6, <2>3 DEF c, d, auto, closes
<1>7. CASE ~closes /\ r = p.rank
  <2>1. /\ d \in Bank /\ d.state = c.state /\ d.row = c.row /\ d.nextPowerUp = c.nextPowerUp
        /\ d.countdown = c.countdown /\ d.nextActivate = c.nextActivate
        /\ d.lastCommand = lc /\ d.nextWrite = nr /\ d.nextRead = nw /\ d.nextPrecharge = np
    BY <1>1, <1>2, <1>3, <1>7 DEF Bank
  <2> QED
    BY <1>7, <2>1 DEF c, d, closes, lc, nr, nw, np
<1>8. CASE ~closes /\ r # p.rank
  <2>1. /\ d \in Bank /\ d.state = c.state /\ d.row = c.row /\ d.nextPowerUp = c.nextPowerUp
        /\ d.countdown = c.countdown /\ d.nextActivate = c.nextActivate
        /\ d.lastCommand = c.lastCommand /\ d.nextPrecharge = c.nextPrecharge
        /\ c.nextRead <= d.nextRead /\ c.nextWrite <= d.nextWrite
    <3>1. CASE c.state = "RowActive"
      <4>1. d = [c EXCEPT !.nextWrite = ar, !.nextRead = aw]
        BY <1>3, <1>8, <3>1
      <4> QED BY <1>1, <1>2, <4>1 DEF Bank
    <3>2. CASE c.state # "RowActive"
      BY <1>1, <1>3, <1>8, <3>2 DEF Bank
    <3> QED BY <3>1, <3>2
  <2> QED
    BY <1>8, <2>1 DEF c, d, closes
<1> QED BY <1>6, <1>7, <1>8

LEMMA AllowedRead ==
  ASSUME NEW banks, NEW p, IsRead(p),
         banks[p.bank].state = "RowActive",
         banks[p.bank].nextRead = 0, banks[p.bank].row = p.row
  PROVE  Allowed(banks, p)
BY ReadIs, Zenon DEF Allowed

(* A read goes out: it will find the rank ready, and after it the table      *)
(* covers the banks of the rank again.                                       *)
LEMMA ReadCover ==
  ASSUME NEW table, NEW rank, NEW p \in Packet, NEW b \in Banks,
         IsRank(rank), IsRead(p), p.type \in Queued,
         \A a \in Banks : Covers(table[p.rank][a], rank.bankStates[a], 0),
         table[p.rank][p.bank].state = "RowActive",
         table[p.rank][p.bank].row = p.row,
         table[p.rank][p.bank].nextRead = 0
  PROVE  /\ Covers(step(AfterRead(table, p)[p.rank][b]), ReceivedBanks(RankStep(rank).bankStates, p)[b], 1)
         /\ Allowed(RankStep(rank).bankStates, p)
<1> DEFINE c == table[p.rank][b]
           k == rank.bankStates[b]
           d == AfterRead(table, p)[p.rank][b]
           x == RankStep(rank).bankStates[b]
           y == ReceivedBanks(RankStep(rank).bankStates, p)[b]
           cp == table[p.rank][p.bank]
           kp == rank.bankStates[p.bank]
           xp == RankStep(rank).bankStates[p.bank]
<1>1. Covers(c, k, 0) /\ c \in Bank /\ k \in Bank
  BY DEF Covers
<1>2. p.rank \in Ranks /\ p.bank \in Banks /\ p.type \in {"READ", "READ_P"}
  BY DEF Packet, IsRead
<1>3. x = step(k) /\ x \in Bank /\ xp = step(kp)
  <2>1. \A a \in Banks : RankStep(rank).bankStates[a] = step(rank.bankStates[a])
    BY RankStepBanks
  <2>2. x = step(k) /\ xp = step(kp)
    BY <1>2, <2>1
  <2>3. step(k) \in Bank
    BY <1>1, StepType
  <2> QED BY <2>2, <2>3
<1>4. /\ x.state = k.state /\ x.row = k.row
      /\ x.nextRead = less1(k.nextRead) /\ x.nextWrite = less1(k.nextWrite)
      /\ x.nextActivate = less1(k.nextActivate) /\ x.nextPrecharge = less1(k.nextPrecharge)
  BY <1>1, <1>3, StepType
<1>5. Covers(cp, kp, 0) /\ cp \in Bank /\ kp \in Bank
  BY <1>2 DEF Covers
<1>6. Open(cp, kp)
  <2>1. cp.state = "RowActive" /\ cp.nextRead = 0
    OBVIOUS
  <2> HIDE DEF cp, kp
  <2>2. Open(cp, kp) \/ Closing(cp, kp, 0)
    BY <1>5, <2>1 DEF Covers
  <2>3. cp.countdown \in Nat
    BY <1>5 DEF Bank
  <2> QED BY <2>1, <2>2, <2>3 DEF Closing
<1>7. Allowed(RankStep(rank).bankStates, p)
  <2>1. kp.state = "RowActive" /\ kp.row = p.row /\ less1(kp.nextRead) = 0
    BY <1>5, <1>6 DEF Open, less1, Bank
  <2>2. xp.state = "RowActive" /\ xp.row = p.row /\ xp.nextRead = 0
    BY <1>3, <1>5, <2>1, StepType
  <2> QED
    BY <2>2, AllowedRead
<1>8. /\ c.nextRead \in Nat /\ c.nextWrite \in Nat /\ c.nextActivate \in Nat
      /\ c.nextPrecharge \in Nat /\ k.nextActivate <= c.nextActivate + 1
      /\ k.nextRead \in Nat /\ k.nextWrite \in Nat /\ k.nextActivate \in Nat
      /\ k.nextPrecharge \in Nat
      /\ k.state = "RowActive" => /\ k.nextRead <= c.nextRead + 1
                                  /\ k.nextWrite <= c.nextWrite + 1
                                  /\ k.nextPrecharge <= c.nextPrecharge + 1
  BY <1>1 DEF Covers, Open, Closing, Bank
<1> DEFINE closes == b = p.bank /\ p.type = "READ_P"
           auto == larger(c.nextActivate, READ_AUTOPRE_DELAY)
<1>9. /\ y \in Bank /\ y.row = x.row
      /\ y.state = IF closes THEN "Idle" ELSE x.state
      /\ y.nextRead = larger(x.nextRead, BurstGap)
      /\ y.nextWrite = larger(x.nextWrite, READ_TO_WRITE_DELAY)
      /\ y.nextPrecharge = IF b = p.bank /\ p.type = "READ"
                           THEN larger(x.nextPrecharge, READ_TO_PRE_DELAY) ELSE x.nextPrecharge
      /\ y.nextActivate = IF closes THEN larger(x.nextActivate, READ_AUTOPRE_DELAY)
                          ELSE x.nextActivate
  BY <1>3, ReceivedRead
<1>10. /\ d \in Bank /\ d.state = c.state /\ d.row = c.row
       /\ closes => /\ d.nextRead = auto /\ d.nextWrite = auto /\ d.nextActivate = auto
                    /\ d.lastCommand = "READ_P" /\ d.countdown = READ_TO_PRE_DELAY
       /\ ~closes => /\ d.countdown = c.countdown /\ d.nextActivate = c.nextActivate
                     /\ d.lastCommand = IF b = p.bank THEN "READ" ELSE c.lastCommand
                     /\ d.nextRead = larger(c.nextRead, BurstGap)
                     /\ d.nextWrite = larger(c.nextWrite, READ_TO_WRITE_DELAY)
                     /\ d.nextPrecharge = IF b = p.bank THEN larger(c.nextPrecharge, READ_TO_PRE_DELAY)
                                          ELSE c.nextPrecharge
  BY <1>1, <1>2, AfterReadBank
<1>11. /\ step(d) \in Bank /\ step(d).state = d.state /\ step(d).row = d.row
       /\ step(d).lastCommand = d.lastCommand /\ step(d).countdown = d.countdown
       /\ step(d).nextRead = less1(d.nextRead) /\ step(d).nextWrite = less1(d.nextWrite)
       /\ step(d).nextActivate = less1(d.nextActivate)
       /\ step(d).nextPrecharge = less1(d.nextPrecharge)
  BY <1>10, StepType
<1>12. b = p.bank => k.state = "RowActive" /\ c.state = "RowActive"
  BY <1>6 DEF Open
<1>13. p.type = "READ_P" => ini.rowBufferPolicy = "ClosePage"
  BY DEF Queued
<1> HIDE DEF c, k, d, x, y, cp, kp, xp
<1>14. CASE ~closes
  <2>1. /\ step(d).state = c.state /\ step(d).row = c.row /\ step(d).countdown = c.countdown
        /\ step(d).lastCommand = c.lastCommand \/ k.state = "RowActive"
        /\ y.state = k.state /\ y.row = k.row
    BY <1>4, <1>9, <1>10, <1>11, <1>12, <1>14
  <2>2. less1(c.nextRead) <= step(d).nextRead /\ less1(c.nextWrite) <= step(d).nextWrite
    <3>1. /\ step(d).nextRead = less1(larger(c.nextRead, BurstGap))
          /\ step(d).nextWrite = less1(larger(c.nextWrite, READ_TO_WRITE_DELAY))
      BY <1>10, <1>11, <1>14
    <3>2. 0 <= c.nextRead + 1 /\ 0 <= c.nextWrite + 1
      BY <1>8
    <3> QED BY <1>8, <3>1, <3>2, Raised, Delays
  <2>3. /\ step(d).nextActivate = less1(c.nextActivate)
        /\ y.nextActivate = less1(k.nextActivate)
        /\ y.nextActivate <= step(d).nextActivate + 1
        /\ less1(c.nextActivate) <= step(d).nextActivate
    <3>1. /\ step(d).nextActivate = less1(c.nextActivate)
          /\ y.nextActivate = less1(k.nextActivate)
      BY <1>4, <1>9, <1>10, <1>11, <1>14
    <3>2. less1(k.nextActivate) <= less1(c.nextActivate) + 1
      BY <1>8, Raised
    <3>3. less1(c.nextActivate) \in Nat
      BY <1>8, Less1
    <3> QED BY <3>1, <3>2, <3>3
  <2>4. ASSUME k.state = "RowActive"
        PROVE  /\ y.nextRead <= step(d).nextRead + 1
               /\ y.nextWrite <= step(d).nextWrite + 1
               /\ y.nextPrecharge <= step(d).nextPrecharge + 1
    <3>1. /\ y.nextRead <= step(d).nextRead + 1
      BY <1>4, <1>8, <1>9, <1>10, <1>11, <1>14, <2>4, Raised, Delays
    <3>2. /\ y.nextWrite <= step(d).nextWrite + 1
      BY <1>4, <1>8, <1>9, <1>10, <1>11, <1>14, <2>4, Raised, Delays
    <3>3. y.nextPrecharge <= step(d).nextPrecharge + 1
      <4>1. CASE b = p.bank
        BY <1>2, <1>4, <1>8, <1>9, <1>10, <1>11, <1>14, <2>4, <4>1, Raised, Delays
      <4>2. CASE b # p.bank
        BY <1>4, <1>8, <1>9, <1>10, <1>11, <1>14, <2>4, <4>2, Raised, Delays
      <4> QED BY <4>1, <4>2
    <3> QED BY <3>1, <3>2, <3>3
  <2>5. Covers(step(d), y, 1)
    BY <1>1, <1>9, <1>11, <2>1, <2>2, <2>3, <2>4, KeepsCover
  <2> QED
    BY <1>7, <2>5 DEF d, y
<1>15. CASE closes
  <2>1. auto \in Nat /\ READ_AUTOPRE_DELAY <= auto /\ auto <= less1(auto) + 1 /\ less1(auto) \in Nat
    BY <1>8, Delays, Larger, Less1
  <2>2. y.nextActivate <= less1(auto) + 1
    BY <1>4, <1>8, <1>9, <1>15, Raised, Delays
  <2> HIDE DEF auto
  <2>3. /\ step(d).state = "RowActive" /\ y.state = "Idle"
        /\ step(d).lastCommand = "READ_P" /\ step(d).countdown = READ_TO_PRE_DELAY
        /\ step(d).nextRead = less1(auto) /\ step(d).nextWrite = less1(auto)
        /\ step(d).nextActivate = less1(auto)
    BY <1>9, <1>10, <1>11, <1>12, <1>15
  <2>4. Closing(step(d), y, 1)
    BY <1>13, <1>15, <2>1, <2>3, Delays DEF Closing
  <2>5. Covers(step(d), y, 1)
    BY <1>9, <1>11, <2>2, <2>3, <2>4 DEF Covers
  <2> QED
    BY <1>7, <2>5 DEF d, y
<1> QED BY <1>14, <1>15

LEMMA AllowedWrite ==
  ASSUME NEW banks, NEW p, IsWrite(p),
         banks[p.bank].state = "RowActive",
         banks[p.bank].nextWrite = 0, banks[p.bank].row = p.row
  PROVE  Allowed(banks, p)
BY WriteIs, Zenon DEF Allowed

(* A write goes out: it will find the rank ready, and after it the table      *)
(* covers the banks of the rank again.                                       *)
LEMMA WriteCover ==
  ASSUME NEW table, NEW rank, NEW p \in Packet, NEW b \in Banks,
         IsRank(rank), IsWrite(p), p.type \in Queued,
         \A a \in Banks : Covers(table[p.rank][a], rank.bankStates[a], 0),
         table[p.rank][p.bank].state = "RowActive",
         table[p.rank][p.bank].row = p.row,
         table[p.rank][p.bank].nextWrite = 0
  PROVE  /\ Covers(step(AfterWrite(table, p)[p.rank][b]), ReceivedBanks(RankStep(rank).bankStates, p)[b], 1)
         /\ Allowed(RankStep(rank).bankStates, p)
<1> DEFINE c == table[p.rank][b]
           k == rank.bankStates[b]
           d == AfterWrite(table, p)[p.rank][b]
           x == RankStep(rank).bankStates[b]
           y == ReceivedBanks(RankStep(rank).bankStates, p)[b]
           cp == table[p.rank][p.bank]
           kp == rank.bankStates[p.bank]
           xp == RankStep(rank).bankStates[p.bank]
<1>1. Covers(c, k, 0) /\ c \in Bank /\ k \in Bank
  BY DEF Covers
<1>2. p.rank \in Ranks /\ p.bank \in Banks /\ p.type \in {"WRITE", "WRITE_P"}
  BY DEF Packet, IsWrite
<1>3. x = step(k) /\ x \in Bank /\ xp = step(kp)
  <2>1. \A a \in Banks : RankStep(rank).bankStates[a] = step(rank.bankStates[a])
    BY RankStepBanks
  <2>2. x = step(k) /\ xp = step(kp)
    BY <1>2, <2>1
  <2>3. step(k) \in Bank
    BY <1>1, StepType
  <2> QED BY <2>2, <2>3
<1>4. /\ x.state = k.state /\ x.row = k.row
      /\ x.nextRead = less1(k.nextRead) /\ x.nextWrite = less1(k.nextWrite)
      /\ x.nextActivate = less1(k.nextActivate) /\ x.nextPrecharge = less1(k.nextPrecharge)
  BY <1>1, <1>3, StepType
<1>5. Covers(cp, kp, 0) /\ cp \in Bank /\ kp \in Bank
  BY <1>2 DEF Covers
<1>6. Open(cp, kp)
  <2>1. cp.state = "RowActive" /\ cp.nextWrite = 0
    OBVIOUS
  <2> HIDE DEF cp, kp
  <2>2. Open(cp, kp) \/ Closing(cp, kp, 0)
    BY <1>5, <2>1 DEF Covers
  <2>3. cp.countdown \in Nat
    BY <1>5 DEF Bank
  <2> QED BY <2>1, <2>2, <2>3 DEF Closing
<1>7. Allowed(RankStep(rank).bankStates, p)
  <2>1. kp.state = "RowActive" /\ kp.row = p.row /\ less1(kp.nextWrite) = 0
    BY <1>5, <1>6 DEF Open, less1, Bank
  <2>2. xp.state = "RowActive" /\ xp.row = p.row /\ xp.nextWrite = 0
    BY <1>3, <1>5, <2>1, StepType
  <2> QED
    BY <2>2, AllowedWrite
<1>8. /\ c.nextRead \in Nat /\ c.nextWrite \in Nat /\ c.nextActivate \in Nat
      /\ c.nextPrecharge \in Nat /\ k.nextActivate <= c.nextActivate + 1
      /\ k.nextRead \in Nat /\ k.nextWrite \in Nat /\ k.nextActivate \in Nat
      /\ k.nextPrecharge \in Nat
      /\ k.state = "RowActive" => /\ k.nextRead <= c.nextRead + 1
                                  /\ k.nextWrite <= c.nextWrite + 1
                                  /\ k.nextPrecharge <= c.nextPrecharge + 1
  BY <1>1 DEF Covers, Open, Closing, Bank
<1> DEFINE closes == b = p.bank /\ p.type = "WRITE_P"
           auto == larger(c.nextActivate, WRITE_AUTOPRE_DELAY)
<1>9. /\ y \in Bank /\ y.row = x.row
      /\ y.state = IF closes THEN "Idle" ELSE x.state
      /\ y.nextWrite = larger(x.nextWrite, BurstGap)
      /\ y.nextRead = larger(x.nextRead, WRITE_TO_READ_DELAY_B)
      /\ y.nextPrecharge = IF b = p.bank /\ p.type = "WRITE"
                           THEN larger(x.nextPrecharge, WRITE_TO_PRE_DELAY) ELSE x.nextPrecharge
      /\ y.nextActivate = IF closes THEN larger(x.nextActivate, WRITE_AUTOPRE_DELAY)
                          ELSE x.nextActivate
  BY <1>3, ReceivedWrite
<1>10. /\ d \in Bank /\ d.state = c.state /\ d.row = c.row
       /\ closes => /\ d.nextRead = auto /\ d.nextWrite = auto /\ d.nextActivate = auto
                    /\ d.lastCommand = "WRITE_P" /\ d.countdown = WRITE_TO_PRE_DELAY
       /\ ~closes => /\ d.countdown = c.countdown /\ d.nextActivate = c.nextActivate
                     /\ d.lastCommand = IF b = p.bank THEN "WRITE" ELSE c.lastCommand
                     /\ d.nextWrite = larger(c.nextWrite, BurstGap)
                     /\ d.nextRead = larger(c.nextRead, WRITE_TO_READ_DELAY_B)
                     /\ d.nextPrecharge = IF b = p.bank THEN larger(c.nextPrecharge, WRITE_TO_PRE_DELAY)
                                          ELSE c.nextPrecharge
  BY <1>1, <1>2, AfterWriteBank
<1>11. /\ step(d) \in Bank /\ step(d).state = d.state /\ step(d).row = d.row
       /\ step(d).lastCommand = d.lastCommand /\ step(d).countdown = d.countdown
       /\ step(d).nextRead = less1(d.nextRead) /\ step(d).nextWrite = less1(d.nextWrite)
       /\ step(d).nextActivate = less1(d.nextActivate)
       /\ step(d).nextPrecharge = less1(d.nextPrecharge)
  BY <1>10, StepType
<1>12. b = p.bank => k.state = "RowActive" /\ c.state = "RowActive"
  BY <1>6 DEF Open
<1>13. p.type = "WRITE_P" => ini.rowBufferPolicy = "ClosePage"
  BY DEF Queued
<1> HIDE DEF c, k, d, x, y, cp, kp, xp
<1>14. CASE ~closes
  <2>1. /\ step(d).state = c.state /\ step(d).row = c.row /\ step(d).countdown = c.countdown
        /\ step(d).lastCommand = c.lastCommand \/ k.state = "RowActive"
        /\ y.state = k.state /\ y.row = k.row
    BY <1>4, <1>9, <1>10, <1>11, <1>12, <1>14
  <2>2. less1(c.nextWrite) <= step(d).nextWrite /\ less1(c.nextRead) <= step(d).nextRead
    <3>1. /\ step(d).nextWrite = less1(larger(c.nextWrite, BurstGap))
          /\ step(d).nextRead = less1(larger(c.nextRead, WRITE_TO_READ_DELAY_B))
      BY <1>10, <1>11, <1>14
    <3>2. 0 <= c.nextWrite + 1 /\ 0 <= c.nextRead + 1
      BY <1>8
    <3> QED BY <1>8, <3>1, <3>2, Raised, Delays
  <2>3. /\ step(d).nextActivate = less1(c.nextActivate)
        /\ y.nextActivate = less1(k.nextActivate)
        /\ y.nextActivate <= step(d).nextActivate + 1
        /\ less1(c.nextActivate) <= step(d).nextActivate
    <3>1. /\ step(d).nextActivate = less1(c.nextActivate)
          /\ y.nextActivate = less1(k.nextActivate)
      BY <1>4, <1>9, <1>10, <1>11, <1>14
    <3>2. less1(k.nextActivate) <= less1(c.nextActivate) + 1
      BY <1>8, Raised
    <3>3. less1(c.nextActivate) \in Nat
      BY <1>8, Less1
    <3> QED BY <3>1, <3>2, <3>3
  <2>4. ASSUME k.state = "RowActive"
        PROVE  /\ y.nextRead <= step(d).nextRead + 1
               /\ y.nextWrite <= step(d).nextWrite + 1
               /\ y.nextPrecharge <= step(d).nextPrecharge + 1
    <3>1. /\ y.nextWrite <= step(d).nextWrite + 1
      BY <1>4, <1>8, <1>9, <1>10, <1>11, <1>14, <2>4, Raised, Delays
    <3>2. /\ y.nextRead <= step(d).nextRead + 1
      BY <1>4, <1>8, <1>9, <1>10, <1>11, <1>14, <2>4, Raised, Delays
    <3>3. y.nextPrecharge <= step(d).nextPrecharge + 1
      <4>1. CASE b = p.bank
        BY <1>2, <1>4, <1>8, <1>9, <1>10, <1>11, <1>14, <2>4, <4>1, Raised, Delays
      <4>2. CASE b # p.bank
        BY <1>4, <1>8, <1>9, <1>10, <1>11, <1>14, <2>4, <4>2, Raised, Delays
      <4> QED BY <4>1, <4>2
    <3> QED BY <3>1, <3>2, <3>3
  <2>5. Covers(step(d), y, 1)
    BY <1>1, <1>9, <1>11, <2>1, <2>2, <2>3, <2>4, KeepsCover
  <2> QED
    BY <1>7, <2>5 DEF d, y
<1>15. CASE closes
  <2>1. auto \in Nat /\ WRITE_AUTOPRE_DELAY <= auto /\ auto <= less1(auto) + 1 /\ less1(auto) \in Nat
    BY <1>8, Delays, Larger, Less1
  <2>2. y.nextActivate <= less1(auto) + 1
    BY <1>4, <1>8, <1>9, <1>15, Raised, Delays
  <2> HIDE DEF auto
  <2>3. /\ step(d).state = "RowActive" /\ y.state = "Idle"
        /\ step(d).lastCommand = "WRITE_P" /\ step(d).countdown = WRITE_TO_PRE_DELAY
        /\ step(d).nextRead = less1(auto) /\ step(d).nextWrite = less1(auto)
        /\ step(d).nextActivate = less1(auto)
    BY <1>9, <1>10, <1>11, <1>12, <1>15
  <2>4. Closing(step(d), y, 1)
    BY <1>13, <1>15, <2>1, <2>3, Delays DEF Closing
  <2>5. Covers(step(d), y, 1)
    BY <1>9, <1>11, <2>2, <2>3, <2>4 DEF Covers
  <2> QED
    BY <1>7, <2>5 DEF d, y
<1> QED BY <1>14, <1>15


LEMMA ReceivedActivate ==
  ASSUME NEW banks, NEW p \in Packet, p.type = "ACTIVATE", NEW b \in Banks,
         banks[b] \in Bank
  PROVE  LET x == banks[b]
             y == ReceivedBanks(banks, p)[b]
         IN  /\ y \in Bank
             /\ b = p.bank => /\ y.state = "RowActive" /\ y.row = p.row
                              /\ y.nextActivate = tRC /\ y.nextPrecharge = tRAS
                              /\ y.nextRead = tRCD - AL /\ y.nextWrite = tRCD - AL
             /\ b # p.bank => /\ y.state = x.state /\ y.row = x.row
                              /\ y.nextRead = x.nextRead /\ y.nextWrite = x.nextWrite
                              /\ y.nextPrecharge = x.nextPrecharge
                              /\ y.nextActivate = larger(x.nextActivate, tRRD)
             /\ y.nextPowerUp = x.nextPowerUp
<1> DEFINE x == banks[b]
           y == ReceivedBanks(banks, p)[b]
           cas == tRCD - AL
           na == larger(x.nextActivate, tRRD)
<1>1. y = IF b = p.bank
          THEN [x EXCEPT !.state = "RowActive", !.row = p.row,
                         !.nextActivate = tRC, !.nextPrecharge = tRAS,
                         !.nextRead = cas, !.nextWrite = cas]
          ELSE [x EXCEPT !.nextActivate = na]
  BY ActivateIs, Zenon DEF ReceivedBanks, ReceivedBank
<1>2. cas \in Nat /\ na \in Nat /\ tRC \in Nat /\ tRAS \in Nat /\ p.row \in Rows
  BY Larger, Delays, Timings DEF Bank, Packet
<1>3. x \in Bank
  OBVIOUS
<1> HIDE DEF x, y, cas, na
<1>4. CASE b = p.bank
  <2>1. /\ y \in Bank /\ y.state = "RowActive" /\ y.row = p.row
        /\ y.nextActivate = tRC /\ y.nextPrecharge = tRAS
        /\ y.nextRead = cas /\ y.nextWrite = cas /\ y.nextPowerUp = x.nextPowerUp
    BY <1>1, <1>2, <1>3, <1>4 DEF Bank
  <2> QED BY <1>4, <2>1 DEF x, y, cas
<1>5. CASE b # p.bank
  <2>1. /\ y \in Bank /\ y.state = x.state /\ y.row = x.row
        /\ y.nextRead = x.nextRead /\ y.nextWrite = x.nextWrite
        /\ y.nextPrecharge = x.nextPrecharge /\ y.nextActivate = na
        /\ y.nextPowerUp = x.nextPowerUp
    BY <1>1, <1>2, <1>3, <1>5 DEF Bank
  <2> QED BY <1>5, <2>1 DEF x, y, na
<1> QED BY <1>4, <1>5

(* The controller's table has a row of banks for every rank.                 *)
IsTable(table) == table \in [Ranks -> [Banks -> Bank]]

LEMMA AfterActivateBank ==
  ASSUME NEW table, IsTable(table), NEW p \in Packet, NEW b \in Banks
  PROVE  LET c == table[p.rank][b]
             d == AfterActivate(table, p)[p.rank][b]
         IN  /\ d \in Bank /\ d.countdown = c.countdown /\ d.nextPowerUp = c.nextPowerUp
             /\ b = p.bank =>
                  /\ d.state = "RowActive" /\ d.row = p.row
                  /\ d.nextActivate = larger(c.nextActivate, tRC)
                  /\ d.nextPrecharge = larger(c.nextPrecharge, tRAS)
                  /\ d.nextRead = larger(c.nextRead, tRCD - AL)
                  /\ d.nextWrite = larger(c.nextWrite, tRCD - AL)
             /\ b # p.bank =>
                  /\ d.state = c.state /\ d.row = c.row /\ d.lastCommand = c.lastCommand
                  /\ d.nextRead = c.nextRead /\ d.nextWrite = c.nextWrite
                  /\ d.nextPrecharge = c.nextPrecharge
                  /\ d.nextActivate = larger(c.nextActivate, tRRD)
<1> DEFINE c == table[p.rank][b]
           d == AfterActivate(table, p)[p.rank][b]
           na == larger(c.nextActivate, tRC)
           np == larger(c.nextPrecharge, tRAS)
           nr == larger(c.nextRead, tRCD - AL)
           nw == larger(c.nextWrite, tRCD - AL)
           ra == larger(c.nextActivate, tRRD)
<1>1. c \in Bank /\ p.rank \in Ranks /\ p.row \in Rows
  BY DEF IsTable, Packet
<1>2. /\ na \in Nat /\ np \in Nat /\ nr \in Nat /\ nw \in Nat /\ ra \in Nat
  BY <1>1, Larger, Delays, Timings DEF Bank
<1>3. p.rank \in DOMAIN table
  BY <1>1 DEF IsTable
<1>4. d = IF b = p.bank
          THEN [c EXCEPT !.state = "RowActive", !.lastCommand = "ACTIVATE", !.row = p.row,
                         !.nextActivate = na, !.nextPrecharge = np,
                         !.nextRead = nr, !.nextWrite = nw]
          ELSE [c EXCEPT !.nextActivate = ra]
  <2> DEFINE row == [a \in Banks |->
        IF a = p.bank
        THEN [table[p.rank][a] EXCEPT
                !.state = "RowActive", !.lastCommand = "ACTIVATE", !.row = p.row,
                !.nextActivate = larger(@, tRC), !.nextPrecharge = larger(@, tRAS),
                !.nextRead = larger(@, tRCD - AL), !.nextWrite = larger(@, tRCD - AL)]
        ELSE [table[p.rank][a] EXCEPT !.nextActivate = larger(@, tRRD)]]
  <2>1. AfterActivate(table, p) = [table EXCEPT ![p.rank] = row]
    BY DEF AfterActivate
  <2>2. AfterActivate(table, p)[p.rank] = row
    <3> HIDE DEF row
    <3> QED BY <1>3, <2>1
  <2> QED BY <2>2, Zenon
<1> HIDE DEF c, d, na, np, nr, nw, ra
<1>5. CASE b = p.bank
  <2>1. /\ d \in Bank /\ d.countdown = c.countdown /\ d.nextPowerUp = c.nextPowerUp
        /\ d.state = "RowActive" /\ d.row = p.row /\ d.nextActivate = na
        /\ d.nextPrecharge = np /\ d.nextRead = nr /\ d.nextWrite = nw
    BY <1>1, <1>2, <1>4, <1>5 DEF Bank, Commands
  <2> QED BY <1>5, <2>1 DEF c, d, na, np, nr, nw
<1>6. CASE b # p.bank
  <2>1. /\ d \in Bank /\ d.countdown = c.countdown /\ d.nextPowerUp = c.nextPowerUp
        /\ d.state = c.state /\ d.row = c.row /\ d.lastCommand = c.lastCommand
        /\ d.nextRead = c.nextRead /\ d.nextWrite = c.nextWrite
        /\ d.nextPrecharge = c.nextPrecharge /\ d.nextActivate = ra
    BY <1>1, <1>2, <1>4, <1>6 DEF Bank
  <2> QED BY <1>6, <2>1 DEF c, d, ra
<1> QED BY <1>5, <1>6

LEMMA AllowedActivate ==
  ASSUME NEW banks, NEW p, p.type = "ACTIVATE",
         banks[p.bank].state = "Idle",
         banks[p.bank].nextActivate = 0
  PROVE  Allowed(banks, p)
BY ActivateIs, Zenon DEF Allowed

(* The same for an activate, which the controller sends also while it still  *)
(* counts a refresh.                                                         *)
LEMMA ActivateCover ==
  ASSUME NEW table, IsTable(table), NEW rank, NEW p \in Packet, NEW b \in Banks,
         IsRank(rank), p.type = "ACTIVATE",
         \A a \in Banks : Covers(table[p.rank][a], rank.bankStates[a], 0),
         table[p.rank][p.bank].state \in {"Idle", "Refreshing"},
         table[p.rank][p.bank].nextActivate = 0
  PROVE  /\ Covers(step(AfterActivate(table, p)[p.rank][b]),
                   ReceivedBanks(RankStep(rank).bankStates, p)[b], 1)
         /\ Allowed(RankStep(rank).bankStates, p)
<1> DEFINE c == table[p.rank][b]
           k == rank.bankStates[b]
           d == AfterActivate(table, p)[p.rank][b]
           x == RankStep(rank).bankStates[b]
           y == ReceivedBanks(RankStep(rank).bankStates, p)[b]
           cp == table[p.rank][p.bank]
           kp == rank.bankStates[p.bank]
           xp == RankStep(rank).bankStates[p.bank]
<1>1. Covers(c, k, 0) /\ c \in Bank /\ k \in Bank
  BY DEF Covers
<1>2. p.rank \in Ranks /\ p.bank \in Banks
  BY DEF Packet
<1>3. x = step(k) /\ x \in Bank /\ xp = step(kp)
  <2>1. \A a \in Banks : RankStep(rank).bankStates[a] = step(rank.bankStates[a])
    BY RankStepBanks
  <2>2. x = step(k) /\ xp = step(kp)
    BY <1>2, <2>1
  <2>3. step(k) \in Bank
    BY <1>1, StepType
  <2> QED BY <2>2, <2>3
<1>4. /\ x.state = k.state /\ x.row = k.row
      /\ x.nextRead = less1(k.nextRead) /\ x.nextWrite = less1(k.nextWrite)
      /\ x.nextActivate = less1(k.nextActivate) /\ x.nextPrecharge = less1(k.nextPrecharge)
  BY <1>1, <1>3, StepType
<1>5. Covers(cp, kp, 0) /\ cp \in Bank /\ kp \in Bank
  BY <1>2 DEF Covers
<1>6. cp.state = "Idle" /\ cp.countdown = 0 /\ kp.state = "Idle" /\ kp.nextActivate <= 1
  BY <1>5 DEF Covers, Bank
<1>7. Allowed(RankStep(rank).bankStates, p)
  <2>1. kp.state = "Idle" /\ less1(kp.nextActivate) = 0
    BY <1>5, <1>6 DEF less1, Bank
  <2>2. xp.state = "Idle" /\ xp.nextActivate = 0
    BY <1>3, <1>5, <2>1, StepType
  <2> QED
    BY <2>2, AllowedActivate
<1>8. /\ c.nextRead \in Nat /\ c.nextWrite \in Nat /\ c.nextActivate \in Nat
      /\ c.nextPrecharge \in Nat /\ k.nextActivate <= c.nextActivate + 1
      /\ k.nextRead \in Nat /\ k.nextWrite \in Nat /\ k.nextActivate \in Nat
      /\ k.nextPrecharge \in Nat
      /\ k.state = "RowActive" => /\ k.nextRead <= c.nextRead + 1
                                  /\ k.nextWrite <= c.nextWrite + 1
                                  /\ k.nextPrecharge <= c.nextPrecharge + 1
  BY <1>1 DEF Covers, Open, Closing, Bank
<1>9. /\ y \in Bank
      /\ b = p.bank => /\ y.state = "RowActive" /\ y.row = p.row
                       /\ y.nextActivate = tRC /\ y.nextPrecharge = tRAS
                       /\ y.nextRead = tRCD - AL /\ y.nextWrite = tRCD - AL
      /\ b # p.bank => /\ y.state = x.state /\ y.row = x.row
                       /\ y.nextRead = x.nextRead /\ y.nextWrite = x.nextWrite
                       /\ y.nextPrecharge = x.nextPrecharge
                       /\ y.nextActivate = larger(x.nextActivate, tRRD)
  BY <1>3, ReceivedActivate
<1>10. /\ d \in Bank /\ d.countdown = c.countdown
       /\ b = p.bank =>
            /\ d.state = "RowActive" /\ d.row = p.row
            /\ d.nextActivate = larger(c.nextActivate, tRC)
            /\ d.nextPrecharge = larger(c.nextPrecharge, tRAS)
            /\ d.nextRead = larger(c.nextRead, tRCD - AL)
            /\ d.nextWrite = larger(c.nextWrite, tRCD - AL)
       /\ b # p.bank =>
            /\ d.state = c.state /\ d.row = c.row /\ d.lastCommand = c.lastCommand
            /\ d.nextRead = c.nextRead /\ d.nextWrite = c.nextWrite
            /\ d.nextPrecharge = c.nextPrecharge
            /\ d.nextActivate = larger(c.nextActivate, tRRD)
  BY AfterActivateBank
<1>11. /\ step(d) \in Bank /\ step(d).state = d.state /\ step(d).row = d.row
       /\ step(d).lastCommand = d.lastCommand /\ step(d).countdown = d.countdown
       /\ step(d).nextRead = less1(d.nextRead) /\ step(d).nextWrite = less1(d.nextWrite)
       /\ step(d).nextActivate = less1(d.nextActivate)
       /\ step(d).nextPrecharge = less1(d.nextPrecharge)
  BY <1>10, StepType
<1>12. b = p.bank => c.countdown = 0
  BY <1>6
<1> HIDE DEF c, k, d, x, y, cp, kp, xp
<1>13. CASE b # p.bank
  <2>1. /\ step(d).state = c.state /\ step(d).row = c.row /\ step(d).countdown = c.countdown
        /\ step(d).lastCommand = c.lastCommand /\ y.state = k.state /\ y.row = k.row
        /\ step(d).nextRead = less1(c.nextRead) /\ step(d).nextWrite = less1(c.nextWrite)
        /\ step(d).nextPrecharge = less1(c.nextPrecharge)
        /\ step(d).nextActivate = less1(larger(c.nextActivate, tRRD))
        /\ y.nextRead = less1(k.nextRead) /\ y.nextWrite = less1(k.nextWrite)
        /\ y.nextPrecharge = less1(k.nextPrecharge)
        /\ y.nextActivate = larger(less1(k.nextActivate), tRRD)
    BY <1>4, <1>9, <1>10, <1>11, <1>13
  <2>2. less1(c.nextRead) \in Nat /\ less1(c.nextWrite) \in Nat
    BY <1>8, Less1
  <2>3. /\ less1(c.nextActivate) <= step(d).nextActivate
        /\ y.nextActivate <= step(d).nextActivate + 1
    BY <1>8, <2>1, Raised, Timings
  <2>4. k.state = "RowActive" => /\ y.nextRead <= step(d).nextRead + 1
                                 /\ y.nextWrite <= step(d).nextWrite + 1
                                 /\ y.nextPrecharge <= step(d).nextPrecharge + 1
    BY <1>8, <2>1, Raised, Timings
  <2>5. Covers(step(d), y, 1)
    BY <1>1, <1>9, <1>11, <2>1, <2>2, <2>3, <2>4, KeepsCover
  <2> QED
    BY <1>7, <2>5 DEF d, y
<1>14. CASE b = p.bank
  <2>1. /\ tRC <= less1(larger(c.nextActivate, tRC)) + 1
        /\ tRAS <= less1(larger(c.nextPrecharge, tRAS)) + 1
        /\ tRCD - AL <= less1(larger(c.nextRead, tRCD - AL)) + 1
        /\ tRCD - AL <= less1(larger(c.nextWrite, tRCD - AL)) + 1
    <3>1. \A m, n \in Nat : n <= less1(larger(m, n)) + 1
      BY DEF less1, larger
    <3> QED BY <1>8, <3>1, Timings, Delays
  <2>2. /\ step(d).state = "RowActive" /\ step(d).row = p.row /\ step(d).countdown = 0
        /\ y.state = "RowActive" /\ y.row = p.row
        /\ y.nextRead <= step(d).nextRead + 1 /\ y.nextWrite <= step(d).nextWrite + 1
        /\ y.nextPrecharge <= step(d).nextPrecharge + 1
        /\ y.nextActivate <= step(d).nextActivate + 1
    BY <1>9, <1>10, <1>11, <1>12, <1>14, <2>1
  <2>3. Covers(step(d), y, 1)
    BY <1>9, <1>11, <2>2 DEF Covers, Open
  <2> QED
    BY <1>7, <2>3 DEF d, y
<1> QED BY <1>13, <1>14

LEMMA ReceivedPrecharge ==
  ASSUME NEW banks, NEW p, p.type = "PRECHARGE", NEW b \in Banks, banks[b] \in Bank
  PROVE  LET x == banks[b]
             y == ReceivedBanks(banks, p)[b]
         IN  /\ y \in Bank
             /\ b = p.bank => /\ y.state = "Idle"
                              /\ y.nextActivate = larger(x.nextActivate, tRP)
             /\ b # p.bank => y = x
<1> DEFINE x == banks[b]
           y == ReceivedBanks(banks, p)[b]
           na == larger(x.nextActivate, tRP)
<1>1. y = IF b = p.bank THEN [x EXCEPT !.state = "Idle", !.nextActivate = na] ELSE x
  BY PrechargeIs, Zenon DEF ReceivedBanks, ReceivedBank
<1>2. na \in Nat /\ x \in Bank
  BY Larger, Timings DEF Bank
<1> HIDE DEF x, y, na
<1>3. /\ y \in Bank /\ (b # p.bank => y = x)
      /\ b = p.bank => y.state = "Idle" /\ y.nextActivate = na
  BY <1>1, <1>2 DEF Bank
<1> QED BY <1>3 DEF x, y, na

LEMMA AfterPrechargeBank ==
  ASSUME NEW table, IsTable(table), NEW p \in Packet, NEW b \in Banks
  PROVE  LET c == table[p.rank][b]
             d == AfterPrecharge(table, p)[p.rank][b]
         IN  /\ d \in Bank
             /\ b = p.bank => /\ d.state = "Precharging" /\ d.lastCommand = "PRECHARGE"
                              /\ d.countdown = tRP
                              /\ d.nextActivate = larger(c.nextActivate, tRP)
             /\ b # p.bank => d = c
<1> DEFINE c == table[p.rank][b]
           d == AfterPrecharge(table, p)[p.rank][b]
           na == larger(c.nextActivate, tRP)
           new == [table[p.rank][p.bank] EXCEPT
                     !.state = "Precharging", !.lastCommand = "PRECHARGE", !.countdown = tRP,
                     !.nextActivate = larger(table[p.rank][p.bank].nextActivate, tRP)]
<1>1. c \in Bank /\ p.rank \in Ranks /\ p.bank \in Banks
  BY DEF IsTable, Packet
<1>2. na \in Nat
  BY <1>1, Larger, Timings DEF Bank
<1>3. p.rank \in DOMAIN table /\ p.bank \in DOMAIN table[p.rank]
  BY <1>1 DEF IsTable
<1>4. AfterPrecharge(table, p) = [table EXCEPT ![p.rank][p.bank] = new]
  BY DEF AfterPrecharge
<1>5. d = IF b = p.bank THEN new ELSE c
  <2> HIDE DEF new
  <2> QED BY <1>1, <1>3, <1>4 DEF IsTable
<1>6. b = p.bank => new = [c EXCEPT !.state = "Precharging", !.lastCommand = "PRECHARGE",
                                    !.countdown = tRP, !.nextActivate = na]
  OBVIOUS
<1> HIDE DEF c, d, na, new
<1>7. /\ d \in Bank /\ (b # p.bank => d = c)
      /\ b = p.bank => /\ d.state = "Precharging" /\ d.lastCommand = "PRECHARGE"
                       /\ d.countdown = tRP /\ d.nextActivate = na
  <2>1. CASE b # p.bank
    BY <1>1, <1>5, <2>1
  <2>2. CASE b = p.bank
    <3>1. d = [state |-> "Precharging", row |-> c.row, nextRead |-> c.nextRead,
               nextWrite |-> c.nextWrite, nextActivate |-> na,
               nextPrecharge |-> c.nextPrecharge, nextPowerUp |-> c.nextPowerUp,
               lastCommand |-> "PRECHARGE", countdown |-> tRP]
      BY <1>1, <1>5, <1>6, <2>2 DEF Bank
    <3>2. /\ c.row \in Rows /\ c.nextRead \in Nat /\ c.nextWrite \in Nat
          /\ c.nextPrecharge \in Nat /\ c.nextPowerUp \in Nat /\ tRP \in Nat
      BY <1>1, Timings DEF Bank
    <3>3. d \in Bank
      BY <1>2, <3>1, <3>2 DEF Bank, Commands
    <3> QED BY <2>2, <3>1, <3>3
  <2> QED BY <2>1, <2>2
<1> QED BY <1>7 DEF c, d, na

LEMMA AllowedPrecharge ==
  ASSUME NEW banks, NEW p, p.type = "PRECHARGE",
         banks[p.bank].state = "RowActive",
         banks[p.bank].nextPrecharge = 0
  PROVE  Allowed(banks, p)
BY PrechargeIs, Zenon DEF Allowed

(* A bank that nothing but time changes.                                     *)
LEMMA QuietCover ==
  ASSUME NEW c, NEW k, Covers(c, k, 0)
  PROVE  Covers(step(c), step(k), 1)
<1>1. c \in Bank /\ k \in Bank
  BY DEF Covers
<1>2. /\ step(c) \in Bank /\ step(c).state = c.state /\ step(c).row = c.row
      /\ step(c).lastCommand = c.lastCommand /\ step(c).countdown = c.countdown
      /\ step(c).nextRead = less1(c.nextRead) /\ step(c).nextWrite = less1(c.nextWrite)
      /\ step(c).nextActivate = less1(c.nextActivate)
      /\ step(c).nextPrecharge = less1(c.nextPrecharge)
  BY <1>1, StepType
<1>3. /\ step(k) \in Bank /\ step(k).state = k.state /\ step(k).row = k.row
      /\ step(k).nextRead = less1(k.nextRead) /\ step(k).nextWrite = less1(k.nextWrite)
      /\ step(k).nextActivate = less1(k.nextActivate)
      /\ step(k).nextPrecharge = less1(k.nextPrecharge)
  BY <1>1, StepType
<1>4. /\ c.nextRead \in Nat /\ c.nextWrite \in Nat /\ c.nextActivate \in Nat
      /\ c.nextPrecharge \in Nat /\ k.nextActivate <= c.nextActivate + 1
      /\ k.nextRead \in Nat /\ k.nextWrite \in Nat /\ k.nextActivate \in Nat
      /\ k.nextPrecharge \in Nat
      /\ k.state = "RowActive" => /\ k.nextRead <= c.nextRead + 1
                                  /\ k.nextWrite <= c.nextWrite + 1
                                  /\ k.nextPrecharge <= c.nextPrecharge + 1
  BY <1>1 DEF Covers, Open, Closing, Bank
<1>5. less1(c.nextRead) \in Nat /\ less1(c.nextWrite) \in Nat /\ less1(c.nextActivate) \in Nat
  BY <1>4, Less1
<1>6. less1(k.nextActivate) <= less1(c.nextActivate) + 1
  BY <1>4, Raised
<1>7. k.state = "RowActive" => /\ less1(k.nextRead) <= less1(c.nextRead) + 1
                               /\ less1(k.nextWrite) <= less1(c.nextWrite) + 1
                               /\ less1(k.nextPrecharge) <= less1(c.nextPrecharge) + 1
  BY <1>4, Raised
<1> QED
  BY <1>2, <1>3, <1>5, <1>6, <1>7, KeepsCover

(* A precharge: only the open page policy sends it, and there no row closes  *)
(* by itself.                                                                *)
LEMMA PrechargeCover ==
  ASSUME NEW table, IsTable(table), NEW rank, NEW p \in Packet, NEW b \in Banks,
         IsRank(rank), p.type = "PRECHARGE", ini.rowBufferPolicy # "ClosePage",
         \A a \in Banks : Covers(table[p.rank][a], rank.bankStates[a], 0),
         table[p.rank][p.bank].state = "RowActive",
         table[p.rank][p.bank].nextPrecharge = 0
  PROVE  /\ Covers(step(AfterPrecharge(table, p)[p.rank][b]),
                   ReceivedBanks(RankStep(rank).bankStates, p)[b], 1)
         /\ Allowed(RankStep(rank).bankStates, p)
<1> DEFINE c == table[p.rank][b]
           k == rank.bankStates[b]
           d == AfterPrecharge(table, p)[p.rank][b]
           x == RankStep(rank).bankStates[b]
           y == ReceivedBanks(RankStep(rank).bankStates, p)[b]
           cp == table[p.rank][p.bank]
           kp == rank.bankStates[p.bank]
           xp == RankStep(rank).bankStates[p.bank]
<1>1. Covers(c, k, 0) /\ c \in Bank /\ k \in Bank
  BY DEF Covers
<1>2. p.rank \in Ranks /\ p.bank \in Banks
  BY DEF Packet
<1>3. x = step(k) /\ x \in Bank /\ xp = step(kp)
  <2>1. \A a \in Banks : RankStep(rank).bankStates[a] = step(rank.bankStates[a])
    BY RankStepBanks
  <2>2. x = step(k) /\ xp = step(kp)
    BY <1>2, <2>1
  <2>3. step(k) \in Bank
    BY <1>1, StepType
  <2> QED BY <2>2, <2>3
<1>4. Covers(cp, kp, 0) /\ cp \in Bank /\ kp \in Bank
  BY <1>2 DEF Covers
<1>5. Open(cp, kp)
  BY <1>4 DEF Covers, Closing
<1>6. Allowed(RankStep(rank).bankStates, p)
  <2>1. kp.state = "RowActive" /\ less1(kp.nextPrecharge) = 0
    BY <1>4, <1>5 DEF Open, less1, Bank
  <2>2. xp.state = "RowActive" /\ xp.nextPrecharge = 0
    BY <1>3, <1>4, <2>1, StepType
  <2> QED
    BY <2>2, AllowedPrecharge
<1>7. /\ y \in Bank
      /\ b = p.bank => /\ y.state = "Idle"
                       /\ y.nextActivate = larger(x.nextActivate, tRP)
      /\ b # p.bank => y = x
  BY <1>3, ReceivedPrecharge
<1>8. /\ d \in Bank
      /\ b = p.bank => /\ d.state = "Precharging" /\ d.lastCommand = "PRECHARGE"
                       /\ d.countdown = tRP
                       /\ d.nextActivate = larger(c.nextActivate, tRP)
      /\ b # p.bank => d = c
  BY AfterPrechargeBank
<1>9. CASE b # p.bank
  <2>1. Covers(step(c), step(k), 1)
    BY <1>1, QuietCover
  <2> QED BY <1>3, <1>6, <1>7, <1>8, <1>9, <2>1
<1>10. CASE b = p.bank
  <2>1. /\ step(d) \in Bank /\ step(d).state = d.state
        /\ step(d).lastCommand = d.lastCommand /\ step(d).countdown = d.countdown
        /\ step(d).nextActivate = less1(d.nextActivate)
    BY <1>8, StepType
  <2>2. x.nextActivate = less1(k.nextActivate)
    BY <1>1, <1>3, StepType
  <2>3. c.nextActivate \in Nat /\ k.nextActivate \in Nat /\ k.nextActivate <= c.nextActivate + 1
    BY <1>1 DEF Covers, Bank
  <2> HIDE DEF c, k, d, x, y, cp, kp, xp
  <2>4. y.nextActivate <= step(d).nextActivate + 1
    BY <1>7, <1>8, <1>10, <2>1, <2>2, <2>3, Raised, Timings
  <2>5. Covers(step(d), y, 1)
    BY <1>7, <1>8, <1>10, <2>1, <2>4, Timings DEF Covers
  <2> QED BY <1>6, <2>5 DEF d, y
<1> QED BY <1>9, <1>10

LEMMA RefreshFields ==
  ASSUME NEW table, IsTable(table), NEW banks, NEW p \in Packet, p.type = "REFRESH",
         NEW b \in Banks, banks[b] \in Bank
  PROVE  LET y == ReceivedBanks(banks, p)[b]
             d == AfterRefresh(table, p)[p.rank][b]
         IN  /\ y \in Bank /\ y.state = banks[b].state /\ y.nextActivate = tRFC
             /\ d \in Bank /\ d.state = "Refreshing" /\ d.lastCommand = "REFRESH"
             /\ d.countdown = tRFC /\ d.nextActivate = tRFC
<1> DEFINE x == banks[b]
           y == ReceivedBanks(banks, p)[b]
           c == table[p.rank][b]
           d == AfterRefresh(table, p)[p.rank][b]
<1>1. y = [x EXCEPT !.nextActivate = tRFC]
  BY RefreshIs, Zenon DEF ReceivedBanks, ReceivedBank
<1>2. c \in Bank /\ p.rank \in DOMAIN table
  BY DEF IsTable, Packet
<1>3. d = [c EXCEPT !.state = "Refreshing", !.lastCommand = "REFRESH",
                    !.countdown = tRFC, !.nextActivate = tRFC]
  <2> DEFINE row == [a \in Banks |->
        [table[p.rank][a] EXCEPT !.state = "Refreshing", !.lastCommand = "REFRESH",
                                 !.countdown = tRFC, !.nextActivate = tRFC]]
  <2>1. AfterRefresh(table, p) = [table EXCEPT ![p.rank] = row]
    BY DEF AfterRefresh
  <2>2. AfterRefresh(table, p)[p.rank] = row
    <3> HIDE DEF row
    <3> QED BY <1>2, <2>1
  <2> QED BY <2>2, Zenon
<1>4. x \in Bank
  OBVIOUS
<1> HIDE DEF c, d, x, y
<1>5. y \in Bank /\ y.state = x.state /\ y.nextActivate = tRFC
  BY <1>1, <1>4, Timings DEF Bank
<1>6. /\ d \in Bank /\ d.state = "Refreshing" /\ d.lastCommand = "REFRESH"
      /\ d.countdown = tRFC /\ d.nextActivate = tRFC
  BY <1>2, <1>3, Timings DEF Bank, Commands
<1> QED BY <1>5, <1>6 DEF d, x, y

LEMMA AllowedRefresh ==
  ASSUME NEW banks, NEW p, p.type = "REFRESH",
         \A a \in Banks : banks[a].state = "Idle"
  PROVE  Allowed(banks, p)
BY RefreshIs, Zenon DEF Allowed

(* A refresh, once no bank is open or has to wait.                           *)
LEMMA RefreshCover ==
  ASSUME NEW table, IsTable(table), NEW rank, NEW p \in Packet, NEW b \in Banks,
         IsRank(rank), p.type = "REFRESH",
         \A a \in Banks : /\ Covers(table[p.rank][a], rank.bankStates[a], 0)
                          /\ table[p.rank][a].state \notin {"RowActive", "PowerDown"}
  PROVE  /\ Covers(step(AfterRefresh(table, p)[p.rank][b]),
                   ReceivedBanks(RankStep(rank).bankStates, p)[b], 1)
         /\ Allowed(RankStep(rank).bankStates, p)
<1>1. \A a \in Banks : rank.bankStates[a] \in Bank /\ rank.bankStates[a].state = "Idle"
  BY DEF Covers, Bank
<1>2. \A a \in Banks : RankStep(rank).bankStates[a] = step(rank.bankStates[a])
  BY RankStepBanks
<1>3. \A a \in Banks : /\ RankStep(rank).bankStates[a] \in Bank
                       /\ RankStep(rank).bankStates[a].state = "Idle"
  BY <1>1, <1>2, StepType
<1>4. Allowed(RankStep(rank).bankStates, p)
  BY <1>3, AllowedRefresh
<1> DEFINE y == ReceivedBanks(RankStep(rank).bankStates, p)[b]
           d == AfterRefresh(table, p)[p.rank][b]
<1>5. /\ y \in Bank /\ y.state = "Idle" /\ y.nextActivate = tRFC
      /\ d \in Bank /\ d.state = "Refreshing" /\ d.lastCommand = "REFRESH"
      /\ d.countdown = tRFC /\ d.nextActivate = tRFC
  BY <1>3, RefreshFields
<1> HIDE DEF y, d
<1>6. /\ step(d) \in Bank /\ step(d).state = "Refreshing"
      /\ step(d).lastCommand = "REFRESH" /\ step(d).countdown = tRFC
      /\ step(d).nextActivate = less1(tRFC)
  BY <1>5, StepType
<1>7. tRFC <= less1(tRFC) + 1 /\ less1(tRFC) \in Nat
  BY Timings, Less1
<1>8. Covers(step(d), y, 1)
  BY <1>5, <1>6, <1>7, Timings DEF Covers
<1> QED BY <1>4, <1>8 DEF d, y

-----------------------------------------------------------------------------
(* The queues *)

(* A command that pop() may hand out.                                        *)
Sendable(table, p) ==
  LET b == table[p.rank][p.bank] IN
  /\ p \in Packet
  /\ \/ /\ IsRead(p) /\ p.type \in Queued
        /\ b.state = "RowActive" /\ b.row = p.row /\ b.nextRead = 0
     \/ /\ IsWrite(p) /\ p.type \in Queued
        /\ b.state = "RowActive" /\ b.row = p.row /\ b.nextWrite = 0
     \/ /\ p.type = "ACTIVATE"
        /\ b.state \in {"Idle", "Refreshing"} /\ b.nextActivate = 0
     \/ /\ p.type = "PRECHARGE" /\ ini.rowBufferPolicy # "ClosePage"
        /\ b.state = "RowActive" /\ b.nextPrecharge = 0
     \/ /\ p.type = "REFRESH" /\ table[p.rank][0].state # "PowerDown"
        /\ \A a \in Banks : table[p.rank][a].state # "RowActive"

(* What pop() tries leaves the queue well formed, and a command is Sendable. *)
GoodTry(table, try) ==
  /\ try = [packet |-> try.packet, queue |-> try.queue]
  /\ QueueOK(try.queue)
  /\ try.packet = NoPacket \/ Sendable(table, try.packet)

(* The loops over queues, ranks and banks end at the first index they look   *)
(* for.                                                                      *)
LEMMA MinIn ==
  ASSUME NEW S, S \subseteq Nat, S # {}
  PROVE  Min(S) \in S
<1>1. PICK x \in S : \A y \in S : ~(<<y, x>> \in OpToRel(<, Nat))
  BY NatLessThanWellFounded, WFMin, Zenon
<1>2. OpToRel(<, Nat) = {ss \in Nat \X Nat : ss[1] < ss[2]}
  BY Zenon DEF OpToRel
<1>3. ASSUME NEW y \in S PROVE x <= y
  <2>1. ~(<<y, x>> \in {ss \in Nat \X Nat : ss[1] < ss[2]})
    BY <1>1, <1>2, Zenon
  <2>2. ~(y < x)
    BY <2>1, SMT
  <2>3. x \in Nat /\ y \in Nat
    OBVIOUS
  <2> QED BY <2>2, <2>3, SMT
<1>4. \E z \in S : \A y \in S : z <= y
  BY <1>3
<1> QED BY <1>4 DEF Min

LEMMA Removed ==
  ASSUME NEW S, NEW s \in Seq(S), NEW i \in DOMAIN s
  PROVE  RemoveAt(s, i) \in Seq(S) /\ Len(RemoveAt(s, i)) = Len(s) - 1
<1>1. Len(s) \in Nat /\ i \in 1..Len(s) /\ \A j \in 1..Len(s) : s[j] \in S
  BY LenProperties
<1>2. /\ SubSeq(s, 1, i - 1) \in Seq(S)
      /\ Len(SubSeq(s, 1, i - 1)) = i - 1
  <2>1. 1 \in Int /\ i - 1 \in Int /\ \A j \in 1..(i - 1) : s[j] \in S
    BY <1>1
  <2>2. /\ SubSeq(s, 1, i - 1) \in Seq(S)
        /\ Len(SubSeq(s, 1, i - 1)) = IF 1 <= i - 1 THEN (i - 1) - 1 + 1 ELSE 0
    BY <2>1, SubSeqProperties
  <2> QED BY <1>1, <2>2
<1>3. /\ SubSeq(s, i + 1, Len(s)) \in Seq(S)
      /\ Len(SubSeq(s, i + 1, Len(s))) = Len(s) - i
  <2>1. i + 1 \in Int /\ Len(s) \in Int /\ \A j \in (i + 1)..Len(s) : s[j] \in S
    BY <1>1
  <2>2. /\ SubSeq(s, i + 1, Len(s)) \in Seq(S)
        /\ Len(SubSeq(s, i + 1, Len(s))) = IF i + 1 <= Len(s) THEN Len(s) - (i + 1) + 1 ELSE 0
    BY <2>1, SubSeqProperties
  <2> QED BY <1>1, <2>2
<1>4. /\ RemoveAt(s, i) \in Seq(S)
      /\ Len(RemoveAt(s, i)) = Len(SubSeq(s, 1, i - 1)) + Len(SubSeq(s, i + 1, Len(s)))
  BY <1>2, <1>3, ConcatProperties DEF RemoveAt
<1>5. Len(RemoveAt(s, i)) = (i - 1) + (Len(s) - i)
  BY <1>2, <1>3, <1>4, Zenon
<1>6. (i - 1) + (Len(s) - i) = Len(s) - 1
  BY <1>1
<1> QED BY <1>4, <1>5, <1>6, Zenon

LEMMA ZeroIn == 0 \in Banks /\ 0 \in Ranks /\ Banks \subseteq Nat /\ Ranks \subseteq Nat
BY Timings DEF Banks, Ranks

LEMMA QueueIndexIn ==
  ASSUME NEW b \in Banks
  PROVE  QueueIndex(ini, b) \in Banks
BY ZeroIn DEF QueueIndex

LEMMA CommandQueueIn ==
  ASSUME NEW q, QueueOK(q), NEW r \in Ranks, NEW b \in Banks
  PROVE  getCommandQueue(ini, q, r, b) \in Seq(QueuePackets(r))
BY QueueIndexIn DEF getCommandQueue, QueueOK

(* The queues with another sequence in one place, and what else is as it was. *)
LEMMA QueuesEdited ==
  ASSUME NEW q, QueueOK(q), NEW r \in Ranks, NEW b \in Banks,
         NEW s \in Seq(QueuePackets(r))
  PROVE  LET t == [q EXCEPT !.queues[r][QueueIndex(ini, b)] = s]
         IN  /\ QueueOK(t) /\ getCommandQueue(ini, t, r, b) = s
             /\ t.rowAccessCounters = q.rowAccessCounters
<1> DEFINE n == QueueIndex(ini, b)
           new == [q.queues EXCEPT ![r][n] = s]
           t == [q EXCEPT !.queues = new]
<1>1. n \in Banks
  BY QueueIndexIn
<1>2. /\ q \in Queue /\ q.queues \in [Ranks -> [Banks -> Seq(Packet)]]
      /\ \A a \in Ranks, c \in Banks : q.queues[a][c] \in Seq(QueuePackets(a))
  BY DEF QueueOK, Queue
<1>3. s \in Seq(Packet)
  BY DEF QueuePackets
<1> HIDE DEF n
<1>4. /\ new \in [Ranks -> [Banks -> Seq(Packet)]] /\ new[r][n] = s
      /\ \A a \in Ranks, c \in Banks : new[a][c] \in Seq(QueuePackets(a))
  BY <1>1, <1>2, <1>3
<1>5. [q EXCEPT !.queues[r][n] = s] = t
  BY <1>2 DEF Queue
<1> HIDE DEF new
<1>6. /\ t \in Queue /\ t.queues = new /\ t.refreshWaiting = q.refreshWaiting
      /\ t.refreshRank = q.refreshRank /\ t.rowAccessCounters = q.rowAccessCounters
  BY <1>2, <1>4 DEF Queue
<1> HIDE DEF t
<1>7. QueueOK(t)
  BY <1>4, <1>6 DEF QueueOK
<1> QED
  BY <1>4, <1>5, <1>6, <1>7 DEF getCommandQueue, n

LEMMA EraseOK ==
  ASSUME NEW q, QueueOK(q), NEW r \in Ranks, NEW b \in Banks,
         NEW i \in DOMAIN getCommandQueue(ini, q, r, b)
  PROVE  LET t == Erase(ini, q, r, b, i) IN
         /\ QueueOK(t)
         /\ getCommandQueue(ini, t, r, b) = RemoveAt(getCommandQueue(ini, q, r, b), i)
         /\ t.rowAccessCounters = q.rowAccessCounters
<1> DEFINE s == getCommandQueue(ini, q, r, b)
<1>1. RemoveAt(s, i) \in Seq(QueuePackets(r))
  BY CommandQueueIn, Removed
<1>2. Erase(ini, q, r, b, i) = [q EXCEPT !.queues[r][QueueIndex(ini, b)] = RemoveAt(s, i)]
  BY DEF Erase, getCommandQueue
<1> QED
  BY <1>1, <1>2, QueuesEdited

LEMMA EnqueueOK ==
  ASSUME NEW q, QueueOK(q), NEW p \in Packet, p.type \in Queued
  PROVE  QueueOK(enqueue(ini, q, p))
<1> DEFINE s == getCommandQueue(ini, q, p.rank, p.bank)
<1>1. p.rank \in Ranks /\ p.bank \in Banks /\ p \in QueuePackets(p.rank)
  BY DEF Packet, QueuePackets
<1>2. Append(s, p) \in Seq(QueuePackets(p.rank))
  BY <1>1, CommandQueueIn
<1>3. enqueue(ini, q, p) = [q EXCEPT !.queues[p.rank][QueueIndex(ini, p.bank)] = Append(s, p)]
  BY DEF enqueue, getCommandQueue
<1> DEFINE r == p.rank
           b == p.bank
           t == Append(s, p)
<1>4. r \in Ranks /\ b \in Banks /\ t \in Seq(QueuePackets(r))
  BY <1>1, <1>2
<1>5. enqueue(ini, q, p) = [q EXCEPT !.queues[r][QueueIndex(ini, b)] = t]
  BY <1>3
<1> HIDE DEF r, b, t
<1> QED
  BY <1>4, <1>5, QueuesEdited

LEMMA StepWindowOK ==
  ASSUME NEW q, QueueOK(q)
  PROVE  QueueOK(StepWindow(q))
<1> DEFINE left(r) == [i \in DOMAIN q.tFAWCountdown[r] |-> q.tFAWCountdown[r][i] - 1]
           rest(r) == IF left(r) # <<>> /\ Head(left(r)) = 0 THEN Tail(left(r)) ELSE left(r)
           new == [r \in Ranks |-> rest(r)]
<1>1. StepWindow(q) = [q EXCEPT !.tFAWCountdown = new]
  BY DEF StepWindow
<1>2. ASSUME NEW r \in Ranks PROVE rest(r) \in Seq(Int)
  <2>1. q.tFAWCountdown[r] \in Seq(Int)
    BY DEF QueueOK, Queue
  <2>2. left(r) \in Seq(Int)
    BY <2>1
  <2> HIDE DEF left
  <2> QED BY <2>2
<1>3. new \in [Ranks -> Seq(Int)]
  BY <1>2
<1> HIDE DEF new
<1>4. q \in Queue
  BY DEF QueueOK
<1>5. /\ StepWindow(q) \in Queue /\ StepWindow(q).queues = q.queues
      /\ StepWindow(q).refreshWaiting = q.refreshWaiting
      /\ StepWindow(q).refreshRank = q.refreshRank
  BY <1>1, <1>3, <1>4 DEF Queue
<1> QED
  BY <1>5 DEF QueueOK

LEMMA IssuableSendable ==
  ASSUME NEW q, NEW table, NEW r \in Ranks, NEW p \in QueuePackets(r), isIssuable(q, table, p)
  PROVE  Sendable(table, p)
<1>1. p \in Packet /\ p.type \in Queued
  BY DEF QueuePackets
<1>2. p.type = "ACTIVATE" \/ IsRead(p) \/ IsWrite(p)
  BY <1>1 DEF Queued, IsRead, IsWrite
<1> DEFINE b == table[p.rank][p.bank]
<1>3. CASE p.type = "ACTIVATE"
  <2>1. b.state \in {"Idle", "Refreshing"} /\ b.nextActivate = 0
    BY <1>3, ActivateIs, Zenon DEF isIssuable
  <2> QED BY <1>1, <1>3, <2>1 DEF Sendable
<1>4. CASE IsRead(p)
  <2>1. b.state = "RowActive" /\ b.row = p.row /\ b.nextRead = 0
    BY <1>4, ReadIs, Zenon DEF isIssuable
  <2> QED BY <1>1, <1>4, <2>1 DEF Sendable
<1>5. CASE IsWrite(p)
  <2>1. b.state = "RowActive" /\ b.row = p.row /\ b.nextWrite = 0
    BY <1>5, WriteIs, Zenon DEF isIssuable
  <2> QED BY <1>1, <1>5, <2>1 DEF Sendable
<1> QED BY <1>2, <1>3, <1>4, <1>5

LEMMA NothingGood ==
  ASSUME NEW table, NEW q, QueueOK(q)
  PROVE  GoodTry(table, Nothing(q)) /\ Nothing(q).packet = NoPacket /\ Nothing(q).queue = q
BY DEF GoodTry, Nothing

LEMMA OwnPacketIs ==
  ASSUME NEW r \in Ranks, NEW b \in Banks, NEW t \in Commands
  PROVE  LET p == OwnPacket(t, r, b) IN
         /\ p \in Packet /\ p.type = t /\ p.rank = r /\ p.bank = b
<1>1. 0 \in Rows
  BY Timings DEF Rows
<1> QED BY <1>1 DEF OwnPacket, NoPacket, Packet

LEMMA SendPREGood ==
  ASSUME NEW table, NEW q, QueueOK(q), NEW r \in Ranks, NEW b \in Banks,
         ini.rowBufferPolicy # "ClosePage",
         table[r][b].state = "RowActive", table[r][b].nextPrecharge = 0
  PROVE  GoodTry(table, SendPRE(q, r, b))
<1> DEFINE p == OwnPacket("PRECHARGE", r, b)
           new == [q.rowAccessCounters EXCEPT ![r][b] = 0]
           t == [q EXCEPT !.rowAccessCounters[r][b] = 0]
<1>1. p \in Packet /\ p.type = "PRECHARGE" /\ p.rank = r /\ p.bank = b
  BY OwnPacketIs DEF Commands
<1>2. q \in Queue /\ q.rowAccessCounters \in [Ranks -> [Banks -> Nat]]
  BY DEF QueueOK, Queue
<1>3. t = [q EXCEPT !.rowAccessCounters = new] /\ new \in [Ranks -> [Banks -> Nat]]
  BY <1>2 DEF Queue
<1> HIDE DEF new, p, t
<1>4. /\ t \in Queue /\ t.queues = q.queues /\ t.refreshWaiting = q.refreshWaiting
      /\ t.refreshRank = q.refreshRank
  BY <1>2, <1>3 DEF Queue
<1>5. QueueOK(t)
  BY <1>4 DEF QueueOK
<1>6. SendPRE(q, r, b) = [packet |-> p, queue |-> t]
  BY DEF SendPRE, p, t
<1>7. Sendable(table, p)
  BY <1>1 DEF Sendable
<1> QED
  BY <1>5, <1>6, <1>7 DEF GoodTry

(* The refresh that waits: its own command, or one that the banks need first. *)
LEMMA TryRefreshGood ==
  ASSUME NEW table, NEW q, QueueOK(q)
  PROVE  GoodTry(table, TryRefresh(ini, q, table))
<1> DEFINE r == q.refreshRank
           busy == {b \in Banks : table[r][b].state = "RowActive" \/ table[r][b].nextActivate > 0}
           b == Min(busy)
           queue0 == getCommandQueue(ini, q, r, b)
           same == {j \in DOMAIN queue0 :
                      queue0[j].bank = b /\ queue0[j].row = table[r][b].row}
           column == same # {} /\ queue0[Min(same)].type # "ACTIVATE"
           refresh == [packet |-> OwnPacket("REFRESH", r, 0),
                       queue |-> [q EXCEPT !.refreshRank = -1, !.refreshWaiting = FALSE]]
           access0 == [packet |-> queue0[Min(same)], queue |-> Erase(ini, q, r, b, Min(same))]
<1>1. TryRefresh(ini, q, table) =
        IF ~q.refreshWaiting THEN Nothing(q)
        ELSE IF busy = {}
        THEN IF table[r][0].state = "PowerDown" THEN Nothing(q) ELSE refresh
        ELSE IF table[r][b].state # "RowActive" THEN Nothing(q)
        ELSE IF column
        THEN IF isIssuable(q, table, queue0[Min(same)]) THEN access0 ELSE Nothing(q)
        ELSE IF ini.rowBufferPolicy = "OpenPage" /\ table[r][b].nextPrecharge = 0
        THEN SendPRE(q, r, b)
        ELSE Nothing(q)
  BY Zenon DEF TryRefresh
<1>2. q.refreshWaiting => r \in Ranks
  BY DEF QueueOK
<1>3. busy # {} => b \in Banks /\ b \in busy
  <2>1. busy \subseteq Nat
    BY ZeroIn
  <2> QED BY <2>1, MinIn
<1>4. GoodTry(table, Nothing(q))
  BY NothingGood
<1>5. ASSUME q.refreshWaiting, busy = {}, table[r][0].state # "PowerDown"
      PROVE  GoodTry(table, refresh)
  <2> DEFINE p == OwnPacket("REFRESH", r, 0)
             t == [q EXCEPT !.refreshRank = -1, !.refreshWaiting = FALSE]
  <2>1. p \in Packet /\ p.type = "REFRESH" /\ p.rank = r
    <3>1. r \in Ranks
      BY <1>2, <1>5, Zenon
    <3>2. 0 \in Banks /\ "REFRESH" \in Commands
      BY ZeroIn DEF Commands
    <3> HIDE DEF r
    <3> QED BY <3>1, <3>2, OwnPacketIs
  <2>2. \A a \in Banks : table[r][a].state # "RowActive"
    BY <1>5
  <2>3. Sendable(table, p)
    <3> HIDE DEF p
    <3> QED BY <1>5, <2>1, <2>2 DEF Sendable
  <2>4. t \in Queue /\ t.queues = q.queues /\ ~t.refreshWaiting
    BY DEF QueueOK, Queue
  <2>5. QueueOK(t)
    <3> HIDE DEF t
    <3> QED BY <2>4 DEF QueueOK
  <2>6. refresh = [packet |-> p, queue |-> t]
    OBVIOUS
  <2> HIDE DEF p, t, refresh
  <2> QED BY <2>3, <2>5, <2>6 DEF GoodTry
<1>6. ASSUME q.refreshWaiting, busy # {}, column, isIssuable(q, table, queue0[Min(same)])
      PROVE  GoodTry(table, access0)
  <2> DEFINE i == Min(same)
             p == queue0[i]
             t == Erase(ini, q, r, b, i)
  <2>1. r \in Ranks /\ b \in Banks
    BY <1>2, <1>3, <1>6
  <2>2. queue0 \in Seq(QueuePackets(r))
    BY <2>1, CommandQueueIn
  <2>3. i \in DOMAIN queue0
    <3>1. DOMAIN queue0 \subseteq Nat
      <4> HIDE DEF queue0
      <4> QED BY <2>2, LenProperties
    <3>2. same \subseteq Nat
      BY <3>1, Zenon
    <3>3. i \in same
      BY <1>6, <3>2, MinIn
    <3>4. same \subseteq DOMAIN queue0
      OBVIOUS
    <3> QED BY <3>3, <3>4, Zenon
  <2>4. p \in QueuePackets(r)
    <3> HIDE DEF queue0, i
    <3> QED BY <2>2, <2>3, LenProperties
  <2>5. Sendable(table, p)
    BY <1>6, <2>1, <2>4, IssuableSendable
  <2>6. QueueOK(t)
    BY <2>1, <2>3, EraseOK
  <2>7. access0 = [packet |-> p, queue |-> t]
    OBVIOUS
  <2> HIDE DEF p, t, access0
  <2> QED BY <2>5, <2>6, <2>7 DEF GoodTry
<1>7. ASSUME q.refreshWaiting, busy # {}, table[r][b].state = "RowActive",
             ini.rowBufferPolicy = "OpenPage", table[r][b].nextPrecharge = 0
      PROVE  GoodTry(table, SendPRE(q, r, b))
  BY <1>2, <1>3, <1>7, SendPREGood
<1> HIDE DEF r, busy, b, queue0, same, column, refresh, access0
<1> QED
  BY <1>1, <1>4, <1>5, <1>6, <1>7, Zenon

-----------------------------------------------------------------------------
(* The round robin *)

LEMMA TimesNat ==
  ASSUME NEW a \in Nat, NEW z \in Nat
  PROVE  a * z \in Nat
OBVIOUS

LEMMA TimesMonotone ==
  ASSUME NEW a \in Nat, NEW b \in Nat, NEW z \in Nat, a <= b
  PROVE  a * z <= b * z
OBVIOUS

LEMMA DivMod ==
  ASSUME NEW n \in Nat, NEW z \in Nat \ {0}
  PROVE  n \div z \in Nat /\ n % z \in 0..(z - 1) /\ (n \div z) * z <= n
OBVIOUS

LEMMA DivRange ==
  ASSUME NEW r \in Nat \ {0}, NEW z \in Nat \ {0}, NEW n \in 0..(r * z - 1)
  PROVE  n \div z \in 0..(r - 1)
<1> DEFINE d == n \div z
<1>1. r * z \in Nat
  BY TimesNat
<1>2. n \in Nat /\ n < r * z
  BY <1>1
<1>3. d \in Nat /\ d * z <= n
  BY <1>2, DivMod
<1> HIDE DEF d
<1>4. ASSUME r <= d PROVE FALSE
  <2>1. r * z <= d * z
    BY <1>3, <1>4, TimesMonotone
  <2>2. d * z \in Nat
    BY <1>3, TimesNat
  <2> DEFINE a == r * z
             b == d * z
  <2> HIDE DEF a, b
  <2>3. a <= b /\ b <= n /\ n < a /\ a \in Nat /\ b \in Nat /\ n \in Nat
    BY <1>1, <1>2, <1>3, <2>1, <2>2 DEF a, b
  <2> QED BY <2>3
<1>5. d \in 0..(r - 1)
  BY <1>3, <1>4
<1> QED BY <1>5 DEF d

LEMMA PlacesRange ==
  ASSUME NEW n \in Nat
  PROVE  RankAt(ini, n % Places) \in Ranks /\ BankAt(ini, n % Places) \in Banks
<1>1. NUM_RANKS \in Nat \ {0} /\ NUM_BANKS \in Nat \ {0}
  BY Timings
<1>2. /\ NUM_RANKS * NUM_BANKS \in Nat \ {0}
      /\ NUM_RANKS * NUM_BANKS = NUM_BANKS * NUM_RANKS
  BY <1>1
<1> DEFINE m == n % Places
<1>3. m \in 0..(NUM_RANKS * NUM_BANKS - 1)
  <2> DEFINE z == NUM_RANKS * NUM_BANKS
  <2> HIDE DEF z
  <2>1. z \in Nat \ {0}
    BY <1>2 DEF z
  <2>2. n % z \in 0..(z - 1)
    BY <2>1, DivMod
  <2> QED BY <2>2 DEF z, Places
<1>4. m \in Nat
  <2> DEFINE z == NUM_RANKS * NUM_BANKS
  <2> HIDE DEF z
  <2>1. z \in Nat /\ m \in 0..(z - 1)
    BY <1>2, <1>3 DEF z
  <2> QED BY <2>1
<1> HIDE DEF m
<1>5. m \div NUM_BANKS \in Ranks
  BY <1>1, <1>3, DivRange DEF Ranks
<1>6. m \div NUM_RANKS \in Banks
  BY <1>1, <1>2, <1>3, DivRange DEF Banks
<1>7. m % NUM_RANKS \in Ranks /\ m % NUM_BANKS \in Banks
  BY <1>1, <1>4, DivMod DEF Ranks, Banks
<1> QED
  BY <1>5, <1>6, <1>7 DEF RankAt, BankAt, m

LEMMA PlaceNat ==
  ASSUME NEW r \in Ranks, NEW b \in Banks
  PROVE  PlaceOf(ini, r, b) \in Nat
<1>1. r \in Nat /\ b \in Nat /\ NUM_RANKS \in Nat /\ NUM_BANKS \in Nat
  BY ZeroIn, Timings
<1>2. b * NUM_RANKS \in Nat /\ r * NUM_BANKS \in Nat
  BY <1>1, TimesNat
<1> QED BY <1>1, <1>2 DEF PlaceOf

LEMMA NextPlace ==
  ASSUME NEW r \in Ranks, NEW b \in Banks
  PROVE  LET next == nextRankAndBank(ini, r, b)
         IN  next.rank \in Ranks /\ next.bank \in Banks
BY PlaceNat, PlacesRange DEF nextRankAndBank

LEMMA TakeGood ==
  ASSUME NEW table, NEW q, QueueOK(q), NEW r \in Ranks, NEW b \in Banks,
         NEW i \in DOMAIN getCommandQueue(ini, q, r, b),
         isIssuable(q, table, getCommandQueue(ini, q, r, b)[i])
  PROVE  GoodTry(table, Take(ini, q, r, b, i))
<1> DEFINE queue0 == getCommandQueue(ini, q, r, b)
           p == queue0[i]
           hit == ini.rowBufferPolicy = "OpenPage" /\ i > 1 /\ queue0[i - 1].type = "ACTIVATE"
           rest == Erase(ini, q, r, b, i)
           both == Erase(ini, rest, r, b, i - 1)
           counted == [both EXCEPT !.rowAccessCounters[p.rank][p.bank] = @ + 1]
           left == IF hit THEN counted ELSE rest
           t == [left EXCEPT !.nextRank = r, !.nextBank = b]
<1>1. Take(ini, q, r, b, i) = [packet |-> p, queue |-> t]
  BY DEF Take
<1>2. queue0 \in Seq(QueuePackets(r))
  BY CommandQueueIn
<1>3. p \in QueuePackets(r)
  <2> HIDE DEF queue0
  <2> QED BY <1>2, LenProperties DEF queue0
<1>4. Sendable(table, p)
  BY <1>3, IssuableSendable
<1>5. /\ QueueOK(rest) /\ getCommandQueue(ini, rest, r, b) = RemoveAt(queue0, i)
  BY EraseOK
<1>6. hit => QueueOK(counted)
  <2> SUFFICES ASSUME hit PROVE QueueOK(counted)
    OBVIOUS
  <2>1. i - 1 \in DOMAIN getCommandQueue(ini, rest, r, b)
    <3> HIDE DEF queue0
    <3>1. RemoveAt(queue0, i) \in Seq(QueuePackets(r)) /\ Len(RemoveAt(queue0, i)) = Len(queue0) - 1
      BY <1>2, Removed DEF queue0
    <3>2. i \in 1..Len(queue0) /\ Len(queue0) \in Nat /\ i > 1
      BY <1>2, LenProperties DEF queue0
    <3>3. DOMAIN RemoveAt(queue0, i) = 1..(Len(queue0) - 1)
      BY <3>1, LenProperties
    <3>4. i - 1 \in 1..(Len(queue0) - 1)
      BY <3>2
    <3> QED BY <1>5, <3>3, <3>4
  <2>2. QueueOK(both)
    <3> HIDE DEF rest
    <3> QED BY <1>5, <2>1, EraseOK
  <2>3. p.rank \in Ranks /\ p.bank \in Banks
    BY <1>3 DEF QueuePackets, Packet
  <2> HIDE DEF both, p
  <2> DEFINE new == [both.rowAccessCounters EXCEPT ![p.rank][p.bank] = @ + 1]
  <2>4. both \in Queue /\ both.rowAccessCounters \in [Ranks -> [Banks -> Nat]]
    BY <2>2 DEF QueueOK, Queue
  <2>5. counted = [both EXCEPT !.rowAccessCounters = new]
    BY <2>4 DEF Queue
  <2>6. new \in [Ranks -> [Banks -> Nat]]
    BY <2>3, <2>4
  <2> HIDE DEF counted, new
  <2>7. /\ counted \in Queue /\ counted.queues = both.queues
        /\ counted.refreshWaiting = both.refreshWaiting /\ counted.refreshRank = both.refreshRank
    BY <2>4, <2>5, <2>6 DEF Queue
  <2> QED BY <2>2, <2>7 DEF QueueOK
<1>7. QueueOK(left)
  BY <1>5, <1>6
<1> HIDE DEF left
<1>8. /\ t \in Queue /\ t.queues = left.queues
      /\ t.refreshWaiting = left.refreshWaiting /\ t.refreshRank = left.refreshRank
  BY <1>7 DEF QueueOK, Queue
<1> HIDE DEF t, p
<1>9. QueueOK(t)
  BY <1>7, <1>8 DEF QueueOK
<1> QED
  BY <1>1, <1>4, <1>9 DEF GoodTry

LEMMA TryIssueGood ==
  ASSUME NEW table, NEW q, QueueOK(q)
  PROVE  GoodTry(table, TryIssue(ini, q, table))
<1> DEFINE start == PlaceOf(ini, q.nextRank, q.nextBank)
           rank(k) == IF ini.queuingStructure = "PerRank" THEN (q.nextRank + k) % NUM_RANKS
                      ELSE RankAt(ini, (start + k) % Places)
           bank(k) == IF ini.queuingStructure = "PerRank" THEN q.nextBank
                      ELSE BankAt(ini, (start + k) % Places)
           turns == 0..((IF ini.queuingStructure = "PerRank" THEN NUM_RANKS ELSE Places) - 1)
           found == {k \in turns : Ready(ini, q, table, rank(k), bank(k)) # {}}
           k0 == Min(found)
           r == rank(k0)
           b == bank(k0)
           i == Min(Ready(ini, q, table, r, b))
<1>1. TryIssue(ini, q, table) = IF found = {} THEN Nothing(q) ELSE Take(ini, q, r, b, i)
  BY DEF TryIssue
<1>2. q.nextRank \in Ranks /\ q.nextBank \in Banks
  BY DEF QueueOK, Queue
<1>3. found \subseteq Nat
  OBVIOUS
<1>4. ASSUME found # {}
      PROVE  GoodTry(table, Take(ini, q, r, b, i))
  <2>1. k0 \in found
    BY <1>3, <1>4, MinIn
  <2>2. k0 \in Nat /\ Ready(ini, q, table, r, b) # {}
    BY <1>3, <2>1
  <2>3. r \in Ranks /\ b \in Banks
    <3> HIDE DEF k0
    <3>1. CASE ini.queuingStructure = "PerRank"
      <4>1. q.nextRank + k0 \in Nat
        <5>1. q.nextRank \in Nat /\ k0 \in Nat
          BY <1>2, <2>2, ZeroIn
        <5> QED BY <5>1
      <4>2. (q.nextRank + k0) % NUM_RANKS \in 0..(NUM_RANKS - 1)
        BY <4>1, Timings, DivMod
      <4> QED BY <1>2, <3>1, <4>2 DEF Ranks
    <3>2. CASE ini.queuingStructure # "PerRank"
      <4>1. start \in Nat
        BY <1>2, PlaceNat
      <4>2. start + k0 \in Nat
        <5> HIDE DEF start
        <5> QED BY <2>2, <4>1
      <4> QED BY <3>2, <4>2, PlacesRange
    <3> QED BY <3>1, <3>2
  <2> HIDE DEF r, b
  <2>4. getCommandQueue(ini, q, r, b) \in Seq(QueuePackets(r))
    BY <2>3, CommandQueueIn
  <2>5. Ready(ini, q, table, r, b) \subseteq DOMAIN getCommandQueue(ini, q, r, b)
    BY DEF Ready
  <2>6. DOMAIN getCommandQueue(ini, q, r, b) \subseteq Nat
    BY <2>4, LenProperties
  <2>7. i \in Ready(ini, q, table, r, b)
    BY <2>2, <2>5, <2>6, MinIn
  <2>8. /\ i \in DOMAIN getCommandQueue(ini, q, r, b)
        /\ isIssuable(q, table, getCommandQueue(ini, q, r, b)[i])
    BY <2>7 DEF Ready
  <2> HIDE DEF i
  <2> QED BY <2>3, <2>8, TakeGood
<1> HIDE DEF found, r, b, i
<1> QED BY <1>1, <1>4, NothingGood

LEMMA TryCloseGood ==
  ASSUME NEW table, NEW q, QueueOK(q)
  PROVE  GoodTry(table, TryClose(ini, q, table))
<1> DEFINE start == PlaceOf(ini, q.nextRankPRE, q.nextBankPRE)
           rank(k) == RankAt(ini, (start + k) % Places)
           bank(k) == BankAt(ini, (start + k) % Places)
           wanted(a, c) == \E j \in DOMAIN getCommandQueue(ini, q, a, c) :
                             LET p == getCommandQueue(ini, q, a, c)[j]
                             IN  p.bank = c /\ p.row = table[a][c].row
           closable == {k \in 0..(Places - 1) :
                          LET x == table[rank(k)][bank(k)]
                          IN  /\ x.state = "RowActive" /\ x.nextPrecharge = 0
                              /\ \/ ~wanted(rank(k), bank(k))
                                 \/ q.rowAccessCounters[rank(k)][bank(k)] = TOTAL_ROW_ACCESSES}
           k0 == Min(closable)
           r == rank(k0)
           b == bank(k0)
           t == [q EXCEPT !.nextRankPRE = r, !.nextBankPRE = b]
<1>1. TryClose(ini, q, table) =
        IF closable = {} \/ ini.rowBufferPolicy = "ClosePage" THEN Nothing(q)
        ELSE SendPRE(t, r, b)
  BY DEF TryClose
<1>2. q.nextRankPRE \in Ranks /\ q.nextBankPRE \in Banks
  BY DEF QueueOK, Queue
<1>3. closable \subseteq Nat
  OBVIOUS
<1>4. ASSUME closable # {}, ini.rowBufferPolicy # "ClosePage"
      PROVE  GoodTry(table, SendPRE(t, r, b))
  <2>1. k0 \in closable
    <3> HIDE DEF closable
    <3> QED BY <1>3, <1>4, MinIn
  <2>2. k0 \in Nat /\ table[r][b].state = "RowActive" /\ table[r][b].nextPrecharge = 0
    <3> HIDE DEF k0, wanted
    <3> QED BY <2>1
  <2>3. r \in Ranks /\ b \in Banks
    <3> HIDE DEF k0
    <3>1. start \in Nat
      BY <1>2, PlaceNat
    <3>2. start + k0 \in Nat
      <4> HIDE DEF start
      <4> QED BY <2>2, <3>1
    <3> QED BY <3>2, PlacesRange
  <2> HIDE DEF r, b
  <2>4. /\ t \in Queue /\ t.queues = q.queues
        /\ t.refreshWaiting = q.refreshWaiting /\ t.refreshRank = q.refreshRank
    BY <2>3 DEF QueueOK, Queue
  <2> HIDE DEF t
  <2>5. QueueOK(t)
    BY <2>4 DEF QueueOK
  <2> QED
    BY <1>4, <2>2, <2>3, <2>5, SendPREGood
<1> HIDE DEF closable, r, b, t
<1> QED BY <1>1, <1>4, NothingGood

LEMMA SentGood ==
  ASSUME NEW table, NEW try, GoodTry(table, try), try.packet # NoPacket
  PROVE  GoodTry(table, Sent(ini, try))
<1> DEFINE q == try.queue
           p == try.packet
           next == nextRankAndBank(ini, q.nextRank, q.nextBank)
           posted == AL > 0 /\ q.sendAct
           no == FALSE
           yes == TRUE
           wait == [q EXCEPT !.sendAct = no]
           go == [q EXCEPT !.sendAct = yes, !.nextRank = next.rank, !.nextBank = next.bank]
           moved == IF posted THEN wait ELSE go
           window == [moved EXCEPT !.tFAWCountdown[p.rank] = Append(@, tFAW)]
           t == IF p.type = "ACTIVATE" THEN window ELSE moved
<1>1. Sent(ini, try) = [try EXCEPT !.queue = t]
  BY DEF Sent
<1>2. /\ QueueOK(q) /\ Sendable(table, p) /\ p.rank \in Ranks
      /\ try = [packet |-> p, queue |-> q]
  BY DEF GoodTry, Sendable, Packet
<1>3. q \in Queue /\ no \in BOOLEAN /\ yes \in BOOLEAN
  BY <1>2 DEF QueueOK
<1>4. next.rank \in Ranks /\ next.bank \in Banks
  <2>1. q.nextRank \in Ranks /\ q.nextBank \in Banks
    BY <1>3 DEF Queue
  <2> QED BY <2>1, NextPlace
<1> HIDE DEF q, p, next, no, yes
<1>5. /\ wait \in Queue /\ wait.queues = q.queues
      /\ wait.refreshWaiting = q.refreshWaiting /\ wait.refreshRank = q.refreshRank
  BY <1>3 DEF Queue
<1>6. /\ go \in Queue /\ go.queues = q.queues
      /\ go.refreshWaiting = q.refreshWaiting /\ go.refreshRank = q.refreshRank
  BY <1>3, <1>4 DEF Queue
<1> HIDE DEF wait, go
<1>7. /\ moved \in Queue /\ moved.queues = q.queues
      /\ moved.refreshWaiting = q.refreshWaiting /\ moved.refreshRank = q.refreshRank
  BY <1>5, <1>6
<1> HIDE DEF moved
<1>8. /\ window \in Queue /\ window.queues = q.queues
      /\ window.refreshWaiting = q.refreshWaiting /\ window.refreshRank = q.refreshRank
  <2> DEFINE new == [moved.tFAWCountdown EXCEPT ![p.rank] = Append(@, tFAW)]
  <2>1. moved.tFAWCountdown \in [Ranks -> Seq(Int)]
    BY <1>7 DEF Queue
  <2>2. new \in [Ranks -> Seq(Int)]
    <3>1. Append(moved.tFAWCountdown[p.rank], tFAW) \in Seq(Int)
      BY <1>2, <2>1, Timings
    <3> QED BY <1>2, <2>1, <3>1
  <2>3. window = [moved EXCEPT !.tFAWCountdown = new]
    BY <1>7 DEF Queue
  <2> HIDE DEF new, window
  <2> QED BY <1>7, <2>2, <2>3 DEF Queue
<1> HIDE DEF window
<1>9. QueueOK(t)
  BY <1>2, <1>7, <1>8 DEF QueueOK
<1> HIDE DEF t
<1>10. Sent(ini, try) = [packet |-> p, queue |-> t]
  BY <1>1, <1>2
<1> QED
  BY <1>2, <1>9, <1>10 DEF GoodTry

(* pop() leaves the queue well formed, and what it hands out is Sendable.    *)
LEMMA PopGood ==
  ASSUME NEW table, NEW q, QueueOK(q)
  PROVE  GoodTry(table, pop(ini, q, table))
<1> DEFINE w == StepWindow(q)
           refresh == TryRefresh(ini, w, table)
           issue == TryIssue(ini, w, table)
           close == TryClose(ini, w, table)
<1>1. pop(ini, q, table) =
        IF refresh.packet # NoPacket THEN Sent(ini, refresh)
        ELSE IF issue.packet # NoPacket THEN Sent(ini, issue)
        ELSE IF close.packet # NoPacket THEN Sent(ini, close)
        ELSE Nothing(w)
  BY DEF pop
<1>2. QueueOK(w)
  BY StepWindowOK
<1> HIDE DEF w
<1>3. /\ GoodTry(table, refresh) /\ GoodTry(table, issue) /\ GoodTry(table, close)
      /\ GoodTry(table, Nothing(w))
  BY <1>2, TryRefreshGood, TryIssueGood, TryCloseGood, NothingGood
<1> HIDE DEF refresh, issue, close
<1> QED
  BY <1>1, <1>3, SentGood

-----------------------------------------------------------------------------
(* The stages of a cycle *)

Covered(s, r, banks, d) ==
  RankCovered(s.bank[r], banks, s.mc.powerDown[r], s.ranks[r].isPowerDown, d)

WellFormed(s) == IsState(s) /\ Typed(s) /\ s.error \in OtherErrors

(* Between two cycles: a command may be on the bus.                          *)
Between(s) == /\ WellFormed(s) /\ CommandOK(s)
              /\ \A r \in Ranks : Covered(s, r, Arrived(s, r), 1)

(* The controller has counted down.                                          *)
Counted(s) == /\ WellFormed(s) /\ CommandOK(s)
              /\ \A r \in Ranks : Covered(s, r, Arrived(s, r), 0)

(* The command has arrived.                                                  *)
Middle(s) == /\ WellFormed(s) /\ s.mc.cmd = NoPacket
             /\ \A r \in Ranks : Covered(s, r, s.ranks[r].bankStates, 0)

(* The next command p has left the queue, and will find the rank ready a     *)
(* cycle later.                                                              *)
HandedTo(table, banks, p) ==
  /\ Allowed(banks, p)
  /\ \A b \in Banks : /\ Covers(step(table[b]), ReceivedBanks(banks, p)[b], 1)
                      /\ table[b].state # "PowerDown"
  /\ \E b \in Banks : table[b].state # "Idle"

Handed(s, r, p) ==
  /\ HandedTo(s.bank[r], RankStep(s.ranks[r]).bankStates, p)
  /\ ~s.mc.powerDown[r] /\ s.ranks[r].isPowerDown = s.mc.powerDown[r]

Issued(s) ==
  /\ WellFormed(s)
  /\ s.mc.cmd # NoPacket => s.mc.cmd \in Packet /\ s.mc.cmdCyclesLeft = 1
  /\ \A r \in Ranks : IF s.mc.cmd # NoPacket /\ s.mc.cmd.rank = r
                      THEN Handed(s, r, s.mc.cmd)
                      ELSE Covered(s, r, s.ranks[r].bankStates, 0)

(* A stage that changes nothing of the banks.                                *)
SameBanks(s, t) ==
  /\ t.bank = s.bank /\ t.mc.cmd = s.mc.cmd /\ t.mc.cmdCyclesLeft = s.mc.cmdCyclesLeft
  /\ t.mc.powerDown = s.mc.powerDown
  /\ \A r \in Ranks : /\ t.ranks[r].bankStates = s.ranks[r].bankStates
                      /\ t.ranks[r].isPowerDown = s.ranks[r].isPowerDown

LEMMA Framed ==
  ASSUME NEW s, NEW t, SameBanks(s, t), WellFormed(t)
  PROVE  /\ Between(s) => Between(t)
         /\ Counted(s) => Counted(t)
         /\ Middle(s) => Middle(t)
         /\ Issued(s) => Issued(t)
<1>1. ASSUME NEW r \in Ranks
      PROVE  /\ Arrived(t, r) = Arrived(s, r)
             /\ \A banks, d : Covered(t, r, banks, d) <=> Covered(s, r, banks, d)
             /\ \A p : Allowed(t.ranks[r].bankStates, p) <=> Allowed(s.ranks[r].bankStates, p)
  <2>1. t.ranks[r].bankStates = s.ranks[r].bankStates
    BY DEF SameBanks
  <2>2. \A p : /\ ReceivedBanks(t.ranks[r].bankStates, p) = ReceivedBanks(s.ranks[r].bankStates, p)
               /\ Allowed(t.ranks[r].bankStates, p) = Allowed(s.ranks[r].bankStates, p)
    BY <2>1
  <2>3. Arrived(t, r) = Arrived(s, r)
    BY <2>1, <2>2 DEF Arrived, SameBanks
  <2>4. \A banks, d : Covered(t, r, banks, d) <=> Covered(s, r, banks, d)
    BY DEF Covered, SameBanks
  <2> QED BY <2>2, <2>3, <2>4
<1>2. ASSUME CommandOK(s) PROVE CommandOK(t)
  <2>1. s.mc.cmd # NoPacket => s.mc.cmd.rank \in Ranks
    BY <1>2 DEF CommandOK, Packet
  <2> QED BY <1>1, <1>2, <2>1 DEF CommandOK, SameBanks
<1>3. Between(s) => Between(t)
  BY <1>1, <1>2 DEF Between
<1>4. Counted(s) => Counted(t)
  BY <1>1, <1>2 DEF Counted
<1>5. Middle(s) => Middle(t)
  <2>1. t.mc.cmd = s.mc.cmd /\ \A r \in Ranks : t.ranks[r].bankStates = s.ranks[r].bankStates
    BY DEF SameBanks
  <2> QED BY <1>1, <2>1 DEF Middle
<1>6. ASSUME Issued(s) PROVE Issued(t)
  <2>1. t.mc.cmd = s.mc.cmd /\ t.mc.cmdCyclesLeft = s.mc.cmdCyclesLeft
    BY DEF SameBanks
  <2>2. ASSUME NEW r \in Ranks, NEW p, Handed(s, r, p)
        PROVE  Handed(t, r, p)
    <3>1. RankStep(t.ranks[r]).bankStates = RankStep(s.ranks[r]).bankStates
      <4>1. IsRank(t.ranks[r]) /\ IsRank(s.ranks[r])
        BY <1>6 DEF Issued, WellFormed, IsState
      <4>2. t.ranks[r].bankStates = s.ranks[r].bankStates
        BY DEF SameBanks
      <4>3. /\ RankStep(t.ranks[r]).bankStates = [b \in Banks |-> step(t.ranks[r].bankStates[b])]
            /\ RankStep(s.ranks[r]).bankStates = [b \in Banks |-> step(s.ranks[r].bankStates[b])]
        BY <4>1, RankStepBanks, Zenon
      <4> QED BY <4>2, <4>3, Zenon
    <3> QED BY <2>2, <3>1 DEF Handed, SameBanks
  <2>3. \A r \in Ranks : t.ranks[r].bankStates = s.ranks[r].bankStates
    BY DEF SameBanks
  <2> QED BY <1>1, <1>6, <2>1, <2>2, <2>3 DEF Issued
<1> QED BY <1>3, <1>4, <1>5, <1>6

LEMMA AddTransaction ==
  ASSUME NEW s, WellFormed(s), NEW x \in Transactions
  PROVE  SameBanks(s, addTransaction(s, x)) /\ WellFormed(addTransaction(s, x))
<1> DEFINE t == addTransaction(s, x)
           x1 == [x EXCEPT !.expect = s.accepted[x.addr]]
           trans == Append(s.mc.transactionQueue, x1)
           acc == [s.accepted EXCEPT ![x.addr] = IF x.write THEN x.id ELSE @]
<1>1. CASE ~WillAcceptTransaction(s)
  BY <1>1 DEF addTransaction, SameBanks
<1>2. CASE WillAcceptTransaction(s)
  <2>1. t = [s EXCEPT !.mc.transactionQueue = trans, !.accepted = acc]
    BY <1>2, Zenon DEF addTransaction
  <2>2. x1 \in Transactions /\ acc \in [Addresses -> Nat]
    BY DEF WellFormed, Typed, Transactions
  <2>3. trans \in Seq(Transactions)
    BY <2>2 DEF WellFormed, Typed
  <2> HIDE DEF x1, trans, acc, t
  <2>4. /\ t = [bank |-> s.bank, queue |-> s.queue, ranks |-> s.ranks, mc |-> t.mc,
                pending |-> s.pending, accepted |-> acc, store |-> s.store,
                done |-> s.done, stale |-> s.stale, error |-> s.error]
        /\ t.mc = [s.mc EXCEPT !.transactionQueue = trans]
    BY <2>1 DEF WellFormed, IsState
  <2>5. /\ IsController(t.mc) /\ t.mc.transactionQueue = trans
        /\ t.mc.cmd = s.mc.cmd /\ t.mc.cmdCyclesLeft = s.mc.cmdCyclesLeft
        /\ t.mc.powerDown = s.mc.powerDown /\ t.mc.refreshRank = s.mc.refreshRank
        /\ t.mc.data = s.mc.data /\ t.mc.writeData = s.mc.writeData
    BY <2>4 DEF WellFormed, IsState, IsController
  <2>6. SameBanks(s, t)
    BY <2>4, <2>5 DEF SameBanks
  <2>7. WellFormed(t)
    BY <2>2, <2>3, <2>4, <2>5 DEF WellFormed, IsState, Typed
  <2> QED BY <2>6, <2>7 DEF t
<1> QED BY <1>1, <1>2

(* A rank whose data moves on.                                               *)
LEMMA RankUpdated ==
  ASSUME NEW rank, IsRank(rank)
  PROVE  LET t == RankUpdate(rank)
         IN  IsRank(t) /\ t.bankStates = rank.bankStates /\ t.isPowerDown = rank.isPowerDown
<1> DEFINE t == RankUpdate(rank)
<1>1. PICK out, left, reads :
        t = [rank EXCEPT !.outgoingDataPacket = out, !.dataCyclesLeft = left,
                         !.readReturn = reads]
  BY Zenon DEF RankUpdate
<1> HIDE DEF t
<1>2. t = [bankStates |-> rank.bankStates, refreshWaiting |-> rank.refreshWaiting,
           isPowerDown |-> rank.isPowerDown, outgoingDataPacket |-> out,
           dataCyclesLeft |-> left, readReturn |-> reads]
  BY <1>1 DEF IsRank
<1> QED BY <1>2 DEF IsRank, t

LEMMA RanksUpdated ==
  ASSUME NEW s, WellFormed(s)
  PROVE  SameBanks(s, UpdateRanks(s)) /\ WellFormed(UpdateRanks(s))
<1> DEFINE t == UpdateRanks(s)
           rs == [r \in Ranks |-> RankUpdate(s.ranks[r])]
<1>1. PICK rets : t = [s EXCEPT !.ranks = rs, !.mc.returns = rets]
  BY Zenon DEF UpdateRanks
<1>2. /\ DOMAIN rs = Ranks
      /\ \A r \in Ranks : /\ IsRank(rs[r]) /\ rs[r].bankStates = s.ranks[r].bankStates
                          /\ rs[r].isPowerDown = s.ranks[r].isPowerDown
  BY RankUpdated DEF WellFormed, IsState
<1> HIDE DEF t, rs
<1>3. /\ t = [bank |-> s.bank, queue |-> s.queue, ranks |-> rs, mc |-> t.mc,
              pending |-> s.pending, accepted |-> s.accepted, store |-> s.store,
              done |-> s.done, stale |-> s.stale, error |-> s.error]
      /\ t.mc = [s.mc EXCEPT !.returns = rets]
  BY <1>1 DEF WellFormed, IsState
<1>4. /\ IsController(t.mc) /\ t.mc.transactionQueue = s.mc.transactionQueue
      /\ t.mc.cmd = s.mc.cmd /\ t.mc.cmdCyclesLeft = s.mc.cmdCyclesLeft
      /\ t.mc.powerDown = s.mc.powerDown /\ t.mc.refreshRank = s.mc.refreshRank
      /\ t.mc.data = s.mc.data /\ t.mc.writeData = s.mc.writeData
  BY <1>3 DEF WellFormed, IsState, IsController
<1>5. SameBanks(s, t)
  BY <1>2, <1>3, <1>4 DEF SameBanks
<1>6. WellFormed(t)
  BY <1>2, <1>3, <1>4 DEF WellFormed, IsState, Typed
<1> QED BY <1>5, <1>6 DEF t

LEMMA PendingMoved ==
  ASSUME NEW s, WellFormed(s)
  PROVE  SameBanks(s, MovePending(s)) /\ WellFormed(MovePending(s))
<1>1. CASE ~(s.pending # <<>> /\ WillAcceptTransaction(s))
  BY <1>1 DEF MovePending, SameBanks
<1>2. CASE s.pending # <<>> /\ WillAcceptTransaction(s)
  <2> DEFINE t == addTransaction(s, Head(s.pending))
             u == MovePending(s)
             rest == Tail(s.pending)
  <2>1. Head(s.pending) \in Transactions /\ rest \in Seq(Transactions)
    BY <1>2 DEF WellFormed, Typed
  <2>2. SameBanks(s, t) /\ WellFormed(t)
    BY <2>1, AddTransaction
  <2>3. u = [t EXCEPT !.pending = Tail(t.pending)]
    BY <1>2, Zenon DEF MovePending
  <2>4. t.pending = s.pending
    BY DEF WellFormed, IsState, addTransaction
  <2>5. u = [t EXCEPT !.pending = rest]
    BY <2>3, <2>4
  <2> HIDE DEF t, u, rest
  <2>6. u = [bank |-> t.bank, queue |-> t.queue, ranks |-> t.ranks, mc |-> t.mc,
             pending |-> rest, accepted |-> t.accepted, store |-> t.store,
             done |-> t.done, stale |-> t.stale, error |-> t.error]
    BY <2>2, <2>5 DEF WellFormed, IsState
  <2>7. SameBanks(s, u)
    BY <2>2, <2>6 DEF SameBanks
  <2>8. WellFormed(u)
    BY <2>1, <2>2, <2>6 DEF WellFormed, IsState, Typed
  <2> QED BY <2>7, <2>8 DEF u
<1> QED BY <1>1, <1>2

-----------------------------------------------------------------------------
(* The countdowns and the command bus *)

LEMMA CountdownIs ==
  ASSUME NEW c \in Bank
  PROVE  /\ c.countdown = 0 => CountdownBank(c) = c
         /\ c.countdown > 1 => CountdownBank(c) = [c EXCEPT !.countdown = c.countdown - 1]
         /\ c.countdown = 1 /\ c.lastCommand \in {"READ_P", "WRITE_P"}
              => CountdownBank(c) = [c EXCEPT !.state = "Precharging",
                                              !.lastCommand = "PRECHARGE", !.countdown = tRP]
         /\ c.countdown = 1 /\ c.lastCommand \in {"REFRESH", "PRECHARGE"}
              => CountdownBank(c) = [c EXCEPT !.state = "Idle", !.countdown = 0]
<1> DEFINE zero == c.countdown = 0
           more == c.countdown > 1
           one == c.countdown = 1
           closes == c.lastCommand \in {"READ_P", "WRITE_P"}
           opens == c.lastCommand \in {"REFRESH", "PRECHARGE"}
<1>1. (zero => ~more /\ ~one) /\ (more => ~zero /\ ~one) /\ (one => ~zero /\ ~more)
  BY DEF Bank
<1>2. (closes => ~opens) /\ (opens => ~closes)
  OBVIOUS
<1>3. CountdownBank(c) =
        CASE zero -> c
          [] more -> [c EXCEPT !.countdown = c.countdown - 1]
          [] one /\ closes -> [c EXCEPT !.state = "Precharging", !.lastCommand = "PRECHARGE",
                                        !.countdown = tRP]
          [] one /\ opens -> [c EXCEPT !.state = "Idle", !.countdown = 0]
          [] OTHER -> [c EXCEPT !.countdown = 0]
  BY Zenon DEF CountdownBank
<1> HIDE DEF zero, more, one, closes, opens
<1>4. /\ zero => CountdownBank(c) = c
      /\ more => CountdownBank(c) = [c EXCEPT !.countdown = c.countdown - 1]
      /\ one /\ closes => CountdownBank(c) = [c EXCEPT !.state = "Precharging",
                                                !.lastCommand = "PRECHARGE", !.countdown = tRP]
      /\ one /\ opens => CountdownBank(c) = [c EXCEPT !.state = "Idle", !.countdown = 0]
  BY <1>1, <1>2, <1>3, Zenon
<1> QED BY <1>4 DEF zero, more, one, closes, opens

LEMMA CountdownCover ==
  ASSUME NEW c, NEW k, Covers(c, k, 1)
  PROVE  LET x == CountdownBank(c)
         IN  /\ Covers(x, k, 0) /\ x.nextPowerUp = c.nextPowerUp
             /\ x.state = "PowerDown" <=> c.state = "PowerDown"
<1> DEFINE x == CountdownBank(c)
<1>1. c \in Bank /\ k \in Bank /\ c.countdown \in Nat
  BY DEF Covers, Bank
<1>2. CASE c.countdown = 0
  <2>1. x = c
    BY <1>1, <1>2, CountdownIs
  <2> HIDE DEF x
  <2> QED BY <1>1, <1>2, <2>1 DEF Covers, Open, Closing, Bank, x
<1>3. CASE c.countdown > 1
  <2>1. x = [c EXCEPT !.countdown = c.countdown - 1]
    BY <1>1, <1>3, CountdownIs
  <2> HIDE DEF x
  <2>2. /\ x \in Bank /\ x.state = c.state /\ x.row = c.row /\ x.countdown = c.countdown - 1
        /\ x.nextRead = c.nextRead /\ x.nextWrite = c.nextWrite
        /\ x.nextActivate = c.nextActivate /\ x.nextPowerUp = c.nextPowerUp
        /\ x.lastCommand = c.lastCommand
    BY <1>1, <1>3, <2>1 DEF Bank
  <2>3. c.nextRead \in Nat /\ c.nextWrite \in Nat /\ c.nextActivate \in Nat
    BY <1>1 DEF Bank
  <2> QED BY <1>1, <1>3, <2>2, <2>3 DEF Covers, Open, Closing, x
<1>4. CASE c.countdown = 1
  <2>1. k.state = "Idle"
    BY <1>1, <1>4 DEF Covers, Open, Closing, Bank
  <2>2. CASE c.state = "RowActive"
    <3>1. c.lastCommand \in {"READ_P", "WRITE_P"}
      BY <1>4, <2>2 DEF Covers, Open, Closing
    <3>2. x = [c EXCEPT !.state = "Precharging", !.lastCommand = "PRECHARGE",
                        !.countdown = tRP]
      BY <1>1, <1>4, <3>1, CountdownIs
    <3> HIDE DEF x
    <3>3. /\ x \in Bank /\ x.state = "Precharging" /\ x.lastCommand = "PRECHARGE"
          /\ x.countdown = tRP /\ x.nextActivate = c.nextActivate
          /\ x.nextPowerUp = c.nextPowerUp
      BY <1>1, <3>2, Timings DEF Bank, Commands
    <3> QED BY <1>1, <2>1, <2>2, <3>3, Timings DEF Covers, x
  <2>3. CASE c.state # "RowActive"
    <3>1. c.lastCommand \in {"REFRESH", "PRECHARGE"} /\ c.state # "PowerDown"
      BY <1>1, <1>4, <2>3 DEF Covers, Bank
    <3>2. x = [c EXCEPT !.state = "Idle", !.countdown = 0]
      BY <1>1, <1>4, <3>1, CountdownIs
    <3> HIDE DEF x
    <3>3. /\ x \in Bank /\ x.state = "Idle" /\ x.countdown = 0
          /\ x.nextActivate = c.nextActivate /\ x.nextPowerUp = c.nextPowerUp
      BY <1>1, <3>2 DEF Bank
    <3> QED BY <1>1, <2>1, <3>1, <3>3 DEF Covers, x
  <2> QED BY <2>2, <2>3
<1> QED BY <1>1, <1>2, <1>3, <1>4

LEMMA BanksCounted ==
  ASSUME NEW s, Between(s)
  PROVE  Counted(CountdownBanks(s))
<1> DEFINE t == CountdownBanks(s)
           table == [r \in Ranks |-> [b \in Banks |-> CountdownBank(s.bank[r][b])]]
<1>1. t = [s EXCEPT !.bank = table]
  BY Zenon DEF CountdownBanks
<1>2. \A r \in Ranks, b \in Banks : table[r][b] = CountdownBank(s.bank[r][b])
  OBVIOUS
<1>3. \A r \in Ranks, b \in Banks : Covers(s.bank[r][b], Arrived(s, r)[b], 1)
  BY DEF Between, Covered, RankCovered
<1>4. \A r \in Ranks, b \in Banks :
        /\ Covers(table[r][b], Arrived(s, r)[b], 0) /\ table[r][b] \in Bank
        /\ table[r][b].nextPowerUp = s.bank[r][b].nextPowerUp
        /\ table[r][b].state = "PowerDown" <=> s.bank[r][b].state = "PowerDown"
  <2> TAKE r \in Ranks, b \in Banks
  <2> HIDE DEF table
  <2>1. /\ Covers(CountdownBank(s.bank[r][b]), Arrived(s, r)[b], 0)
        /\ CountdownBank(s.bank[r][b]).nextPowerUp = s.bank[r][b].nextPowerUp
        /\ CountdownBank(s.bank[r][b]).state = "PowerDown" <=> s.bank[r][b].state = "PowerDown"
    BY <1>3, CountdownCover
  <2>2. table[r][b] \in Bank
    BY <1>2, <2>1 DEF Covers
  <2> QED BY <1>2, <2>1, <2>2
<1>5. table \in [Ranks -> [Banks -> Bank]]
  BY <1>4
<1> HIDE DEF t, table
<1>6. t = [bank |-> table, queue |-> s.queue, ranks |-> s.ranks, mc |-> s.mc,
           pending |-> s.pending, accepted |-> s.accepted, store |-> s.store,
           done |-> s.done, stale |-> s.stale, error |-> s.error]
  BY <1>1 DEF Between, WellFormed, IsState
<1>7. WellFormed(t) /\ CommandOK(t)
  BY <1>5, <1>6 DEF Between, WellFormed, IsState, Typed, CommandOK
<1>8. ASSUME NEW r \in Ranks PROVE Covered(t, r, Arrived(t, r), 0)
  <2>1. Arrived(t, r) = Arrived(s, r)
    BY <1>6 DEF Arrived
  <2>2. Covered(s, r, Arrived(s, r), 1)
    BY DEF Between
  <2>3. /\ t.mc.powerDown[r] = s.mc.powerDown[r]
        /\ t.ranks[r].isPowerDown = s.ranks[r].isPowerDown /\ t.bank[r] = table[r]
    BY <1>6
  <2>4. table[r][0].nextPowerUp = s.bank[r][0].nextPowerUp
    BY <1>4, ZeroIn
  <2> QED BY <1>4, <2>1, <2>2, <2>3, <2>4 DEF Covered, RankCovered
<1>9. Counted(t)
  BY <1>7, <1>8 DEF Counted
<1> QED BY <1>9 DEF t

LEMMA ReceivedFunction ==
  ASSUME NEW banks \in [Banks -> Bank], NEW p
  PROVE  ReceivedBanks(banks, p) = [b \in Banks |-> ReceivedBanks(banks, p)[b]]
BY DEF ReceivedBanks

(* Data for a rank.                                                          *)
LEMMA ReceivedData ==
  ASSUME NEW banks \in [Banks -> Bank], NEW p, p.type = "DATA"
  PROVE  Allowed(banks, p) /\ ReceivedBanks(banks, p) = banks
<1>1. Allowed(banks, p)
  BY DataIs, Zenon DEF Allowed
<1>2. ASSUME NEW b \in Banks PROVE ReceivedBanks(banks, p)[b] = banks[b]
  BY DataIs, Zenon DEF ReceivedBanks, ReceivedBank
<1> QED BY <1>1, <1>2, ReceivedFunction

(* A packet that its rank is ready for.                                      *)
LEMMA RankReceived ==
  ASSUME NEW rank, IsRank(rank), NEW p, NEW v,
         ReceivedBanks(rank.bankStates, p) \in [Banks -> Bank]
  PROVE  LET t == RankReceives(rank, p, v)
         IN  /\ IsRank(t) /\ t.isPowerDown = rank.isPowerDown
             /\ t.bankStates = ReceivedBanks(rank.bankStates, p)
<1> DEFINE t == RankReceives(rank, p, v)
           banks == ReceivedBanks(rank.bankStates, p)
<1>1. PICK waits, reads :
        t = [rank EXCEPT !.bankStates = banks, !.refreshWaiting = waits, !.readReturn = reads]
  BY Zenon DEF RankReceives
<1>2. banks \in [Banks -> Bank]
  OBVIOUS
<1> HIDE DEF t, banks
<1>3. t = [bankStates |-> banks, refreshWaiting |-> waits, isPowerDown |-> rank.isPowerDown,
           outgoingDataPacket |-> rank.outgoingDataPacket,
           dataCyclesLeft |-> rank.dataCyclesLeft, readReturn |-> reads]
  BY <1>1 DEF IsRank
<1> QED BY <1>2, <1>3 DEF IsRank, t, banks

LEMMA ToRankIs ==
  ASSUME NEW s, WellFormed(s), NEW p, Allowed(s.ranks[p.rank].bankStates, p),
         p.rank \in Ranks => ReceivedBanks(s.ranks[p.rank].bankStates, p) \in [Banks -> Bank]
  PROVE  LET t == ToRank(s, p) IN
         /\ t = [bank |-> s.bank, queue |-> s.queue, ranks |-> t.ranks, mc |-> s.mc,
                 pending |-> s.pending, accepted |-> s.accepted, store |-> t.store,
                 done |-> s.done, stale |-> s.stale, error |-> s.error]
         /\ DOMAIN t.ranks = Ranks
         /\ \A r \in Ranks :
              /\ IsRank(t.ranks[r]) /\ t.ranks[r].isPowerDown = s.ranks[r].isPowerDown
              /\ r = p.rank => t.ranks[r].bankStates = ReceivedBanks(s.ranks[r].bankStates, p)
              /\ r # p.rank => t.ranks[r].bankStates = s.ranks[r].bankStates
<1> DEFINE t == ToRank(s, p)
           rank == RankReceives(s.ranks[p.rank], p, BankRead(s.store, p))
           rs == [s.ranks EXCEPT ![p.rank] = rank]
<1>1. PICK st : t = [s EXCEPT !.ranks[p.rank] = rank, !.store = st]
  BY Zenon DEF ToRank, Check
<1>2. p.rank \in Ranks =>
        /\ IsRank(rank) /\ rank.isPowerDown = s.ranks[p.rank].isPowerDown
        /\ rank.bankStates = ReceivedBanks(s.ranks[p.rank].bankStates, p)
  BY RankReceived DEF WellFormed, IsState
<1>3. DOMAIN s.ranks = Ranks /\ \A r \in Ranks : IsRank(s.ranks[r])
  BY DEF WellFormed, IsState
<1>4. t = [s EXCEPT !.ranks = rs, !.store = st]
  BY <1>1, Zenon
<1> HIDE DEF t, rank
<1>5. /\ DOMAIN rs = Ranks
      /\ \A r \in Ranks : rs[r] = IF r = p.rank THEN rank ELSE s.ranks[r]
  BY <1>3
<1> HIDE DEF rs
<1>6. t = [bank |-> s.bank, queue |-> s.queue, ranks |-> rs, mc |-> s.mc,
           pending |-> s.pending, accepted |-> s.accepted, store |-> st,
           done |-> s.done, stale |-> s.stale, error |-> s.error]
  BY <1>4 DEF WellFormed, IsState
<1>7. /\ t.ranks = rs /\ t.store = st
      /\ t = [bank |-> s.bank, queue |-> s.queue, ranks |-> t.ranks, mc |-> s.mc,
              pending |-> s.pending, accepted |-> s.accepted, store |-> t.store,
              done |-> s.done, stale |-> s.stale, error |-> s.error]
  BY <1>6
<1>8. \A r \in Ranks :
        /\ IsRank(rs[r]) /\ rs[r].isPowerDown = s.ranks[r].isPowerDown
        /\ r = p.rank => rs[r].bankStates = ReceivedBanks(s.ranks[r].bankStates, p)
        /\ r # p.rank => rs[r].bankStates = s.ranks[r].bankStates
  BY <1>2, <1>3, <1>5
<1> QED BY <1>5, <1>7, <1>8 DEF t

LEMMA CommandArrived ==
  ASSUME NEW s, Counted(s)
  PROVE  Middle(CommandBus(s))
<1>0. WellFormed(s) /\ CommandOK(s) /\ \A r \in Ranks : Covered(s, r, Arrived(s, r), 0)
  BY DEF Counted
<1>1. CASE s.mc.cmd = NoPacket
  <2>1. \A r \in Ranks : Arrived(s, r) = s.ranks[r].bankStates
    BY <1>1 DEF Arrived
  <2>2. CommandBus(s) = s
    BY <1>1 DEF CommandBus
  <2> QED BY <1>0, <1>1, <2>1, <2>2 DEF Middle
<1>2. CASE s.mc.cmd # NoPacket
  <2> DEFINE p == s.mc.cmd
             t == ToRank(s, p)
             u == CommandBus(s)
  <2>1. /\ p \in Packet /\ s.mc.cmdCyclesLeft = 1 /\ p.rank \in Ranks
        /\ Allowed(s.ranks[p.rank].bankStates, p)
    BY <1>0, <1>2 DEF CommandOK, Packet
  <2>2. ~(s.mc.cmdCyclesLeft > 1)
    BY <2>1
  <2>3. u = [t EXCEPT !.mc = [s.mc EXCEPT !.cmd = NoPacket, !.cmdCyclesLeft = 0]]
    BY <1>2, <2>2, Zenon DEF CommandBus
  <2>4. \A r \in Ranks : Arrived(s, r) = IF r = p.rank THEN ReceivedBanks(s.ranks[r].bankStates, p)
                                         ELSE s.ranks[r].bankStates
    BY <1>2, Zenon DEF Arrived
  <2>5. ReceivedBanks(s.ranks[p.rank].bankStates, p) \in [Banks -> Bank]
    <3> DEFINE banks == ReceivedBanks(s.ranks[p.rank].bankStates, p)
    <3>0. Covered(s, p.rank, banks, 0)
      BY <1>0, <2>1, <2>4
    <3>1. \A b \in Banks : banks[b] \in Bank
      BY <3>0 DEF Covered, RankCovered, Covers
    <3>2. banks = [b \in Banks |-> banks[b]]
      <4>1. s.ranks[p.rank].bankStates \in [Banks -> Bank]
        BY <1>0, <2>1 DEF WellFormed, IsState, IsRank
      <4> QED BY <4>1, ReceivedFunction
    <3> HIDE DEF banks
    <3>3. banks \in [Banks -> Bank]
      BY <3>1, <3>2
    <3> QED BY <3>3 DEF banks
  <2>6. /\ t = [bank |-> s.bank, queue |-> s.queue, ranks |-> t.ranks, mc |-> s.mc,
                pending |-> s.pending, accepted |-> s.accepted, store |-> t.store,
                done |-> s.done, stale |-> s.stale, error |-> s.error]
        /\ DOMAIN t.ranks = Ranks
        /\ \A r \in Ranks :
             /\ IsRank(t.ranks[r]) /\ t.ranks[r].isPowerDown = s.ranks[r].isPowerDown
             /\ r = p.rank => t.ranks[r].bankStates = ReceivedBanks(s.ranks[r].bankStates, p)
             /\ r # p.rank => t.ranks[r].bankStates = s.ranks[r].bankStates
    BY <1>0, <2>1, <2>5, ToRankIs
  <2>7. \A r \in Ranks : t.ranks[r].bankStates = Arrived(s, r)
    BY <2>4, <2>6
  <2> HIDE DEF t, u
  <2>8. /\ u = [bank |-> s.bank, queue |-> s.queue, ranks |-> t.ranks, mc |-> u.mc,
                pending |-> s.pending, accepted |-> s.accepted, store |-> t.store,
                done |-> s.done, stale |-> s.stale, error |-> s.error]
        /\ u.mc = [s.mc EXCEPT !.cmd = NoPacket, !.cmdCyclesLeft = 0]
    BY <2>3, <2>6
  <2>9. /\ IsController(u.mc) /\ u.mc.transactionQueue = s.mc.transactionQueue
        /\ u.mc.cmd = NoPacket
        /\ u.mc.powerDown = s.mc.powerDown /\ u.mc.refreshRank = s.mc.refreshRank
        /\ u.mc.data = s.mc.data /\ u.mc.writeData = s.mc.writeData
    BY <1>0, <2>8 DEF WellFormed, IsState, IsController
  <2>10. WellFormed(u)
    BY <1>0, <2>6, <2>8, <2>9 DEF WellFormed, IsState, Typed
  <2>11. ASSUME NEW r \in Ranks PROVE Covered(u, r, u.ranks[r].bankStates, 0)
    <3>1. /\ u.bank = s.bank /\ u.mc.powerDown = s.mc.powerDown
          /\ u.ranks[r].isPowerDown = s.ranks[r].isPowerDown
          /\ u.ranks[r].bankStates = Arrived(s, r)
      BY <2>6, <2>7, <2>8, <2>9
    <3> QED BY <1>0, <3>1 DEF Covered
  <2>12. Middle(u)
    BY <2>9, <2>10, <2>11 DEF Middle
  <2> QED BY <2>12 DEF u
<1> QED BY <1>1, <1>2

LEMMA DataArrived ==
  ASSUME NEW s, WellFormed(s)
  PROVE  SameBanks(s, DataBus(s)) /\ WellFormed(DataBus(s))
<1> DEFINE u == DataBus(s)
<1>1. CASE s.mc.data = NoPacket
  BY <1>1 DEF DataBus, SameBanks
<1>2. CASE s.mc.data # NoPacket /\ s.mc.dataCyclesLeft > 1
  <2>1. PICK n : u = [s EXCEPT !.mc.dataCyclesLeft = n]
    BY <1>2, Zenon DEF DataBus
  <2> HIDE DEF u
  <2>2. /\ u = [bank |-> s.bank, queue |-> s.queue, ranks |-> s.ranks, mc |-> u.mc,
                pending |-> s.pending, accepted |-> s.accepted, store |-> s.store,
                done |-> s.done, stale |-> s.stale, error |-> s.error]
        /\ u.mc = [s.mc EXCEPT !.dataCyclesLeft = n]
    BY <2>1 DEF WellFormed, IsState
  <2>3. /\ IsController(u.mc) /\ u.mc.transactionQueue = s.mc.transactionQueue
        /\ u.mc.cmd = s.mc.cmd /\ u.mc.cmdCyclesLeft = s.mc.cmdCyclesLeft
        /\ u.mc.powerDown = s.mc.powerDown /\ u.mc.refreshRank = s.mc.refreshRank
        /\ u.mc.data = s.mc.data /\ u.mc.writeData = s.mc.writeData
    BY <2>2 DEF WellFormed, IsState, IsController
  <2>4. SameBanks(s, u)
    BY <2>2, <2>3 DEF SameBanks
  <2>5. WellFormed(u)
    BY <2>2, <2>3 DEF WellFormed, IsState, Typed
  <2> QED BY <2>4, <2>5 DEF u
<1>3. CASE s.mc.data # NoPacket /\ ~(s.mc.dataCyclesLeft > 1)
  <2> DEFINE p == s.mc.data
             t == ToRank(s, p)
  <2>1. PICK d : u = [t EXCEPT !.mc = [s.mc EXCEPT !.data = NoPacket, !.dataCyclesLeft = 0],
                               !.done = d]
    BY <1>3, Zenon DEF DataBus
  <2> HIDE DEF u
  <2>2. p.type = "DATA"
    BY <1>3 DEF WellFormed, Typed, DataPacket
  <2>3. ASSUME p.rank \in Ranks
        PROVE  /\ s.ranks[p.rank].bankStates \in [Banks -> Bank]
               /\ ReceivedBanks(s.ranks[p.rank].bankStates, p) = s.ranks[p.rank].bankStates
    <3>1. s.ranks[p.rank].bankStates \in [Banks -> Bank]
      BY <2>3 DEF WellFormed, IsState, IsRank
    <3> QED BY <2>2, <3>1, ReceivedData
  <2>4. Allowed(s.ranks[p.rank].bankStates, p)
    BY <2>2, DataIs, Zenon DEF Allowed
  <2>5. /\ t = [bank |-> s.bank, queue |-> s.queue, ranks |-> t.ranks, mc |-> s.mc,
                pending |-> s.pending, accepted |-> s.accepted, store |-> t.store,
                done |-> s.done, stale |-> s.stale, error |-> s.error]
        /\ DOMAIN t.ranks = Ranks
        /\ \A r \in Ranks :
             /\ IsRank(t.ranks[r]) /\ t.ranks[r].isPowerDown = s.ranks[r].isPowerDown
             /\ r = p.rank => t.ranks[r].bankStates = ReceivedBanks(s.ranks[r].bankStates, p)
             /\ r # p.rank => t.ranks[r].bankStates = s.ranks[r].bankStates
    <3> HIDE DEF p
    <3> QED BY <2>3, <2>4, ToRankIs
  <2>6. \A r \in Ranks : t.ranks[r].bankStates = s.ranks[r].bankStates
    BY <2>3, <2>5
  <2> HIDE DEF t
  <2>8. /\ u = [bank |-> s.bank, queue |-> s.queue, ranks |-> t.ranks, mc |-> u.mc,
                pending |-> s.pending, accepted |-> s.accepted, store |-> t.store,
                done |-> d, stale |-> s.stale, error |-> s.error]
        /\ u.mc = [s.mc EXCEPT !.data = NoPacket, !.dataCyclesLeft = 0]
    <3> DEFINE m == [s.mc EXCEPT !.data = NoPacket, !.dataCyclesLeft = 0]
    <3>1. u = [t EXCEPT !.mc = m, !.done = d]
      BY <2>1
    <3>2. t = [bank |-> s.bank, queue |-> s.queue, ranks |-> t.ranks, mc |-> s.mc,
               pending |-> s.pending, accepted |-> s.accepted, store |-> t.store,
               done |-> s.done, stale |-> s.stale, error |-> s.error]
      BY <2>5
    <3> DEFINE rs == t.ranks
               st == t.store
    <3> HIDE DEF m, rs, st
    <3>3. t = [bank |-> s.bank, queue |-> s.queue, ranks |-> rs, mc |-> s.mc,
               pending |-> s.pending, accepted |-> s.accepted, store |-> st,
               done |-> s.done, stale |-> s.stale, error |-> s.error]
      BY <3>2, Zenon DEF rs, st
    <3>4. u = [bank |-> s.bank, queue |-> s.queue, ranks |-> rs, mc |-> m,
               pending |-> s.pending, accepted |-> s.accepted, store |-> st,
               done |-> d, stale |-> s.stale, error |-> s.error]
      BY <3>1, <3>3
    <3> QED BY <3>4 DEF m, rs, st
  <2>9. /\ IsController(u.mc) /\ u.mc.transactionQueue = s.mc.transactionQueue
        /\ u.mc.cmd = s.mc.cmd /\ u.mc.cmdCyclesLeft = s.mc.cmdCyclesLeft
        /\ u.mc.powerDown = s.mc.powerDown /\ u.mc.refreshRank = s.mc.refreshRank
        /\ u.mc.data = NoPacket /\ u.mc.writeData = s.mc.writeData
    BY <2>8 DEF WellFormed, IsState, IsController
  <2>10. SameBanks(s, u)
    BY <2>5, <2>6, <2>8, <2>9 DEF SameBanks
  <2>11. WellFormed(u)
    BY <2>5, <2>8, <2>9 DEF WellFormed, IsState, Typed
  <2> QED BY <2>10, <2>11 DEF u
<1> QED BY <1>1, <1>2, <1>3

LEMMA CheckIs ==
  ASSUME NEW s, WellFormed(s), NEW ok \in BOOLEAN, NEW message \in OtherErrors
  PROVE  LET t == Check(s, ok, message)
         IN  /\ t = [bank |-> s.bank, queue |-> s.queue, ranks |-> s.ranks, mc |-> s.mc,
                     pending |-> s.pending, accepted |-> s.accepted, store |-> s.store,
                     done |-> s.done, stale |-> s.stale, error |-> t.error]
             /\ t.error \in OtherErrors
BY DEF Check, Fail, WellFormed, IsState

LEMMA WriteDataSent ==
  ASSUME NEW s, WellFormed(s)
  PROVE  SameBanks(s, SendWriteData(s)) /\ WellFormed(SendWriteData(s))
<1> DEFINE u == SendWriteData(s)
           Waiting == [packet : DataPacket, countdown : Int]
           waiting == [i \in DOMAIN s.mc.writeData |->
                         [s.mc.writeData[i] EXCEPT !.countdown = @ - 1]]
           t == Check(s, s.mc.data = NoPacket, "Data Bus Collision")
<1>1. s.mc.writeData \in Seq(Waiting)
  BY DEF WellFormed, Typed
<1>2. waiting \in Seq(Waiting)
  <2> DEFINE n == Len(s.mc.writeData)
  <2> HIDE DEF Waiting
  <2>1. n \in Nat /\ DOMAIN s.mc.writeData = 1..n /\ \A i \in 1..n : s.mc.writeData[i] \in Waiting
    BY <1>1
  <2>2. \A i \in 1..n : [s.mc.writeData[i] EXCEPT !.countdown = @ - 1] \in Waiting
    <3> TAKE i \in 1..n
    <3> DEFINE x == s.mc.writeData[i]
    <3>1. x \in Waiting
      BY <2>1
    <3> HIDE DEF x
    <3>2. [x EXCEPT !.countdown = x.countdown - 1] \in Waiting
      BY <3>1 DEF Waiting
    <3> QED BY <3>2 DEF x
  <2>3. waiting \in [1..n -> Waiting]
    BY <2>1, <2>2
  <2> QED BY <2>1, <2>3
<1>3. CASE waiting # <<>> /\ Head(waiting).countdown = 0
  <2> DEFINE first == Head(waiting).packet
             rest == Tail(waiting)
             half == BL \div 2
             m == [s.mc EXCEPT !.data = first, !.dataCyclesLeft = half, !.writeData = rest]
  <2>1. first \in DataPacket /\ rest \in Seq(Waiting)
    <3> HIDE DEF waiting, Waiting
    <3>1. Head(waiting) \in Waiting /\ Tail(waiting) \in Seq(Waiting)
      BY <1>2, <1>3
    <3> QED BY <3>1 DEF Waiting
  <2>2. u = [t EXCEPT !.mc = m]
    BY <1>3, Zenon DEF SendWriteData
  <2>3. /\ t = [bank |-> s.bank, queue |-> s.queue, ranks |-> s.ranks, mc |-> s.mc,
                pending |-> s.pending, accepted |-> s.accepted, store |-> s.store,
                done |-> s.done, stale |-> s.stale, error |-> t.error]
        /\ t.error \in OtherErrors
    BY CheckIs DEF OtherErrors
  <2> DEFINE err == t.error
  <2> HIDE DEF t, u, waiting, first, rest, half, err
  <2>4. /\ IsController(m) /\ m.transactionQueue = s.mc.transactionQueue
        /\ m.cmd = s.mc.cmd /\ m.cmdCyclesLeft = s.mc.cmdCyclesLeft
        /\ m.powerDown = s.mc.powerDown /\ m.refreshRank = s.mc.refreshRank
        /\ m.data = first /\ m.writeData = rest
    <3> DEFINE old == s.mc
    <3>1. IsController(old)
      BY DEF WellFormed, IsState
    <3>2. m = [old EXCEPT !.data = first, !.dataCyclesLeft = half, !.writeData = rest]
      OBVIOUS
    <3> HIDE DEF old, m
    <3>3. m = [transactionQueue |-> old.transactionQueue, pendingReads |-> old.pendingReads,
               returns |-> old.returns, cmd |-> old.cmd, cmdCyclesLeft |-> old.cmdCyclesLeft,
               data |-> first, dataCyclesLeft |-> half, writeData |-> rest,
               refreshRank |-> old.refreshRank, refreshCountdown |-> old.refreshCountdown,
               powerDown |-> old.powerDown]
      BY <3>1, <3>2 DEF IsController
    <3> QED BY <3>1, <3>3 DEF IsController, old
  <2> HIDE DEF m
  <2>5. u = [bank |-> s.bank, queue |-> s.queue, ranks |-> s.ranks, mc |-> m,
             pending |-> s.pending, accepted |-> s.accepted, store |-> s.store,
             done |-> s.done, stale |-> s.stale, error |-> err]
    BY <2>2, <2>3 DEF err
  <2>6. SameBanks(s, u)
    BY <2>4, <2>5 DEF SameBanks
  <2>7. err \in OtherErrors
    BY <2>3 DEF err
  <2>8. WellFormed(u)
    BY <2>1, <2>4, <2>5, <2>7 DEF WellFormed, IsState, Typed
  <2> QED BY <2>6, <2>8 DEF u
<1>4. CASE ~(waiting # <<>> /\ Head(waiting).countdown = 0)
  <2>1. u = [s EXCEPT !.mc.writeData = waiting]
    BY <1>4, Zenon DEF SendWriteData
  <2> HIDE DEF u, waiting
  <2>2. /\ u = [bank |-> s.bank, queue |-> s.queue, ranks |-> s.ranks, mc |-> u.mc,
                pending |-> s.pending, accepted |-> s.accepted, store |-> s.store,
                done |-> s.done, stale |-> s.stale, error |-> s.error]
        /\ u.mc = [s.mc EXCEPT !.writeData = waiting]
    BY <2>1 DEF WellFormed, IsState
  <2>3. /\ IsController(u.mc) /\ u.mc.transactionQueue = s.mc.transactionQueue
        /\ u.mc.cmd = s.mc.cmd /\ u.mc.cmdCyclesLeft = s.mc.cmdCyclesLeft
        /\ u.mc.powerDown = s.mc.powerDown /\ u.mc.refreshRank = s.mc.refreshRank
        /\ u.mc.data = s.mc.data /\ u.mc.writeData = waiting
    BY <2>2 DEF WellFormed, IsState, IsController
  <2>4. SameBanks(s, u)
    BY <2>2, <2>3 DEF SameBanks
  <2>5. WellFormed(u)
    BY <1>2, <2>2, <2>3 DEF WellFormed, IsState, Typed
  <2> QED BY <2>4, <2>5 DEF u
<1> QED BY <1>3, <1>4

(* A rank that is told of its refresh.                                       *)
LEMMA RankTold ==
  ASSUME NEW s, WellFormed(s), NEW r \in Ranks
  PROVE  LET rs == [s.ranks EXCEPT ![r] = [s.ranks[r] EXCEPT !.refreshWaiting = TRUE]]
         IN  /\ DOMAIN rs = Ranks
             /\ \A a \in Ranks : /\ IsRank(rs[a]) /\ rs[a].bankStates = s.ranks[a].bankStates
                                 /\ rs[a].isPowerDown = s.ranks[a].isPowerDown
<1> DEFINE old == s.ranks[r]
           yes == TRUE
           new == [old EXCEPT !.refreshWaiting = yes]
           rs == [s.ranks EXCEPT ![r] = new]
<1>1. IsRank(old) /\ DOMAIN s.ranks = Ranks /\ \A a \in Ranks : IsRank(s.ranks[a])
  BY DEF WellFormed, IsState
<1>2. IsRank(new) /\ new.bankStates = old.bankStates /\ new.isPowerDown = old.isPowerDown
  <2> HIDE DEF old, yes
  <2>1. new = [bankStates |-> old.bankStates, refreshWaiting |-> yes,
               isPowerDown |-> old.isPowerDown, outgoingDataPacket |-> old.outgoingDataPacket,
               dataCyclesLeft |-> old.dataCyclesLeft, readReturn |-> old.readReturn]
    BY <1>1 DEF IsRank
  <2> HIDE DEF new
  <2> QED BY <1>1, <2>1 DEF IsRank
<1> HIDE DEF new
<1>3. /\ DOMAIN rs = Ranks
      /\ \A a \in Ranks : rs[a] = IF a = r THEN new ELSE s.ranks[a]
  BY <1>1
<1> HIDE DEF rs
<1>4. \A a \in Ranks : /\ IsRank(rs[a]) /\ rs[a].bankStates = s.ranks[a].bankStates
                       /\ rs[a].isPowerDown = s.ranks[a].isPowerDown
  BY <1>1, <1>2, <1>3
<1> QED BY <1>3, <1>4 DEF rs, new

LEMMA NeedRefreshOK ==
  ASSUME NEW q, QueueOK(q), NEW r \in Ranks
  PROVE  QueueOK(needRefresh(q, r))
BY DEF QueueOK, Queue, needRefresh

LEMMA RefreshDued ==
  ASSUME NEW s, WellFormed(s)
  PROVE  SameBanks(s, RefreshDue(s)) /\ WellFormed(RefreshDue(s))
<1> DEFINE u == RefreshDue(s)
           r == s.mc.refreshRank
           told == [s.ranks[r] EXCEPT !.refreshWaiting = TRUE]
           rs == [s.ranks EXCEPT ![r] = told]
<1>1. r \in Ranks
  BY DEF WellFormed, Typed
<1>2. /\ DOMAIN rs = Ranks
      /\ \A a \in Ranks : /\ IsRank(rs[a]) /\ rs[a].bankStates = s.ranks[a].bankStates
                          /\ rs[a].isPowerDown = s.ranks[a].isPowerDown
  BY <1>1, RankTold
<1>3. CASE s.mc.refreshCountdown[r] = 0
  <2> DEFINE q == needRefresh(s.queue, r)
             next == (r + 1) % NUM_RANKS
             counts == [s.mc.refreshCountdown EXCEPT ![r] = RefreshCycles]
             m == [s.mc EXCEPT !.refreshCountdown[r] = RefreshCycles, !.refreshRank = next]
             old == s.mc
  <2>1. u = [s EXCEPT !.queue = q, !.ranks = rs, !.mc = m]
    BY <1>3, Zenon DEF RefreshDue
  <2>2. next \in Ranks
    BY <1>1, Timings DEF Ranks
  <2>3. QueueOK(q)
    BY <1>1, NeedRefreshOK DEF WellFormed, Typed
  <2>4. IsController(old)
    BY DEF WellFormed, IsState
  <2>5. m = [old EXCEPT !.refreshCountdown = counts, !.refreshRank = next]
    BY Zenon
  <2> HIDE DEF u, rs, q, next, counts, m, old
  <2>6. m = [transactionQueue |-> old.transactionQueue, pendingReads |-> old.pendingReads,
             returns |-> old.returns, cmd |-> old.cmd, cmdCyclesLeft |-> old.cmdCyclesLeft,
             data |-> old.data, dataCyclesLeft |-> old.dataCyclesLeft,
             writeData |-> old.writeData, refreshRank |-> next, refreshCountdown |-> counts,
             powerDown |-> old.powerDown]
    BY <2>4, <2>5 DEF IsController
  <2>7. /\ IsController(m) /\ m.transactionQueue = s.mc.transactionQueue
        /\ m.cmd = s.mc.cmd /\ m.cmdCyclesLeft = s.mc.cmdCyclesLeft
        /\ m.powerDown = s.mc.powerDown /\ m.refreshRank = next
        /\ m.data = s.mc.data /\ m.writeData = s.mc.writeData
    BY <2>4, <2>6 DEF IsController, old
  <2>8. u = [bank |-> s.bank, queue |-> q, ranks |-> rs, mc |-> m,
             pending |-> s.pending, accepted |-> s.accepted, store |-> s.store,
             done |-> s.done, stale |-> s.stale, error |-> s.error]
    BY <2>1 DEF WellFormed, IsState
  <2>9. SameBanks(s, u)
    BY <1>2, <2>7, <2>8 DEF SameBanks
  <2>10. WellFormed(u)
    BY <1>2, <2>2, <2>3, <2>7, <2>8 DEF WellFormed, IsState, Typed
  <2> QED BY <2>9, <2>10 DEF u
<1>4. CASE s.mc.refreshCountdown[r] # 0 /\ s.mc.powerDown[r] /\ s.mc.refreshCountdown[r] <= tXP
  <2>1. u = [s EXCEPT !.ranks = rs]
    BY <1>4, Zenon DEF RefreshDue
  <2> HIDE DEF u, rs
  <2>2. u = [bank |-> s.bank, queue |-> s.queue, ranks |-> rs, mc |-> s.mc,
             pending |-> s.pending, accepted |-> s.accepted, store |-> s.store,
             done |-> s.done, stale |-> s.stale, error |-> s.error]
    BY <2>1 DEF WellFormed, IsState
  <2>3. SameBanks(s, u)
    BY <1>2, <2>2 DEF SameBanks
  <2>4. WellFormed(u)
    BY <1>2, <2>2 DEF WellFormed, IsState, Typed
  <2> QED BY <2>3, <2>4 DEF u
<1>5. CASE /\ s.mc.refreshCountdown[r] # 0
           /\ ~(s.mc.powerDown[r] /\ s.mc.refreshCountdown[r] <= tXP)
  <2>1. u = s
    BY <1>5, Zenon DEF RefreshDue
  <2> QED BY <2>1 DEF SameBanks
<1> QED BY <1>3, <1>4, <1>5

-----------------------------------------------------------------------------
(* The next command *)

(* A bank of another rank, which may have to wait longer for the data bus.   *)
Waits(c, d) ==
  /\ d \in Bank /\ d.state = c.state /\ d.row = c.row /\ d.lastCommand = c.lastCommand
  /\ d.countdown = c.countdown /\ d.nextPowerUp = c.nextPowerUp
  /\ d.nextActivate = c.nextActivate /\ d.nextPrecharge = c.nextPrecharge
  /\ c.nextRead <= d.nextRead /\ c.nextWrite <= d.nextWrite

LEMMA WaitsCover ==
  ASSUME NEW c, NEW d, NEW k, Waits(c, d), Covers(c, k, 0)
  PROVE  Covers(d, k, 0)
<1>1. c \in Bank /\ k \in Bank /\ d \in Bank
  BY DEF Covers, Waits
<1>2. /\ c.nextRead \in Nat /\ c.nextWrite \in Nat /\ d.nextRead \in Nat /\ d.nextWrite \in Nat
      /\ c.nextPrecharge \in Nat /\ k.nextRead \in Nat /\ k.nextWrite \in Nat
      /\ k.nextPrecharge \in Nat /\ c.countdown \in Nat
  BY <1>1 DEF Bank
<1> QED BY <1>1, <1>2 DEF Covers, Waits, Open, Closing

(* The table after a command p.                                              *)
Follows(table, new, p) ==
  /\ IsTable(new)
  /\ \A r \in Ranks, b \in Banks : r # p.rank => Waits(table[r][b], new[r][b])
  /\ \A b \in Banks : new[p.rank][b].state # "PowerDown"
  /\ \E b \in Banks : new[p.rank][b].state # "Idle"

LEMMA ReadFollows ==
  ASSUME NEW table, IsTable(table), NEW p \in Packet,
         table[p.rank][p.bank].state = "RowActive",
         \A b \in Banks : table[p.rank][b].state # "PowerDown"
  PROVE  Follows(table, AfterRead(table, p), p)
<1> DEFINE new == AfterRead(table, p)
<1>1. p.rank \in Ranks /\ p.bank \in Banks
  BY DEF Packet
<1>2. \A r \in Ranks, b \in Banks : table[r][b] \in Bank
  BY DEF IsTable
<1>3. \A r \in Ranks, b \in Banks :
        /\ new[r][b] \in Bank /\ new[r][b].state = table[r][b].state
        /\ r # p.rank => Waits(table[r][b], new[r][b])
  <2> TAKE r \in Ranks, b \in Banks
  <2> DEFINE c == table[r][b]
             d == new[r][b]
  <2>1. c \in Bank
    BY <1>2
  <2>2. /\ d \in Bank /\ d.state = c.state /\ d.row = c.row /\ d.nextPowerUp = c.nextPowerUp
        /\ r # p.rank => /\ d.countdown = c.countdown /\ d.nextActivate = c.nextActivate
                         /\ d.lastCommand = c.lastCommand
                         /\ c.nextRead <= d.nextRead /\ c.nextWrite <= d.nextWrite
                         /\ d.nextPrecharge = c.nextPrecharge
    BY <2>1, AfterReadBank
  <2> HIDE DEF c, d
  <2>3. d \in Bank /\ d.state = c.state /\ (r # p.rank => Waits(c, d))
    BY <2>2 DEF Waits
  <2> QED BY <2>3 DEF c, d
<1>4. new = [r \in Ranks |-> [b \in Banks |-> new[r][b]]]
  BY SMTT(20) DEF AfterRead
<1> HIDE DEF new
<1>5. IsTable(new)
  BY <1>3, <1>4 DEF IsTable
<1>6. Follows(table, new, p)
  BY <1>1, <1>3, <1>5 DEF Follows
<1> QED BY <1>6 DEF new

LEMMA WriteFollows ==
  ASSUME NEW table, IsTable(table), NEW p \in Packet,
         table[p.rank][p.bank].state = "RowActive",
         \A b \in Banks : table[p.rank][b].state # "PowerDown"
  PROVE  Follows(table, AfterWrite(table, p), p)
<1> DEFINE new == AfterWrite(table, p)
<1>1. p.rank \in Ranks /\ p.bank \in Banks
  BY DEF Packet
<1>2. \A r \in Ranks, b \in Banks : table[r][b] \in Bank
  BY DEF IsTable
<1>3. \A r \in Ranks, b \in Banks :
        /\ new[r][b] \in Bank /\ new[r][b].state = table[r][b].state
        /\ r # p.rank => Waits(table[r][b], new[r][b])
  <2> TAKE r \in Ranks, b \in Banks
  <2> DEFINE c == table[r][b]
             d == new[r][b]
  <2>1. c \in Bank
    BY <1>2
  <2>2. /\ d \in Bank /\ d.state = c.state /\ d.row = c.row /\ d.nextPowerUp = c.nextPowerUp
        /\ r # p.rank => /\ d.countdown = c.countdown /\ d.nextActivate = c.nextActivate
                         /\ d.lastCommand = c.lastCommand
                         /\ c.nextRead <= d.nextRead /\ c.nextWrite <= d.nextWrite
                         /\ d.nextPrecharge = c.nextPrecharge
    BY <2>1, AfterWriteBank
  <2> HIDE DEF c, d
  <2>3. d \in Bank /\ d.state = c.state /\ (r # p.rank => Waits(c, d))
    BY <2>2 DEF Waits
  <2> QED BY <2>3 DEF c, d
<1>4. new = [r \in Ranks |-> [b \in Banks |-> new[r][b]]]
  BY SMTT(20) DEF AfterWrite
<1> HIDE DEF new
<1>5. IsTable(new)
  BY <1>3, <1>4 DEF IsTable
<1>6. Follows(table, new, p)
  BY <1>1, <1>3, <1>5 DEF Follows
<1> QED BY <1>6 DEF new

(* A command that only its own rank has to wait for.                         *)
LEMMA OneRank ==
  ASSUME NEW table, IsTable(table), NEW r \in Ranks, NEW f \in [Banks -> Bank]
  PROVE  LET new == [table EXCEPT ![r] = f]
         IN  /\ IsTable(new) /\ new[r] = f
             /\ \A a \in Ranks, b \in Banks : a # r => Waits(table[a][b], new[a][b])
<1> DEFINE new == [table EXCEPT ![r] = f]
<1>1. IsTable(new) /\ new[r] = f
  BY DEF IsTable
<1>2. ASSUME NEW a \in Ranks, NEW b \in Banks, a # r
      PROVE  Waits(table[a][b], new[a][b])
  <2> DEFINE c == table[a][b]
  <2>1. new[a][b] = c /\ c \in Bank
    BY <1>2 DEF IsTable
  <2> HIDE DEF c
  <2>2. Waits(c, c)
    BY <2>1 DEF Waits, Bank
  <2> QED BY <2>1, <2>2 DEF c
<1> QED BY <1>1, <1>2

LEMMA ActivateFollows ==
  ASSUME NEW table, IsTable(table), NEW p \in Packet,
         \A b \in Banks : table[p.rank][b].state # "PowerDown"
  PROVE  Follows(table, AfterActivate(table, p), p)
<1> DEFINE new == AfterActivate(table, p)
           f == new[p.rank]
<1>1. p.rank \in Ranks /\ p.bank \in Banks
  BY DEF Packet
<1>2. ASSUME NEW b \in Banks
      PROVE  /\ f[b] \in Bank /\ f[b].state # "PowerDown"
             /\ b = p.bank => f[b].state = "RowActive"
  <2>1. /\ f[b] \in Bank
        /\ b = p.bank => f[b].state = "RowActive"
        /\ b # p.bank => f[b].state = table[p.rank][b].state
    BY AfterActivateBank
  <2> HIDE DEF f
  <2> QED BY <2>1
<1>3. new = [table EXCEPT ![p.rank] = f] /\ f = [b \in Banks |-> f[b]]
  <2> DEFINE g == [b \in Banks |->
                LET old == table[p.rank][b]
                IN  IF b = p.bank
                    THEN [old EXCEPT !.state = "RowActive", !.lastCommand = "ACTIVATE",
                                     !.row = p.row, !.nextActivate = larger(@, tRC),
                                     !.nextPrecharge = larger(@, tRAS),
                                     !.nextRead = larger(@, tRCD - AL),
                                     !.nextWrite = larger(@, tRCD - AL)]
                    ELSE [old EXCEPT !.nextActivate = larger(@, tRRD)]]
  <2>1. new = [table EXCEPT ![p.rank] = g]
    BY Zenon DEF AfterActivate
  <2>2. g = [b \in Banks |-> g[b]]
    BY <1>1, SMTT(20) DEF IsTable
  <2> HIDE DEF g, new
  <2>3. f = g
    BY <1>1, <2>1 DEF IsTable
  <2> HIDE DEF f
  <2> QED BY <2>1, <2>2, <2>3
<1> HIDE DEF new, f
<1>4. f \in [Banks -> Bank]
  BY <1>2, <1>3
<1>5. /\ IsTable(new) /\ new[p.rank] = f
      /\ \A a \in Ranks, b \in Banks : a # p.rank => Waits(table[a][b], new[a][b])
  <2> DEFINE upd == [table EXCEPT ![p.rank] = f]
  <2>1. /\ IsTable(upd) /\ upd[p.rank] = f
        /\ \A a \in Ranks, b \in Banks : a # p.rank => Waits(table[a][b], upd[a][b])
    BY <1>1, <1>4, OneRank
  <2>2. new = upd
    BY <1>3
  <2> HIDE DEF upd
  <2> QED BY <2>1, <2>2
<1>6. Follows(table, new, p)
  BY <1>1, <1>2, <1>5 DEF Follows
<1> QED BY <1>6 DEF new

LEMMA PrechargeFollows ==
  ASSUME NEW table, IsTable(table), NEW p \in Packet,
         \A b \in Banks : table[p.rank][b].state # "PowerDown"
  PROVE  Follows(table, AfterPrecharge(table, p), p)
<1> DEFINE new == AfterPrecharge(table, p)
           f == new[p.rank]
<1>1. p.rank \in Ranks /\ p.bank \in Banks
  BY DEF Packet
<1>2. ASSUME NEW b \in Banks
      PROVE  /\ f[b] \in Bank /\ f[b].state # "PowerDown"
             /\ b = p.bank => f[b].state = "Precharging"
  <2>1. /\ f[b] \in Bank
        /\ b = p.bank => f[b].state = "Precharging"
        /\ b # p.bank => f[b] = table[p.rank][b]
    BY AfterPrechargeBank
  <2> HIDE DEF f
  <2> QED BY <2>1
<1>3. new = [table EXCEPT ![p.rank] = f] /\ f = [b \in Banks |-> f[b]]
  <2> DEFINE g == [table[p.rank] EXCEPT ![p.bank] =
                [table[p.rank][p.bank] EXCEPT
                   !.state = "Precharging", !.lastCommand = "PRECHARGE", !.countdown = tRP,
                   !.nextActivate = larger(@, tRP)]]
  <2>1. new = [table EXCEPT ![p.rank] = g]
    BY Zenon DEF AfterPrecharge
  <2>2. g = [b \in Banks |-> g[b]]
    BY <1>1, SMTT(20) DEF IsTable
  <2> HIDE DEF g, new
  <2>3. f = g
    BY <1>1, <2>1 DEF IsTable
  <2> HIDE DEF f
  <2> QED BY <2>1, <2>2, <2>3
<1> HIDE DEF new, f
<1>4. f \in [Banks -> Bank]
  BY <1>2, <1>3
<1>5. /\ IsTable(new) /\ new[p.rank] = f
      /\ \A a \in Ranks, b \in Banks : a # p.rank => Waits(table[a][b], new[a][b])
  <2> DEFINE upd == [table EXCEPT ![p.rank] = f]
  <2>1. /\ IsTable(upd) /\ upd[p.rank] = f
        /\ \A a \in Ranks, b \in Banks : a # p.rank => Waits(table[a][b], upd[a][b])
    BY <1>1, <1>4, OneRank
  <2>2. new = upd
    BY <1>3
  <2> HIDE DEF upd
  <2> QED BY <2>1, <2>2
<1>6. Follows(table, new, p)
  BY <1>1, <1>2, <1>5 DEF Follows
<1> QED BY <1>6 DEF new

LEMMA RefreshFollows ==
  ASSUME NEW table, IsTable(table), NEW p \in Packet, p.type = "REFRESH"
  PROVE  Follows(table, AfterRefresh(table, p), p)
<1> DEFINE new == AfterRefresh(table, p)
           f == new[p.rank]
<1>1. p.rank \in Ranks /\ p.bank \in Banks
  BY DEF Packet
<1>2. ASSUME NEW b \in Banks
      PROVE  f[b] \in Bank /\ f[b].state = "Refreshing"
  <2> DEFINE banks == table[p.rank]
  <2>1. banks[b] \in Bank
    BY <1>1 DEF IsTable
  <2> QED BY <2>1, RefreshFields
<1>3. new = [table EXCEPT ![p.rank] = f] /\ f = [b \in Banks |-> f[b]]
  <2> DEFINE g == [b \in Banks |->
                [table[p.rank][b] EXCEPT !.state = "Refreshing", !.lastCommand = "REFRESH",
                                         !.countdown = tRFC, !.nextActivate = tRFC]]
  <2>1. new = [table EXCEPT ![p.rank] = g]
    BY Zenon DEF AfterRefresh
  <2>2. g = [b \in Banks |-> g[b]]
    BY <1>1, SMTT(20) DEF IsTable
  <2> HIDE DEF g, new
  <2>3. f = g
    BY <1>1, <2>1 DEF IsTable
  <2> HIDE DEF f
  <2> QED BY <2>1, <2>2, <2>3
<1> HIDE DEF new, f
<1>4. f \in [Banks -> Bank]
  BY <1>2, <1>3
<1>5. /\ IsTable(new) /\ new[p.rank] = f
      /\ \A a \in Ranks, b \in Banks : a # p.rank => Waits(table[a][b], new[a][b])
  <2> DEFINE upd == [table EXCEPT ![p.rank] = f]
  <2>1. /\ IsTable(upd) /\ upd[p.rank] = f
        /\ \A a \in Ranks, b \in Banks : a # p.rank => Waits(table[a][b], upd[a][b])
    BY <1>1, <1>4, OneRank
  <2>2. new = upd
    BY <1>3
  <2> HIDE DEF upd
  <2> QED BY <2>1, <2>2
<1>6. Follows(table, new, p)
  BY <1>1, <1>2, <1>5 DEF Follows
<1> QED BY <1>6 DEF new

LEMMA CommandHanded ==
  ASSUME NEW table, IsTable(table), NEW rank, IsRank(rank), NEW p, Sendable(table, p),
         \A a \in Banks : Covers(table[p.rank][a], rank.bankStates[a], 0),
         NEW down \in BOOLEAN,
         \A a \in Banks : table[p.rank][a].state = "PowerDown" <=> down
  PROVE  LET new == AfterCommand(table, p)
         IN  /\ Follows(table, new, p) /\ ~down
             /\ HandedTo(new[p.rank], RankStep(rank).bankStates, p)
<1> DEFINE new == AfterCommand(table, p)
           banks == RankStep(rank).bankStates
           here == table[p.rank][p.bank]
<1>1. p \in Packet /\ p.rank \in Ranks /\ p.bank \in Banks
  BY DEF Sendable, Packet
<1>2. ~down
  <2>1. here.state # "PowerDown" \/ table[p.rank][0].state # "PowerDown"
    BY DEF Sendable
  <2> QED BY <1>1, <2>1, ZeroIn
<1>3. \A b \in Banks : table[p.rank][b].state # "PowerDown"
  BY <1>2
<1>4. ASSUME Follows(table, new, p),
             \A b \in Banks : /\ Covers(step(new[p.rank][b]), ReceivedBanks(banks, p)[b], 1)
                              /\ Allowed(banks, p)
      PROVE  HandedTo(new[p.rank], banks, p)
  <2> HIDE DEF new, banks
  <2> QED BY <1>1, <1>4 DEF HandedTo, Follows
<1>5. CASE /\ IsRead(p) /\ p.type \in Queued
           /\ here.state = "RowActive" /\ here.row = p.row /\ here.nextRead = 0
  <2>1. new = AfterRead(table, p)
    BY <1>5, ReadIs, Zenon DEF AfterCommand
  <2>2. Follows(table, AfterRead(table, p), p)
    BY <1>1, <1>3, <1>5, ReadFollows
  <2>3. \A b \in Banks : /\ Covers(step(AfterRead(table, p)[p.rank][b]), ReceivedBanks(banks, p)[b], 1)
                         /\ Allowed(banks, p)
    BY <1>1, <1>5, ReadCover
  <2> HIDE DEF new, banks
  <2>4. Follows(table, new, p) /\ HandedTo(new[p.rank], banks, p)
    BY <1>4, <2>1, <2>2, <2>3
  <2> QED BY <1>2, <2>4 DEF new, banks
<1>6. CASE /\ IsWrite(p) /\ p.type \in Queued
           /\ here.state = "RowActive" /\ here.row = p.row /\ here.nextWrite = 0
  <2>1. new = AfterWrite(table, p)
    BY <1>6, WriteIs, Zenon DEF AfterCommand
  <2>2. Follows(table, AfterWrite(table, p), p)
    BY <1>1, <1>3, <1>6, WriteFollows
  <2>3. \A b \in Banks : /\ Covers(step(AfterWrite(table, p)[p.rank][b]), ReceivedBanks(banks, p)[b], 1)
                         /\ Allowed(banks, p)
    BY <1>1, <1>6, WriteCover
  <2> HIDE DEF new, banks
  <2>4. Follows(table, new, p) /\ HandedTo(new[p.rank], banks, p)
    BY <1>4, <2>1, <2>2, <2>3
  <2> QED BY <1>2, <2>4 DEF new, banks
<1>7. CASE /\ p.type = "ACTIVATE"
           /\ here.state \in {"Idle", "Refreshing"} /\ here.nextActivate = 0
  <2>1. new = AfterActivate(table, p)
    BY <1>7, ActivateIs, Zenon DEF AfterCommand
  <2>2. Follows(table, AfterActivate(table, p), p)
    BY <1>1, <1>3, <1>7, ActivateFollows
  <2>3. \A b \in Banks : /\ Covers(step(AfterActivate(table, p)[p.rank][b]), ReceivedBanks(banks, p)[b], 1)
                         /\ Allowed(banks, p)
    BY <1>1, <1>7, ActivateCover
  <2> HIDE DEF new, banks
  <2>4. Follows(table, new, p) /\ HandedTo(new[p.rank], banks, p)
    BY <1>4, <2>1, <2>2, <2>3
  <2> QED BY <1>2, <2>4 DEF new, banks
<1>8. CASE /\ p.type = "PRECHARGE" /\ ini.rowBufferPolicy # "ClosePage"
           /\ here.state = "RowActive" /\ here.nextPrecharge = 0
  <2>1. new = AfterPrecharge(table, p)
    BY <1>8, PrechargeIs, Zenon DEF AfterCommand
  <2>2. Follows(table, AfterPrecharge(table, p), p)
    BY <1>1, <1>3, <1>8, PrechargeFollows
  <2>3. \A b \in Banks : /\ Covers(step(AfterPrecharge(table, p)[p.rank][b]), ReceivedBanks(banks, p)[b], 1)
                         /\ Allowed(banks, p)
    BY <1>1, <1>8, PrechargeCover
  <2> HIDE DEF new, banks
  <2>4. Follows(table, new, p) /\ HandedTo(new[p.rank], banks, p)
    BY <1>4, <2>1, <2>2, <2>3
  <2> QED BY <1>2, <2>4 DEF new, banks
<1>9. CASE /\ p.type = "REFRESH"
           /\ \A a \in Banks : table[p.rank][a].state # "RowActive"
  <2>1. new = AfterRefresh(table, p)
    BY <1>9, RefreshIs, Zenon DEF AfterCommand
  <2>a. \A a \in Banks : /\ Covers(table[p.rank][a], rank.bankStates[a], 0)
                         /\ table[p.rank][a].state \notin {"RowActive", "PowerDown"}
    BY <1>3, <1>9
  <2>2. Follows(table, AfterRefresh(table, p), p)
    BY <1>1, <1>3, <1>9, RefreshFollows
  <2>3. \A b \in Banks : /\ Covers(step(AfterRefresh(table, p)[p.rank][b]), ReceivedBanks(banks, p)[b], 1)
                         /\ Allowed(banks, p)
    BY <1>1, <1>9, <2>a, RefreshCover
  <2> HIDE DEF new, banks
  <2>4. Follows(table, new, p) /\ HandedTo(new[p.rank], banks, p)
    BY <1>4, <2>1, <2>2, <2>3
  <2> QED BY <1>2, <2>4 DEF new, banks
<1> QED BY <1>5, <1>6, <1>7, <1>8, <1>9 DEF Sendable

LEMMA MiddleIssued ==
  ASSUME NEW s, Middle(s)
  PROVE  Issued(s)
BY DEF Middle, Issued

LEMMA CommandIssued ==
  ASSUME NEW s, Middle(s)
  PROVE  Issued(IssueCommand(s))
<1> DEFINE popped == pop(ini, s.queue, s.bank)
           p == popped.packet
           q == popped.queue
           u == IssueCommand(s)
           old == s.mc
<1>1. /\ WellFormed(s) /\ s.mc.cmd = NoPacket /\ IsTable(s.bank) /\ QueueOK(s.queue)
      /\ IsController(old)
      /\ \A r \in Ranks : Covered(s, r, s.ranks[r].bankStates, 0) /\ IsRank(s.ranks[r])
  BY DEF Middle, WellFormed, IsState, Typed, IsTable
<1>2. QueueOK(q) /\ (p = NoPacket \/ Sendable(s.bank, p))
  BY <1>1, PopGood DEF GoodTry
<1>3. CASE p = NoPacket
  <2>1. u = [s EXCEPT !.queue = q]
    BY <1>3, Zenon DEF IssueCommand
  <2> HIDE DEF u, q
  <2>2. u = [bank |-> s.bank, queue |-> q, ranks |-> s.ranks, mc |-> s.mc,
             pending |-> s.pending, accepted |-> s.accepted, store |-> s.store,
             done |-> s.done, stale |-> s.stale, error |-> s.error]
    BY <1>1, <2>1 DEF WellFormed, IsState
  <2>3. SameBanks(s, u)
    BY <2>2 DEF SameBanks
  <2>4. WellFormed(u)
    BY <1>1, <1>2, <2>2 DEF WellFormed, IsState, Typed
  <2>5. Middle(u)
    BY <2>3, <2>4, Framed
  <2> QED BY <2>5, MiddleIssued DEF u
<1>4. CASE p # NoPacket
  <2> DEFINE new == AfterCommand(s.bank, p)
             data == [packet |-> [p EXCEPT !.type = "DATA"], countdown |-> WL]
             wd == IF IsWrite(p) THEN Append(s.mc.writeData, data) ELSE s.mc.writeData
             m == [old EXCEPT !.cmd = p, !.cmdCyclesLeft = tCMD, !.writeData = wd]
  <2>1. Sendable(s.bank, p) /\ p \in Packet /\ p.rank \in Ranks
    BY <1>2, <1>4 DEF Sendable, Packet
  <2>2. u = [s EXCEPT !.queue = q, !.bank = new, !.mc = m]
    BY <1>1, <1>4, Zenon DEF IssueCommand, Check
  <2>3. /\ Follows(s.bank, new, p) /\ ~s.mc.powerDown[p.rank]
        /\ HandedTo(new[p.rank], RankStep(s.ranks[p.rank]).bankStates, p)
    <3>1. /\ s.mc.powerDown[p.rank] \in BOOLEAN
          /\ \A a \in Banks :
               /\ Covers(s.bank[p.rank][a], s.ranks[p.rank].bankStates[a], 0)
               /\ s.bank[p.rank][a].state = "PowerDown" <=> s.mc.powerDown[p.rank]
      BY <1>1, <2>1 DEF Covered, RankCovered
    <3> QED BY <1>1, <2>1, <3>1, CommandHanded
  <2>4. wd \in Seq([packet : DataPacket, countdown : Int])
    <3>1. s.mc.writeData \in Seq([packet : DataPacket, countdown : Int])
      BY <1>1 DEF WellFormed, Typed
    <3>2. WL \in Int
      BY TimingAssumption DEF WL, RL
    <3>3. [p EXCEPT !.type = "DATA"] \in DataPacket
      BY <2>1 DEF Packet, DataPacket
    <3>4. data \in [packet : DataPacket, countdown : Int]
      BY <3>2, <3>3
    <3> DEFINE Waiting == [packet : DataPacket, countdown : Int]
    <3>5. s.mc.writeData \in Seq(Waiting) /\ data \in Waiting
      BY <3>1, <3>4
    <3> HIDE DEF data, Waiting
    <3>6. wd \in Seq(Waiting)
      BY <3>5
    <3> QED BY <3>6 DEF Waiting
  <2>5. s.ranks[p.rank].isPowerDown = s.mc.powerDown[p.rank]
    BY <1>1, <2>1 DEF Covered, RankCovered
  <2> DEFINE one == tCMD
  <2> HIDE DEF popped, p, q, u, old, new, data, wd, one
  <2>a. IsController(old) /\ m = [old EXCEPT !.cmd = p, !.cmdCyclesLeft = one, !.writeData = wd]
    BY <1>1 DEF one
  <2> HIDE DEF m
  <2>6. m = [transactionQueue |-> old.transactionQueue, pendingReads |-> old.pendingReads,
             returns |-> old.returns, cmd |-> p, cmdCyclesLeft |-> one,
             data |-> old.data, dataCyclesLeft |-> old.dataCyclesLeft,
             writeData |-> wd, refreshRank |-> old.refreshRank,
             refreshCountdown |-> old.refreshCountdown, powerDown |-> old.powerDown]
    BY <2>a DEF IsController
  <2>7. /\ IsController(m) /\ m.transactionQueue = s.mc.transactionQueue
        /\ m.cmd = p /\ m.cmdCyclesLeft = 1
        /\ m.powerDown = s.mc.powerDown /\ m.refreshRank = s.mc.refreshRank
        /\ m.data = s.mc.data /\ m.writeData = wd
    BY <2>a, <2>6, Timings DEF IsController, old, one
  <2>8. u = [bank |-> new, queue |-> q, ranks |-> s.ranks, mc |-> m,
             pending |-> s.pending, accepted |-> s.accepted, store |-> s.store,
             done |-> s.done, stale |-> s.stale, error |-> s.error]
    BY <1>1, <2>2 DEF WellFormed, IsState
  <2>9. WellFormed(u)
    BY <1>1, <1>2, <2>3, <2>4, <2>7, <2>8 DEF WellFormed, IsState, Typed, Follows, IsTable
  <2>10. Handed(u, p.rank, p)
    BY <2>3, <2>5, <2>7, <2>8 DEF Handed
  <2>11. ASSUME NEW r \in Ranks, r # p.rank
         PROVE  Covered(u, r, u.ranks[r].bankStates, 0)
    <3>1. \A b \in Banks : Waits(s.bank[r][b], new[r][b])
      BY <2>3, <2>11 DEF Follows
    <3>2. RankCovered(s.bank[r], s.ranks[r].bankStates, s.mc.powerDown[r],
                      s.ranks[r].isPowerDown, 0)
      BY <1>1 DEF Covered
    <3>3. \A b \in Banks : /\ Covers(new[r][b], s.ranks[r].bankStates[b], 0)
                           /\ new[r][b].state = s.bank[r][b].state
                           /\ new[r][b].nextPowerUp = s.bank[r][b].nextPowerUp
      BY <3>1, <3>2, WaitsCover DEF RankCovered, Waits
    <3>4. new[r][0].nextPowerUp = s.bank[r][0].nextPowerUp
      BY <3>3, ZeroIn
    <3>5. RankCovered(new[r], s.ranks[r].bankStates, s.mc.powerDown[r],
                      s.ranks[r].isPowerDown, 0)
      BY <3>2, <3>3, <3>4 DEF RankCovered
    <3> QED BY <2>7, <2>8, <3>5 DEF Covered
  <2>12. Issued(u)
    BY <1>4, <2>1, <2>7, <2>8, <2>9, <2>10, <2>11 DEF Issued
  <2> QED BY <2>12 DEF u
<1> QED BY <1>3, <1>4

-----------------------------------------------------------------------------
(* Transactions, power, and read data *)

LEMMA BusPacketIs ==
  ASSUME NEW x \in Transactions, NEW type \in Queued
  PROVE  BusPacket(type, x) \in Packet /\ BusPacket(type, x).type \in Queued
<1> DEFINE at == addressMapping(x.addr)
<1>1. /\ x.addr \in Addresses /\ x.id \in Nat
      /\ at.rank \in Ranks /\ at.bank \in Banks /\ at.row \in Rows
  BY MappingAssumption DEF Transactions
<1>2. type \in Commands /\ x.addr \in Nat
  BY <1>1, ClientAssumption DEF Queued, Commands
<1>3. BusPacket(type, x) = [type |-> type, addr |-> x.addr, rank |-> at.rank, bank |-> at.bank,
                            row |-> at.row, id |-> x.id, data |-> x.id]
  BY DEF BusPacket
<1> HIDE DEF at
<1> QED BY <1>1, <1>2, <1>3 DEF Packet

LEMMA TransactionScheduled ==
  ASSUME NEW s, WellFormed(s)
  PROVE  SameBanks(s, ScheduleTransaction(s)) /\ WellFormed(ScheduleTransaction(s))
<1> DEFINE u == ScheduleTransaction(s)
           trans == s.mc.transactionQueue
           fits == {i \in DOMAIN trans :
                      LET at == addressMapping(trans[i].addr)
                      IN  hasRoomFor(ini, s.queue, 2, at.rank, at.bank)}
           first == Min(fits)
           x == trans[first]
           old == s.mc
<1>1. CASE fits = {}
  <2>1. u = s
    BY <1>1, Zenon DEF ScheduleTransaction
  <2> QED BY <2>1 DEF SameBanks
<1>2. CASE fits # {}
  <2> DEFINE rest == RemoveAt(trans, first)
             act == BusPacket("ACTIVATE", x)
             col == BusPacket(getBusPacketType(x), x)
             q == enqueue(ini, enqueue(ini, s.queue, act), col)
             reads == IF x.write THEN s.mc.pendingReads ELSE Append(s.mc.pendingReads, x)
             m == [old EXCEPT !.transactionQueue = rest, !.pendingReads = reads]
  <2>1. u = [s EXCEPT !.mc = m, !.queue = q]
    BY <1>2, Zenon DEF ScheduleTransaction
  <2>2. trans \in Seq(Transactions) /\ QueueOK(s.queue) /\ IsController(old)
    BY DEF WellFormed, Typed, IsState
  <2>3. first \in DOMAIN trans
    <3>1. fits \subseteq DOMAIN trans
      OBVIOUS
    <3> HIDE DEF trans, fits
    <3>2. DOMAIN trans \subseteq Nat
      BY <2>2
    <3>3. fits \subseteq Nat
      BY <3>1, <3>2
    <3> QED BY <1>2, <3>1, <3>3, MinIn
  <2>4. x \in Transactions /\ rest \in Seq(Transactions)
    <3> HIDE DEF trans, first
    <3>1. x \in Transactions
      BY <2>2, <2>3
    <3>2. rest \in Seq(Transactions)
      BY <2>2, <2>3, Removed
    <3> QED BY <3>1, <3>2
  <2>5. /\ act \in Packet /\ act.type \in Queued /\ col \in Packet /\ col.type \in Queued
    <3> HIDE DEF x
    <3>1. "ACTIVATE" \in Queued /\ getBusPacketType(x) \in Queued
      BY DEF Queued, getBusPacketType
    <3> QED BY <2>4, <3>1, BusPacketIs
  <2>6. QueueOK(q)
    <3> HIDE DEF act, col
    <3> QED BY <2>2, <2>5, EnqueueOK
  <2>a. IsController(old) /\ m = [old EXCEPT !.transactionQueue = rest, !.pendingReads = reads]
    BY <2>2
  <2> HIDE DEF u, trans, fits, first, x, old, rest, act, col, q, reads, m
  <2>7. m = [transactionQueue |-> rest, pendingReads |-> reads,
             returns |-> old.returns, cmd |-> old.cmd, cmdCyclesLeft |-> old.cmdCyclesLeft,
             data |-> old.data, dataCyclesLeft |-> old.dataCyclesLeft,
             writeData |-> old.writeData, refreshRank |-> old.refreshRank,
             refreshCountdown |-> old.refreshCountdown, powerDown |-> old.powerDown]
    BY <2>a DEF IsController
  <2>8. /\ IsController(m) /\ m.transactionQueue = rest
        /\ m.cmd = s.mc.cmd /\ m.cmdCyclesLeft = s.mc.cmdCyclesLeft
        /\ m.powerDown = s.mc.powerDown /\ m.refreshRank = s.mc.refreshRank
        /\ m.data = s.mc.data /\ m.writeData = s.mc.writeData
    BY <2>2, <2>7 DEF IsController, old
  <2>9. u = [bank |-> s.bank, queue |-> q, ranks |-> s.ranks, mc |-> m,
             pending |-> s.pending, accepted |-> s.accepted, store |-> s.store,
             done |-> s.done, stale |-> s.stale, error |-> s.error]
    BY <2>1 DEF WellFormed, IsState
  <2>10. SameBanks(s, u)
    BY <2>8, <2>9 DEF SameBanks
  <2>11. WellFormed(u)
    BY <2>4, <2>6, <2>8, <2>9 DEF WellFormed, IsState, Typed
  <2> QED BY <2>10, <2>11 DEF u
<1> QED BY <1>1, <1>2

LEMMA ReadReturned ==
  ASSUME NEW s, WellFormed(s)
  PROVE  SameBanks(s, ReturnRead(s)) /\ WellFormed(ReturnRead(s))
<1> DEFINE u == ReturnRead(s)
           p == Head(s.mc.returns)
           match == {i \in DOMAIN s.mc.pendingReads : s.mc.pendingReads[i].addr = p.addr}
           old == s.mc
<1>1. CASE s.mc.returns = <<>>
  <2>1. u = s
    BY <1>1, Zenon DEF ReturnRead
  <2> QED BY <2>1 DEF SameBanks
<1>2. CASE s.mc.returns # <<>> /\ match = {}
  <2> DEFINE message == "Can't find a matching transaction"
             err == IF s.error = "none" THEN message ELSE s.error
  <2>1. u = [s EXCEPT !.error = err]
    BY <1>2, Zenon DEF ReturnRead, Fail
  <2>2. err \in OtherErrors
    BY DEF WellFormed, OtherErrors
  <2> HIDE DEF u, err
  <2>3. u = [bank |-> s.bank, queue |-> s.queue, ranks |-> s.ranks, mc |-> s.mc,
             pending |-> s.pending, accepted |-> s.accepted, store |-> s.store,
             done |-> s.done, stale |-> s.stale, error |-> err]
    BY <2>1 DEF WellFormed, IsState
  <2>4. SameBanks(s, u)
    BY <2>3 DEF SameBanks
  <2>5. WellFormed(u)
    BY <2>2, <2>3 DEF WellFormed, IsState, Typed
  <2> QED BY <2>4, <2>5 DEF u
<1>3. CASE s.mc.returns # <<>> /\ match # {}
  <2> DEFINE rest == Tail(s.mc.returns)
             reads == RemoveAt(s.mc.pendingReads, Min(match))
             m == [old EXCEPT !.returns = rest, !.pendingReads = reads]
  <2>1. PICK d, st : u = [s EXCEPT !.mc = m, !.done = d, !.stale = st]
    BY <1>3, Zenon DEF ReturnRead
  <2>2. IsController(old)
    BY DEF WellFormed, IsState
  <2>a. IsController(old) /\ m = [old EXCEPT !.returns = rest, !.pendingReads = reads]
    BY <2>2
  <2> HIDE DEF u, p, match, old, rest, reads, m
  <2>3. m = [transactionQueue |-> old.transactionQueue, pendingReads |-> reads,
             returns |-> rest, cmd |-> old.cmd, cmdCyclesLeft |-> old.cmdCyclesLeft,
             data |-> old.data, dataCyclesLeft |-> old.dataCyclesLeft,
             writeData |-> old.writeData, refreshRank |-> old.refreshRank,
             refreshCountdown |-> old.refreshCountdown, powerDown |-> old.powerDown]
    BY <2>a DEF IsController
  <2>4. /\ IsController(m) /\ m.transactionQueue = s.mc.transactionQueue
        /\ m.cmd = s.mc.cmd /\ m.cmdCyclesLeft = s.mc.cmdCyclesLeft
        /\ m.powerDown = s.mc.powerDown /\ m.refreshRank = s.mc.refreshRank
        /\ m.data = s.mc.data /\ m.writeData = s.mc.writeData
    BY <2>2, <2>3 DEF IsController, old
  <2>5. u = [bank |-> s.bank, queue |-> s.queue, ranks |-> s.ranks, mc |-> m,
             pending |-> s.pending, accepted |-> s.accepted, store |-> s.store,
             done |-> d, stale |-> st, error |-> s.error]
    BY <2>1 DEF WellFormed, IsState
  <2>6. SameBanks(s, u)
    BY <2>4, <2>5 DEF SameBanks
  <2>7. WellFormed(u)
    BY <2>4, <2>5 DEF WellFormed, IsState, Typed
  <2> QED BY <2>6, <2>7 DEF u
<1> QED BY <1>1, <1>2, <1>3

LEMMA BankPowered ==
  ASSUME NEW b \in Bank
  PROVE  /\ LET x == BankPowerDown(b)
            IN  /\ x \in Bank /\ x.state = "PowerDown" /\ x.nextPowerUp = tCKE
                /\ x.countdown = b.countdown /\ x.nextActivate = b.nextActivate
         /\ LET x == BankPowerUp(b)
            IN  /\ x \in Bank /\ x.state = "Idle" /\ x.nextActivate = tXP
                /\ x.countdown = b.countdown /\ x.nextPowerUp = b.nextPowerUp
BY Timings DEF Bank, BankPowerDown, BankPowerUp

LEMMA RankPowered ==
  ASSUME NEW rank, IsRank(rank)
  PROVE  /\ LET t == RankPowerDown(rank)
            IN  /\ IsRank(t) /\ t.isPowerDown = TRUE
                /\ \A b \in Banks : t.bankStates[b] = BankPowerDown(rank.bankStates[b])
         /\ LET t == RankPowerUp(rank)
            IN  /\ IsRank(t) /\ t.isPowerDown = FALSE
                /\ \A b \in Banks : t.bankStates[b] = BankPowerUp(rank.bankStates[b])
<1> DEFINE banks == [b \in Banks |-> BankPowerDown(rank.bankStates[b])]
           banks2 == [b \in Banks |-> BankPowerUp(rank.bankStates[b])]
           yes == TRUE
           no == FALSE
<1>1. banks \in [Banks -> Bank] /\ banks2 \in [Banks -> Bank]
  BY BankPowered DEF IsRank
<1>2. /\ RankPowerDown(rank) = [rank EXCEPT !.isPowerDown = yes, !.bankStates = banks]
      /\ RankPowerUp(rank) = [rank EXCEPT !.isPowerDown = no, !.bankStates = banks2]
  BY Zenon DEF RankPowerDown, RankPowerUp
<1>3. ASSUME NEW t, NEW flag, NEW bs, t = [rank EXCEPT !.isPowerDown = flag, !.bankStates = bs],
             bs \in [Banks -> Bank]
      PROVE  IsRank(t) /\ t.isPowerDown = flag /\ t.bankStates = bs
  <2>1. t = [bankStates |-> bs, refreshWaiting |-> rank.refreshWaiting,
             isPowerDown |-> flag, outgoingDataPacket |-> rank.outgoingDataPacket,
             dataCyclesLeft |-> rank.dataCyclesLeft, readReturn |-> rank.readReturn]
    BY <1>3 DEF IsRank
  <2> QED BY <1>3, <2>1 DEF IsRank
<1> HIDE DEF banks, banks2, yes, no
<1>4. /\ IsRank(RankPowerDown(rank)) /\ RankPowerDown(rank).isPowerDown = yes
      /\ RankPowerDown(rank).bankStates = banks
  BY <1>1, <1>2, <1>3
<1>5. /\ IsRank(RankPowerUp(rank)) /\ RankPowerUp(rank).isPowerDown = no
      /\ RankPowerUp(rank).bankStates = banks2
  BY <1>1, <1>2, <1>3
<1> QED BY <1>4, <1>5 DEF banks, banks2, yes, no

LEMMA PowerDownCover ==
  ASSUME NEW c, NEW k, Covers(c, k, 0), c.state = "Idle"
  PROVE  /\ k.state = "Idle" /\ Covers(BankPowerDown(c), BankPowerDown(k), 0)
<1>1. c \in Bank /\ k \in Bank /\ k.state = "Idle" /\ c.countdown = 0
      /\ k.nextActivate <= c.nextActivate + 1
  BY DEF Covers
<1> DEFINE d == BankPowerDown(c)
           j == BankPowerDown(k)
<1>2. /\ d \in Bank /\ j \in Bank /\ d.state = "PowerDown" /\ j.state = "PowerDown"
      /\ d.countdown = 0 /\ j.nextActivate <= d.nextActivate + 1
  BY <1>1, BankPowered
<1> HIDE DEF d, j
<1>3. Covers(d, j, 0)
  BY <1>2 DEF Covers
<1> QED BY <1>1, <1>3 DEF d, j

LEMMA PowerUpCover ==
  ASSUME NEW c, NEW k, Covers(c, k, 0), c.state = "PowerDown"
  PROVE  Covers(BankPowerUp(c), BankPowerUp(k), 0)
<1>1. c \in Bank /\ k \in Bank /\ c.countdown = 0
  BY DEF Covers
<1> DEFINE d == BankPowerUp(c)
           j == BankPowerUp(k)
<1>2. /\ d \in Bank /\ j \in Bank /\ d.state = "Idle" /\ j.state = "Idle"
      /\ d.countdown = 0 /\ j.nextActivate <= d.nextActivate + 1
  BY <1>1, BankPowered, Timings
<1> HIDE DEF d, j
<1>3. Covers(d, j, 0)
  BY <1>2 DEF Covers
<1> QED BY <1>3 DEF d, j

LEMMA Powered ==
  ASSUME NEW s, Issued(s)
  PROVE  Issued(Power(s))
<1> DEFINE idle(r) == isEmpty(s.queue, r) /\ ~s.ranks[r].refreshWaiting
           down == {r \in Ranks : idle(r) /\ \A b \in Banks : s.bank[r][b].state = "Idle"}
           up == {r \in Ranks : ~idle(r) /\ s.mc.powerDown[r] /\ s.bank[r][0].nextPowerUp = 0}
           sent(r) == s.mc.cmd # NoPacket /\ s.mc.cmd.rank = r
           u == Power(s)
           pd == [r \in Ranks |-> (s.mc.powerDown[r] \/ r \in down) /\ r \notin up]
           rs == [r \in Ranks |-> IF r \in down THEN RankPowerDown(s.ranks[r])
                                  ELSE IF r \in up THEN RankPowerUp(s.ranks[r])
                                  ELSE s.ranks[r]]
           table == [r \in Ranks |-> [b \in Banks |->
                       IF r \in down THEN BankPowerDown(s.bank[r][b])
                       ELSE IF r \in up THEN BankPowerUp(s.bank[r][b]) ELSE s.bank[r][b]]]
           ok == /\ \A r \in down : MayPowerDown(s.ranks[r])
                 /\ \A r \in up : MayPowerUp(s.ranks[r])
<1>1. /\ WellFormed(s) /\ IsTable(s.bank) /\ DOMAIN s.ranks = Ranks
      /\ s.mc.powerDown \in [Ranks -> BOOLEAN]
      /\ \A r \in Ranks : IsRank(s.ranks[r])
  BY DEF Issued, WellFormed, IsState, IsController, IsTable
<1>2. \A r \in Ranks : IF sent(r) THEN Handed(s, r, s.mc.cmd)
                       ELSE Covered(s, r, s.ranks[r].bankStates, 0)
  BY DEF Issued
<1>3. ASSUME NEW r \in Ranks, sent(r)
      PROVE  r \notin down /\ r \notin up
  <2>1. Handed(s, r, s.mc.cmd)
    BY <1>2, <1>3
  <2> QED BY <2>1 DEF Handed, HandedTo
<1>4. ASSUME NEW r \in Ranks, ~sent(r)
      PROVE  /\ s.mc.powerDown[r] \in BOOLEAN /\ s.ranks[r].isPowerDown = s.mc.powerDown[r]
             /\ \A b \in Banks :
                  /\ Covers(s.bank[r][b], s.ranks[r].bankStates[b], 0)
                  /\ s.bank[r][b].state = "PowerDown" <=> s.mc.powerDown[r]
                  /\ s.mc.powerDown[r] =>
                       s.ranks[r].bankStates[b].nextPowerUp = s.bank[r][0].nextPowerUp
  BY <1>2, <1>4 DEF Covered, RankCovered
<1>5. ASSUME NEW r \in down
      PROVE  /\ r \in Ranks /\ ~sent(r) /\ ~s.mc.powerDown[r] /\ r \notin up
             /\ MayPowerDown(s.ranks[r])
             /\ \A b \in Banks : s.bank[r][b].state = "Idle"
  <2>1. r \in Ranks /\ ~sent(r) /\ idle(r) /\ \A b \in Banks : s.bank[r][b].state = "Idle"
    BY <1>3
  <2>2. \A b \in Banks : s.ranks[r].bankStates[b].state = "Idle"
    BY <1>4, <2>1, PowerDownCover
  <2>3. ~s.mc.powerDown[r]
    BY <1>4, <2>1, ZeroIn
  <2> QED BY <2>1, <2>2, <2>3 DEF MayPowerDown
<1>6. ASSUME NEW r \in up
      PROVE  /\ r \in Ranks /\ ~sent(r) /\ s.mc.powerDown[r] /\ MayPowerUp(s.ranks[r])
             /\ \A b \in Banks : s.bank[r][b].state = "PowerDown"
  <2>1. r \in Ranks /\ ~sent(r) /\ s.mc.powerDown[r] /\ s.bank[r][0].nextPowerUp = 0
    BY <1>3
  <2>2. \A b \in Banks : /\ s.ranks[r].bankStates[b].nextPowerUp = 0
                         /\ s.bank[r][b].state = "PowerDown"
    BY <1>4, <2>1
  <2>3. s.ranks[r].isPowerDown
    BY <1>4, <2>1
  <2> QED BY <2>1, <2>2, <2>3 DEF MayPowerUp
<1>7. u = [s EXCEPT !.mc.powerDown = pd, !.ranks = rs, !.bank = table]
  <2>1. ok
    BY <1>5, <1>6
  <2>2. u = [Check(s, ok, "Trying to power a rank down or up when not allowed") EXCEPT
               !.mc.powerDown = pd, !.ranks = rs, !.bank = table]
    BY Zenon DEF Power
  <2>3. Check(s, ok, "Trying to power a rank down or up when not allowed") = s
    BY <2>1 DEF Check
  <2> HIDE DEF u, pd, rs, table, ok
  <2> QED BY <2>2, <2>3
<1>8. ASSUME NEW r \in Ranks
      PROVE  /\ IsRank(rs[r])
             /\ \A b \in Banks : table[r][b] \in Bank
             /\ sent(r) => /\ rs[r] = s.ranks[r] /\ pd[r] = s.mc.powerDown[r]
                           /\ \A b \in Banks : table[r][b] = s.bank[r][b]
             /\ ~sent(r) => RankCovered(table[r], rs[r].bankStates, pd[r], rs[r].isPowerDown, 0)
  <2>1. CASE r \in down
    <3>1. /\ ~sent(r) /\ r \notin up /\ \A b \in Banks : s.bank[r][b].state = "Idle"
      BY <1>5, <2>1
    <3>2. /\ rs[r] = RankPowerDown(s.ranks[r]) /\ pd[r] = TRUE
          /\ \A b \in Banks : table[r][b] = BankPowerDown(s.bank[r][b])
      BY <2>1, <3>1
    <3> HIDE DEF rs, pd, table
    <3>3. /\ IsRank(rs[r]) /\ rs[r].isPowerDown = TRUE
          /\ \A b \in Banks : rs[r].bankStates[b] = BankPowerDown(s.ranks[r].bankStates[b])
      <4> DEFINE t == RankPowerDown(s.ranks[r])
      <4>1. IsRank(s.ranks[r])
        BY <1>1
      <4>2. /\ IsRank(t) /\ t.isPowerDown = TRUE
            /\ \A b \in Banks : t.bankStates[b] = BankPowerDown(s.ranks[r].bankStates[b])
        BY <4>1, RankPowered
      <4>3. rs[r] = t
        BY <3>2
      <4> HIDE DEF t
      <4> QED BY <4>2, <4>3
    <3>4. \A b \in Banks : Covers(table[r][b], rs[r].bankStates[b], 0)
      BY <1>4, <3>1, <3>2, <3>3, PowerDownCover
    <3>5. \A b \in Banks : /\ table[r][b] \in Bank /\ table[r][b].state = "PowerDown"
                           /\ table[r][b].nextPowerUp = tCKE
                           /\ rs[r].bankStates[b].nextPowerUp = tCKE
      <4> TAKE b \in Banks
      <4>1. s.bank[r][b] \in Bank /\ s.ranks[r].bankStates[b] \in Bank
        BY <1>1 DEF IsTable, IsRank
      <4> QED BY <3>2, <3>3, <4>1, BankPowered
    <3>6. RankCovered(table[r], rs[r].bankStates, pd[r], rs[r].isPowerDown, 0)
      BY <3>2, <3>3, <3>4, <3>5, ZeroIn DEF RankCovered
    <3> QED BY <3>1, <3>2, <3>3, <3>5, <3>6
  <2>2. CASE r \in up
    <3>1. ~sent(r) /\ r \notin down /\ \A b \in Banks : s.bank[r][b].state = "PowerDown"
      BY <1>5, <1>6, <2>2
    <3>2. /\ rs[r] = RankPowerUp(s.ranks[r]) /\ pd[r] = FALSE
          /\ \A b \in Banks : table[r][b] = BankPowerUp(s.bank[r][b])
      BY <2>2, <3>1
    <3> HIDE DEF rs, pd, table
    <3>a. IsRank(s.ranks[r])
      BY <1>1
    <3>3. /\ IsRank(rs[r]) /\ rs[r].isPowerDown = FALSE
          /\ \A b \in Banks : rs[r].bankStates[b] = BankPowerUp(s.ranks[r].bankStates[b])
      <4> DEFINE t == RankPowerUp(s.ranks[r])
      <4>1. /\ IsRank(t) /\ t.isPowerDown = FALSE
            /\ \A b \in Banks : t.bankStates[b] = BankPowerUp(s.ranks[r].bankStates[b])
        BY <3>a, RankPowered
      <4>2. rs[r] = t
        BY <3>2
      <4> HIDE DEF t
      <4> QED BY <4>1, <4>2
    <3>4. \A b \in Banks : Covers(table[r][b], rs[r].bankStates[b], 0)
      BY <1>4, <3>1, <3>2, <3>3, PowerUpCover
    <3>5. \A b \in Banks : table[r][b] \in Bank /\ table[r][b].state = "Idle"
      <4> TAKE b \in Banks
      <4>1. s.bank[r][b] \in Bank
        BY <1>1 DEF IsTable
      <4> QED BY <3>2, <4>1, BankPowered
    <3>6. RankCovered(table[r], rs[r].bankStates, pd[r], rs[r].isPowerDown, 0)
      BY <3>2, <3>3, <3>4, <3>5 DEF RankCovered
    <3> QED BY <3>1, <3>2, <3>3, <3>5, <3>6
  <2>3. CASE r \notin down /\ r \notin up
    <3>1. /\ rs[r] = s.ranks[r] /\ pd[r] = s.mc.powerDown[r] /\ table[r] = s.bank[r]
      BY <1>1, <2>3 DEF IsTable
    <3> HIDE DEF rs, pd, table
    <3>2. ~sent(r) => RankCovered(table[r], rs[r].bankStates, pd[r], rs[r].isPowerDown, 0)
      BY <1>2, <3>1 DEF Covered
    <3>3. \A b \in Banks : table[r][b] \in Bank
      BY <1>1, <3>1 DEF IsTable
    <3> QED BY <1>1, <3>1, <3>2, <3>3
  <2> QED BY <2>1, <2>2, <2>3
<1>9. /\ DOMAIN rs = Ranks /\ pd \in [Ranks -> BOOLEAN]
      /\ table = [r \in Ranks |-> [b \in Banks |-> table[r][b]]]
  BY <1>1
<1> DEFINE old == s.mc
           m == [old EXCEPT !.powerDown = pd]
<1>10. IsController(old) /\ m = [old EXCEPT !.powerDown = pd]
  BY <1>1 DEF WellFormed, IsState
<1> HIDE DEF u, pd, rs, table, down, up, old, m
<1>11. IsTable(table)
  BY <1>8, <1>9 DEF IsTable
<1>12. m = [transactionQueue |-> old.transactionQueue, pendingReads |-> old.pendingReads,
            returns |-> old.returns, cmd |-> old.cmd, cmdCyclesLeft |-> old.cmdCyclesLeft,
            data |-> old.data, dataCyclesLeft |-> old.dataCyclesLeft,
            writeData |-> old.writeData, refreshRank |-> old.refreshRank,
            refreshCountdown |-> old.refreshCountdown, powerDown |-> pd]
  BY <1>10 DEF IsController
<1>13. /\ IsController(m) /\ m.transactionQueue = s.mc.transactionQueue
       /\ m.cmd = s.mc.cmd /\ m.cmdCyclesLeft = s.mc.cmdCyclesLeft
       /\ m.powerDown = pd /\ m.refreshRank = s.mc.refreshRank
       /\ m.data = s.mc.data /\ m.writeData = s.mc.writeData
  BY <1>9, <1>12 DEF IsController, old
<1>14. u = [bank |-> table, queue |-> s.queue, ranks |-> rs, mc |-> m,
            pending |-> s.pending, accepted |-> s.accepted, store |-> s.store,
            done |-> s.done, stale |-> s.stale, error |-> s.error]
  BY <1>1, <1>7 DEF WellFormed, IsState, m, old
<1>15. WellFormed(u)
  BY <1>1, <1>8, <1>9, <1>11, <1>13, <1>14 DEF WellFormed, IsState, Typed, IsTable
<1>16. ASSUME NEW r \in Ranks
       PROVE  IF sent(r) THEN Handed(u, r, s.mc.cmd)
              ELSE Covered(u, r, u.ranks[r].bankStates, 0)
  <2>1. CASE sent(r)
    <3>1. Handed(s, r, s.mc.cmd)
      BY <1>2, <2>1
    <3>2. rs[r] = s.ranks[r] /\ pd[r] = s.mc.powerDown[r] /\ table[r] = s.bank[r]
      BY <1>1, <1>8, <1>9, <1>11, <2>1 DEF IsTable
    <3>3. Handed(u, r, s.mc.cmd)
      BY <1>13, <1>14, <3>1, <3>2 DEF Handed
    <3> QED BY <2>1, <3>3
  <2>2. CASE ~sent(r)
    <3>1. Covered(u, r, u.ranks[r].bankStates, 0)
      BY <1>8, <1>13, <1>14, <2>2 DEF Covered
    <3> QED BY <2>2, <3>1
  <2> QED BY <2>1, <2>2
<1>17. s.mc.cmd # NoPacket => s.mc.cmd \in Packet /\ s.mc.cmdCyclesLeft = 1
  BY DEF Issued
<1>18. u.mc.cmd = s.mc.cmd /\ u.mc.cmdCyclesLeft = s.mc.cmdCyclesLeft
  BY <1>13, <1>14
<1>19. Issued(u)
  BY <1>15, <1>16, <1>17, <1>18 DEF Issued
<1> QED BY <1>19 DEF u

-----------------------------------------------------------------------------
(* A whole cycle *)

LEMMA ClocksStepped ==
  ASSUME NEW s, Issued(s)
  PROVE  Between(StepClocks(s))
<1> DEFINE u == StepClocks(s)
           old == s.mc
           p == s.mc.cmd
           sent(r) == p # NoPacket /\ p.rank = r
           counts == [r \in Ranks |-> old.refreshCountdown[r] - 1]
           m == [old EXCEPT !.refreshCountdown = counts]
           table == [r \in Ranks |-> [b \in Banks |-> step(s.bank[r][b])]]
           rs == [r \in Ranks |-> RankStep(s.ranks[r])]
<1>1. /\ WellFormed(s) /\ IsTable(s.bank) /\ IsController(old)
      /\ \A r \in Ranks : IsRank(s.ranks[r])
  BY DEF Issued, WellFormed, IsState, IsTable
<1>2. u = [s EXCEPT !.mc = m, !.bank = table, !.ranks = rs]
  BY Zenon DEF StepClocks
<1>3. /\ IsTable(table) /\ \A r \in Ranks, b \in Banks : table[r][b] = step(s.bank[r][b])
  BY <1>1, StepType DEF IsTable
<1>4. /\ DOMAIN rs = Ranks
      /\ \A r \in Ranks : /\ rs[r] = RankStep(s.ranks[r]) /\ IsRank(rs[r])
                          /\ \A b \in Banks : rs[r].bankStates[b] = step(s.ranks[r].bankStates[b])
                          /\ rs[r].isPowerDown = s.ranks[r].isPowerDown
  BY <1>1, RankStepBanks
<1>5. IsController(old) /\ m = [old EXCEPT !.refreshCountdown = counts]
  BY <1>1
<1> HIDE DEF u, old, counts, m, table, rs
<1>6. m = [transactionQueue |-> old.transactionQueue, pendingReads |-> old.pendingReads,
           returns |-> old.returns, cmd |-> old.cmd, cmdCyclesLeft |-> old.cmdCyclesLeft,
           data |-> old.data, dataCyclesLeft |-> old.dataCyclesLeft,
           writeData |-> old.writeData, refreshRank |-> old.refreshRank,
           refreshCountdown |-> counts, powerDown |-> old.powerDown]
  BY <1>5 DEF IsController
<1>7. /\ IsController(m) /\ m.transactionQueue = s.mc.transactionQueue
      /\ m.cmd = s.mc.cmd /\ m.cmdCyclesLeft = s.mc.cmdCyclesLeft
      /\ m.powerDown = s.mc.powerDown /\ m.refreshRank = s.mc.refreshRank
      /\ m.data = s.mc.data /\ m.writeData = s.mc.writeData
  BY <1>5, <1>6 DEF IsController, old
<1>8. u = [bank |-> table, queue |-> s.queue, ranks |-> rs, mc |-> m,
           pending |-> s.pending, accepted |-> s.accepted, store |-> s.store,
           done |-> s.done, stale |-> s.stale, error |-> s.error]
  BY <1>1, <1>2 DEF WellFormed, IsState
<1>9. WellFormed(u)
  BY <1>1, <1>3, <1>4, <1>7, <1>8 DEF WellFormed, IsState, Typed, IsTable
<1>10. /\ u.mc.cmd = p /\ u.mc.cmdCyclesLeft = s.mc.cmdCyclesLeft /\ u.bank = table
       /\ u.ranks = rs /\ u.mc.powerDown = s.mc.powerDown
  BY <1>7, <1>8
<1>11. /\ p # NoPacket => p \in Packet /\ s.mc.cmdCyclesLeft = 1
       /\ \A r \in Ranks : IF sent(r) THEN Handed(s, r, p)
                           ELSE Covered(s, r, s.ranks[r].bankStates, 0)
  BY DEF Issued
<1> HIDE DEF p
<1>12. ASSUME NEW r \in Ranks, sent(r)
       PROVE  /\ Allowed(rs[r].bankStates, p)
              /\ Covered(u, r, Arrived(u, r), 1)
  <2>1. Handed(s, r, p)
    BY <1>11, <1>12
  <2>2. Arrived(u, r) = ReceivedBanks(rs[r].bankStates, p)
    BY <1>10, <1>12 DEF Arrived
  <2>3. rs[r] = RankStep(s.ranks[r]) /\ rs[r].isPowerDown = s.ranks[r].isPowerDown
    BY <1>4
  <2>4. /\ Allowed(rs[r].bankStates, p) /\ ~s.mc.powerDown[r]
        /\ s.ranks[r].isPowerDown = s.mc.powerDown[r]
        /\ \A b \in Banks : /\ Covers(table[r][b], ReceivedBanks(rs[r].bankStates, p)[b], 1)
                            /\ s.bank[r][b].state # "PowerDown"
    BY <1>3, <2>1, <2>3 DEF Handed, HandedTo
  <2>5. \A b \in Banks : table[r][b].state # "PowerDown"
    BY <1>1, <1>3, <2>4, StepType DEF IsTable
  <2>6. s.mc.powerDown[r] \in BOOLEAN
    BY <1>1 DEF IsController, old
  <2>7. RankCovered(table[r], Arrived(u, r), s.mc.powerDown[r], rs[r].isPowerDown, 1)
    BY <2>2, <2>3, <2>4, <2>5, <2>6 DEF RankCovered
  <2> QED BY <1>10, <2>4, <2>7 DEF Covered
<1>13. ASSUME NEW r \in Ranks, ~sent(r)
       PROVE  Covered(u, r, Arrived(u, r), 1)
  <2>1. RankCovered(s.bank[r], s.ranks[r].bankStates, s.mc.powerDown[r],
                    s.ranks[r].isPowerDown, 0)
    BY <1>11, <1>13 DEF Covered
  <2>2. Arrived(u, r) = rs[r].bankStates
    BY <1>10, <1>13 DEF Arrived
  <2>3. \A b \in Banks :
          /\ Covers(table[r][b], rs[r].bankStates[b], 1)
          /\ table[r][b].state = s.bank[r][b].state
          /\ table[r][b].nextPowerUp = less1(s.bank[r][b].nextPowerUp)
          /\ rs[r].bankStates[b].nextPowerUp = less1(s.ranks[r].bankStates[b].nextPowerUp)
    <3> TAKE b \in Banks
    <3>1. Covers(s.bank[r][b], s.ranks[r].bankStates[b], 0)
      BY <2>1 DEF RankCovered
    <3>2. s.bank[r][b] \in Bank /\ s.ranks[r].bankStates[b] \in Bank
      BY <3>1 DEF Covers
    <3>3. /\ table[r][b] = step(s.bank[r][b])
          /\ rs[r].bankStates[b] = step(s.ranks[r].bankStates[b])
      BY <1>3, <1>4
    <3> QED BY <3>1, <3>2, <3>3, QuietCover, StepType
  <2>4. rs[r].isPowerDown = s.ranks[r].isPowerDown
    BY <1>4
  <2>5. RankCovered(table[r], rs[r].bankStates, s.mc.powerDown[r], rs[r].isPowerDown, 1)
    BY <2>1, <2>3, <2>4, ZeroIn DEF RankCovered
  <2> QED BY <1>10, <2>2, <2>5 DEF Covered
<1>14. CommandOK(u)
  <2>1. ASSUME p # NoPacket PROVE p.rank \in Ranks /\ sent(p.rank)
    BY <1>11, <2>1 DEF Packet
  <2> QED BY <1>10, <1>11, <1>12, <2>1 DEF CommandOK
<1>15. Between(u)
  BY <1>9, <1>12, <1>13, <1>14 DEF Between
<1> QED BY <1>15 DEF u

LEMMA Updated ==
  ASSUME NEW s, Between(s)
  PROVE  Between(update(s))
<1> DEFINE s1 == UpdateRanks(s)
           s2 == MovePending(s1)
           s3 == CountdownBanks(s2)
           s4 == CommandBus(s3)
           s5 == DataBus(s4)
           s6 == SendWriteData(s5)
           s7 == RefreshDue(s6)
           s8 == IssueCommand(s7)
           s9 == ScheduleTransaction(s8)
           s10 == Power(s9)
           s11 == ReturnRead(s10)
<1>0. update(s) = StepClocks(s11)
  BY Zenon DEF update, ControllerUpdate
<1>1. Between(s1)
  BY RanksUpdated, Framed DEF Between
<1> HIDE DEF s1
<1>2. Between(s2)
  BY <1>1, PendingMoved, Framed DEF Between
<1> HIDE DEF s2
<1>3. Counted(s3)
  BY <1>2, BanksCounted
<1> HIDE DEF s3
<1>4. Middle(s4)
  BY <1>3, CommandArrived
<1> HIDE DEF s4
<1>5. Middle(s5)
  BY <1>4, DataArrived, Framed DEF Middle
<1> HIDE DEF s5
<1>6. Middle(s6)
  BY <1>5, WriteDataSent, Framed DEF Middle
<1> HIDE DEF s6
<1>7. Middle(s7)
  BY <1>6, RefreshDued, Framed DEF Middle
<1> HIDE DEF s7
<1>8. Issued(s8)
  BY <1>7, CommandIssued
<1> HIDE DEF s8
<1>9. Issued(s9)
  BY <1>8, TransactionScheduled, Framed DEF Issued
<1> HIDE DEF s9
<1>10. Issued(s10)
  BY <1>9, Powered
<1> HIDE DEF s10
<1>11. Issued(s11)
  BY <1>10, ReadReturned, Framed DEF Issued
<1> HIDE DEF s11
<1> QED BY <1>0, <1>11, ClocksStepped

(* The policies stay, so what is known of the state x is known of x as the   *)
(* next state.                                                               *)
LEMMA NextBetween ==
  ASSUME ini' = ini, NEW x, Between(x), State' = x
  PROVE  Between(State)'
<1>1. QueueOK(State.queue)'
  <2>1. QueueOK(x.queue) /\ State'.queue = x.queue
    BY DEF Between, WellFormed, Typed
  <2> QED BY <2>1 DEF QueueOK, QueuePackets, Queued
<1>2. Typed(State)'
  <2>1. Typed(x)
    BY DEF Between, WellFormed
  <2> QED BY <1>1, <2>1 DEF Typed
<1>3. WellFormed(State)' /\ CommandOK(State)'
  BY <1>2 DEF Between, WellFormed
<1>4. ASSUME NEW r \in Ranks PROVE Covered(State, r, Arrived(State, r), 1)'
  <2>1. RankCovered(x.bank[r], Arrived(x, r), x.mc.powerDown[r], x.ranks[r].isPowerDown, 1)
    BY DEF Between, Covered
  <2>2. ASSUME NEW b \in Banks PROVE Covers(State.bank[r][b], Arrived(State, r)[b], 1)'
    <3>1. Covers(x.bank[r][b], Arrived(x, r)[b], 1)
      BY <2>1 DEF RankCovered
    <3> QED BY <3>1 DEF Covers, Closing
  <2> QED BY <2>1, <2>2 DEF Covered, RankCovered
<1> QED BY <1>3, <1>4 DEF Between

-----------------------------------------------------------------------------
(* The clients *)

(* The invariant is the cover of the state between two cycles, and what is   *)
(* known of the client.                                                      *)
Client ==
  /\ ini \in Policies /\ count \in 0..MaxTrans
  /\ line \in [id : 0..count, write : BOOLEAN, addr : Nat, wait : Nat, expect : Nat]
  /\ ini.client = "trace" /\ line # NoLine => line.addr \in Addresses

LEMMA InvIs == IndInv <=> Client /\ Between(State)
<1>1. /\ State.bank = bankStates /\ State.ranks = ranks /\ State.mc = mc
      /\ State.error = error /\ State.queue = queue
  BY DEF State
<1>2. \A r \in Ranks : Covered(State, r, Arrived(State, r), 1)
                         <=> RankCovered(bankStates[r], Arrived(State, r), mc.powerDown[r],
                                         ranks[r].isPowerDown, 1)
  BY <1>1 DEF Covered
<1>3. ASSUME IsState(State), Typed(State)
      PROVE  /\ queue \in Queue /\ bankStates \in [Ranks -> [Banks -> Bank]]
             /\ \A r \in Ranks : ranks[r].bankStates \in [Banks -> Bank]
  BY <1>1, <1>3 DEF IsState, Typed, QueueOK, IsRank
<1> QED BY <1>1, <1>2, <1>3 DEF IndInv, Between, WellFormed, Client, TypeOK

LEMMA StateBecomes ==
  ASSUME ini' = ini, NEW x, Between(x), Becomes(x)
  PROVE  Between(State)'
<1>1. x = [bank |-> x.bank, queue |-> x.queue, ranks |-> x.ranks, mc |-> x.mc,
           pending |-> x.pending, accepted |-> x.accepted, store |-> x.store,
           done |-> x.done, stale |-> x.stale, error |-> x.error]
  BY DEF Between, WellFormed, IsState
<1>2. State' = [bank |-> x.bank, queue |-> x.queue, ranks |-> x.ranks, mc |-> x.mc,
                pending |-> x.pending, accepted |-> x.accepted, store |-> x.store,
                done |-> x.done, stale |-> x.stale, error |-> x.error]
  BY DEF Becomes, State
<1>3. State' = x
  BY <1>1, <1>2, Zenon
<1> QED BY <1>3, NextBetween

LEMMA Offered ==
  ASSUME NEW s, Between(s), NEW t \in Transactions
  PROVE  Between(addTransaction(s, t))
BY AddTransaction, Framed DEF Between

LEMMA Deferred ==
  ASSUME NEW s, Between(s), NEW t \in Transactions
  PROVE  Between([s EXCEPT !.pending = Append(@, t)])
<1> DEFINE waiting == Append(s.pending, t)
           u == [s EXCEPT !.pending = waiting]
<1>1. waiting \in Seq(Transactions)
  BY DEF Between, WellFormed, Typed
<1> HIDE DEF waiting
<1>2. u = [bank |-> s.bank, queue |-> s.queue, ranks |-> s.ranks, mc |-> s.mc,
           pending |-> waiting, accepted |-> s.accepted, store |-> s.store,
           done |-> s.done, stale |-> s.stale, error |-> s.error]
  BY DEF Between, WellFormed, IsState
<1> HIDE DEF u
<1>3. SameBanks(s, u)
  BY <1>2 DEF SameBanks
<1>4. WellFormed(u)
  BY <1>1, <1>2 DEF Between, WellFormed, IsState, Typed
<1>5. Between(u)
  BY <1>3, <1>4, Framed
<1> QED BY <1>5 DEF u, waiting

LEMMA TransactionIn ==
  ASSUME NEW w \in BOOLEAN, NEW a \in Addresses, NEW gap \in Nat, count \in 0..MaxTrans
  PROVE  /\ Transaction(w, a, gap) \in Transactions
         /\ Transaction(w, a, gap).id = count + 1 /\ Transaction(w, a, gap).wait = gap
BY ClientAssumption DEF Transaction, Transactions

(* What becomes of a line that is offered, or that waits.                    *)
LEMMA LineOffered ==
  ASSUME Between(State), ini' = ini, NEW t \in Transactions, OfferAndUpdate(t)
  PROVE  /\ Between(State)'
         /\ line' = NoLine \/ (line' \in Transactions /\ line'.id = t.id)
<1>1. Between(addTransaction(State, t))
  BY Offered
<1>2. Between(update(addTransaction(State, t)))
  BY <1>1, Updated
<1>3. Between(State)'
  BY <1>2, StateBecomes DEF OfferAndUpdate
<1>4. line' = NoLine \/ line' = [t EXCEPT !.wait = 0]
  BY Zenon DEF OfferAndUpdate
<1>5. ASSUME line' = [t EXCEPT !.wait = 0]
      PROVE  line' \in Transactions /\ line'.id = t.id
  <2>1. line' = [id |-> t.id, write |-> t.write, addr |-> t.addr, wait |-> 0,
                 expect |-> t.expect]
    BY <1>5 DEF Transactions
  <2> QED BY <2>1 DEF Transactions
<1> QED BY <1>3, <1>4, <1>5

LEMMA LineWaits ==
  ASSUME Between(State), ini' = ini, NEW t, WaitAndUpdate(t)
  PROVE  Between(State)' /\ line' = t
BY Updated, StateBecomes DEF WaitAndUpdate

LEMMA InitInv == Init => IndInv
<1> SUFFICES ASSUME Init PROVE IndInv
  OBVIOUS
<1>1. NewBankState \in Bank /\ Covers(NewBankState, NewBankState, 1)
  <2>1. NewBankState \in Bank
    BY Timings DEF NewBankState, Bank, Rows, Commands
  <2> QED BY <2>1 DEF NewBankState, Covers
<1> DEFINE none == [b \in Banks |-> NewBankState]
<1>2. none \in [Banks -> Bank] /\ \A b \in Banks : none[b] = NewBankState
  BY <1>1
<1>3. /\ State.bank = [r \in Ranks |-> none] /\ State.ranks = [r \in Ranks |-> NewRank]
      /\ State.mc = mc /\ State.queue = NewQueue /\ State.error = "none"
      /\ State.pending = <<>> /\ State.accepted = [a \in Addresses |-> 0]
      /\ State = [bank |-> State.bank, queue |-> State.queue, ranks |-> State.ranks,
                  mc |-> State.mc, pending |-> State.pending, accepted |-> State.accepted,
                  store |-> State.store, done |-> State.done, stale |-> State.stale,
                  error |-> State.error]
  BY DEF State, Init
<1> HIDE DEF none
<1>4. IsRank(NewRank) /\ NewRank.bankStates = none /\ NewRank.isPowerDown = FALSE
  BY <1>2 DEF NewRank, IsRank, none
<1>5. /\ IsController(mc) /\ mc.cmd = NoPacket /\ mc.powerDown = [r \in Ranks |-> FALSE]
      /\ mc.transactionQueue = <<>> /\ mc.writeData = <<>> /\ mc.data = NoPacket
      /\ mc.refreshRank = 0
  BY DEF Init, IsController
<1>6. IsState(State)
  BY <1>2, <1>3, <1>4, <1>5 DEF IsState
<1>7. QueueOK(NewQueue)
  <2>1. NewQueue \in Queue
    BY ZeroIn DEF NewQueue, Queue
  <2> QED BY <2>1 DEF NewQueue, QueueOK
<1>8. Typed(State)
  <2>1. [a \in Addresses |-> 0] \in [Addresses -> Nat]
    OBVIOUS
  <2> QED BY <1>3, <1>5, <1>7, <2>1, ZeroIn DEF Typed
<1>9. ASSUME NEW r \in Ranks PROVE Covered(State, r, Arrived(State, r), 1)
  <2>1. /\ Arrived(State, r) = none /\ State.bank[r] = none
        /\ State.mc.powerDown[r] = FALSE /\ State.ranks[r].isPowerDown = FALSE
    BY <1>3, <1>4, <1>5 DEF Arrived
  <2>2. \A b \in Banks : none[b].state # "PowerDown"
    BY <1>2 DEF NewBankState
  <2> QED BY <1>1, <1>2, <2>1, <2>2 DEF Covered, RankCovered
<1>10. Between(State)
  BY <1>3, <1>5, <1>6, <1>8, <1>9 DEF Between, WellFormed, CommandOK, OtherErrors
<1>11. Client
  BY ClientAssumption DEF Init, Client, NoLine
<1> QED BY <1>10, <1>11, InvIs

LEMMA NextInv == IndInv /\ [Next]_vars => IndInv'
<1> SUFFICES ASSUME IndInv, [Next]_vars PROVE IndInv'
  OBVIOUS
<1> USE ClientAssumption
<1>1. Client /\ Between(State)
  BY InvIs
<1>2. /\ ini \in Policies /\ count \in 0..MaxTrans /\ count \in Nat
      /\ line \in [id : 0..count, write : BOOLEAN, addr : Nat, wait : Nat, expect : Nat]
  BY <1>1 DEF Client
<1>3. ASSUME ini' = ini, count' \in 0..MaxTrans, Between(State)',
             line' = NoLine \/ (line' \in Transactions /\ line'.id \in 0..count')
      PROVE  IndInv'
  <2>1. line' \in [id : 0..count', write : BOOLEAN, addr : Nat, wait : Nat, expect : Nat]
    <3>1. CASE line' = NoLine
      BY <1>3, <3>1 DEF NoLine
    <3>2. CASE line' \in Transactions /\ line'.id \in 0..count'
      <4>1. line' = [id |-> line'.id, write |-> line'.write, addr |-> line'.addr,
                     wait |-> line'.wait, expect |-> line'.expect]
        BY <3>2 DEF Transactions
      <4>2. line'.write \in BOOLEAN /\ line'.addr \in Nat /\ line'.wait \in Nat /\ line'.expect \in Nat
        BY <3>2 DEF Transactions
      <4> QED BY <3>2, <4>1, <4>2
    <3> QED BY <1>3, <3>1, <3>2
  <2>2. line' # NoLine => line'.addr \in Addresses
    BY <1>3 DEF Transactions
  <2>3. Client'
    BY <1>2, <1>3, <2>1, <2>2 DEF Client
  <2> QED BY <1>3, <2>3, InvIs, PTL
<1>4. CASE ReadLine
  <2>1. ini' = ini /\ count' = count + 1 /\ count < MaxTrans
    BY <1>2, <1>4 DEF ReadLine
  <2>2. count' \in 0..MaxTrans
    BY <1>2, <2>1
  <2>3. PICK w \in BOOLEAN, a \in ini.addresses, gap \in Gaps :
          IF gap = 0 THEN OfferAndUpdate(Transaction(w, a, 0))
                     ELSE WaitAndUpdate(Transaction(w, a, gap))
    BY <1>4 DEF ReadLine
  <2>4. a \in Addresses /\ gap \in Nat
    BY <1>2
  <2>5. \A g \in Nat : /\ Transaction(w, a, g) \in Transactions
                       /\ Transaction(w, a, g).id = count + 1
    BY <1>2, <2>4, TransactionIn
  <2>6. CASE OfferAndUpdate(Transaction(w, a, 0))
    BY <1>1, <1>2, <1>3, <2>1, <2>2, <2>5, <2>6, LineOffered
  <2>7. CASE WaitAndUpdate(Transaction(w, a, gap))
    BY <1>1, <1>2, <1>3, <2>1, <2>2, <2>4, <2>5, <2>7, LineWaits
  <2> QED BY <2>3, <2>6, <2>7
<1>5. CASE RetryLine
  <2>1. ini' = ini /\ count' = count /\ line # NoLine /\ ini.client = "trace"
    BY <1>5 DEF RetryLine
  <2>2. line \in Transactions
    BY <1>1, <1>2, <2>1 DEF Client, Transactions
  <2>3. CASE line.wait <= 1
    <3>1. OfferAndUpdate(line)
      BY <1>5, <2>3 DEF RetryLine
    <3> QED BY <1>1, <1>2, <1>3, <2>1, <2>2, <3>1, LineOffered
  <2>4. CASE ~(line.wait <= 1)
    <3>1. WaitAndUpdate([line EXCEPT !.wait = @ - 1])
      BY <1>5, <2>4 DEF RetryLine
    <3>2. /\ [line EXCEPT !.wait = @ - 1] \in Transactions
          /\ [line EXCEPT !.wait = @ - 1].id = line.id
      BY <1>2, <2>2, <2>4 DEF Transactions
    <3> QED BY <1>1, <1>2, <1>3, <2>1, <3>1, <3>2, LineWaits
  <2> QED BY <2>3, <2>4
<1>6. CASE EndOfTrace
  BY <1>1, <1>2, <1>3, <1>6, LineWaits DEF EndOfTrace
<1>7. CASE TestUpdate
  <2>1. ini' = ini /\ count' = count /\ ini.client = "spike" /\ line.wait > 0
    BY <1>7 DEF TestUpdate
  <2>2. WaitAndUpdate([line EXCEPT !.wait = @ - 1])
    BY <1>7 DEF TestUpdate
  <2>3. /\ Between(State)'
        /\ line' \in [id : 0..count, write : BOOLEAN, addr : Nat, wait : Nat, expect : Nat]
    BY <1>1, <1>2, <2>1, <2>2, LineWaits
  <2>4. Client'
    BY <1>2, <2>1, <2>3 DEF Client
  <2> QED BY <2>3, <2>4, InvIs, PTL
<1>8. ASSUME NEW w \in BOOLEAN, NEW a \in Addresses, Hand(w, a), ini' = ini
      PROVE  Between(State)'
  <2>1. Transaction(w, a, 0) \in Transactions
    BY <1>2, TransactionIn
  <2> QED BY <1>1, <1>8, <2>1, Offered, Deferred, StateBecomes DEF Hand
<1>8a. CASE TestCall
  <2> DEFINE call == ini.test[count + 1]
  <2>1. ini' = ini /\ count' = count + 1 /\ count < Len(ini.test) /\ ini.client = "spike"
    BY <1>8a DEF TestCall
  <2>2. Hand(call.write, call.addr) /\ line' = [line EXCEPT !.wait = call.updates]
    BY <1>8a DEF TestCall
  <2>3. call \in [write : BOOLEAN, addr : Addresses, updates : Nat]
    <3> DEFINE Calls == [write : BOOLEAN, addr : Addresses, updates : Nat]
               calls == ini.test
    <3>0. calls \in Seq(Calls)
      BY <1>2, Zenon
    <3> HIDE DEF Calls, calls
    <3>1. calls \in Seq(Calls) /\ Len(calls) \in Nat
      BY <3>0
    <3>2. count + 1 \in 1..Len(calls)
      BY <1>2, <2>1, <3>1 DEF calls
    <3>3. calls[count + 1] \in Calls
      BY <3>1, <3>2
    <3> QED BY <3>3 DEF Calls, calls
  <2>4. call.write \in BOOLEAN /\ call.addr \in Addresses /\ call.updates \in Nat
    BY <2>3
  <2> HIDE DEF call
  <2>5. Between(State)'
    BY <1>8, <2>1, <2>2, <2>4
  <2>6. count' \in 0..MaxTrans
    <3>1. Len(ini.test) \in Nat /\ Len(ini.test) <= ini.transactions
          /\ ini.transactions \in 0..MaxTrans
      BY <1>2
    <3> QED BY <1>2, <2>1, <3>1
  <2>7. line' \in [id : 0..count', write : BOOLEAN, addr : Nat, wait : Nat, expect : Nat]
    <3>1. line \in [id : 0..count, write : BOOLEAN, addr : Nat, wait : Nat, expect : Nat]
      BY <1>2
    <3>2. line' \in [id : 0..count, write : BOOLEAN, addr : Nat, wait : Nat, expect : Nat]
      BY <2>2, <2>4, <3>1
    <3>3. count \in Nat /\ 0..count \subseteq 0..count'
      BY <1>2, <2>1
    <3> QED BY <3>2, <3>3
  <2>8. Client'
    BY <1>2, <2>1, <2>6, <2>7 DEF Client
  <2> QED BY <2>5, <2>8, InvIs, PTL
<1>8b. CASE access
  <2>1. ini' = ini /\ count' = count + 1 /\ count < MaxTrans /\ line' = line
        /\ ini.client = "spike"
    BY <1>2, <1>8b DEF access
  <2>2. PICK w \in BOOLEAN, a \in ini.addresses : Hand(w, a)
    BY <1>8b DEF access
  <2>3. Between(State)'
    BY <1>2, <1>8, <2>1, <2>2
  <2>4. Client'
    BY <1>2, <2>1 DEF Client
  <2> QED BY <2>3, <2>4, InvIs, PTL
<1>9. CASE UNCHANGED vars
  <2>1. ini' = ini /\ State' = State /\ UNCHANGED <<count, line>>
    BY <1>9 DEF vars, dramVars, State
  <2>2. Between(State)'
    BY <1>1, <2>1, NextBetween
  <2>3. Client'
    BY <1>1, <2>1 DEF Client
  <2> QED BY <2>2, <2>3, InvIs, PTL
<1> QED BY <1>4, <1>5, <1>6, <1>7, <1>8a, <1>8b, <1>9 DEF Next

(* No ERROR exit of Rank.cpp is ever taken, nor the one for the command bus, *)
(* and the state stays well formed: the table the controller plans by is     *)
(* never ahead of the tables that the ranks check by, whatever the policies, *)
(* the number of ranks and banks, the timing and the transactions are.       *)
THEOREM CommandsArriveInTime == Spec => []CommandsInTime
<1>1. Spec => []IndInv
  BY InitInv, NextInv, PTL DEF Spec
<1>2. IndInv => CommandsInTime
  BY DEF IndInv, CommandsInTime
<1> QED BY <1>1, <1>2, PTL
==============================================================================
