--------------------------- MODULE DramBus_proofs ---------------------------
(* Why only one of controller and ranks drives the data bus, for all timings *)
(* that satisfy TimingAssumption and BusAssumption: no two bursts that are   *)
(* on the bus or on their way to it overlap, and every bank that may be read *)
(* or written next waits until the last of them has ended.                   *)
EXTENDS Dram_proofs, FiniteSetTheorems

-----------------------------------------------------------------------------
(* The bursts of a lane *)

LEMMA HalfIs == Half \in Nat \ {0} /\ RL \in Nat /\ WL \in Nat \ {0} /\ WL = RL - 1
<1>1. Half \in Nat \ {0}
  BY TimingAssumption DEF Half
<1>2. RL \in Nat /\ RL >= 2 /\ WL = RL - 1
  BY TimingAssumption, BusAssumption DEF RL, WL
<1> QED BY <1>1, <1>2

LEMMA StartsIn ==
  ASSUME NEW l, NEW x
  PROVE  x \in Starts(l) <=> \/ \E i \in DOMAIN l.waiting : x = l.waiting[i].countdown
                             \/ l.out # NoPacket /\ x = l.left - Half
BY DEF Starts

LEMMA StartsInt ==
  ASSUME NEW l, LaneOK(l)
  PROVE  Starts(l) \subseteq Int
<1>1. DOMAIN l.waiting = 1..Len(l.waiting)
  BY Zenon DEF LaneOK, IsLane
<1>2. \A i \in DOMAIN l.waiting : l.waiting[i].countdown \in Int
  BY <1>1 DEF LaneOK, IsLane
<1>3. l.out # NoPacket => l.left - Half \in Int
  BY HalfIs DEF LaneOK, IsLane
<1> QED BY <1>2, <1>3, StartsIn

(* The countdowns of what waits, a cycle later.                              *)
Counts(q) == [i \in DOMAIN q |-> [q[i] EXCEPT !.countdown = @ - 1]]

(* A lane a cycle later: the first burst that waits goes out, or the one     *)
(* that is out goes on or ends.                                              *)
Passes(l, m) ==
  LET q == Counts(l.waiting)
      ready == q # <<>> /\ Head(q).countdown = 0
  IN  IF ready
      THEN m.out = Head(q).packet /\ m.left = Half /\ m.waiting = Tail(q)
      ELSE /\ m.waiting = q
           /\ m.out # NoPacket => l.out # NoPacket /\ l.left # 1 /\ m.left = l.left - 1

LEMMA CountsAre ==
  ASSUME NEW l, IsLane(l)
  PROVE  /\ Len(l.waiting) \in Nat /\ DOMAIN l.waiting = 1..Len(l.waiting)
         /\ Counts(l.waiting) = [i \in 1..Len(l.waiting) |->
                                   [packet |-> l.waiting[i].packet,
                                    countdown |-> l.waiting[i].countdown - 1]]
<1> DEFINE n == Len(l.waiting)
           q == l.waiting
<1>1. n \in Nat /\ q = [i \in 1..n |-> [packet |-> q[i].packet, countdown |-> q[i].countdown]]
  BY Zenon DEF IsLane
<1> HIDE DEF n, q
<1>2. DOMAIN q = 1..n
  BY <1>1
<1>3. \A i \in 1..n : [q[i] EXCEPT !.countdown = @ - 1]
                        = [packet |-> q[i].packet, countdown |-> q[i].countdown - 1]
  <2> TAKE i \in 1..n
  <2>1. q[i] = [packet |-> q[i].packet, countdown |-> q[i].countdown]
    BY <1>1
  <2> DEFINE x == q[i]
  <2> HIDE DEF x
  <2>2. x = [packet |-> x.packet, countdown |-> x.countdown]
    BY <2>1, Zenon DEF x
  <2>3. [x EXCEPT !.countdown = x.countdown - 1] = [packet |-> x.packet, countdown |-> x.countdown - 1]
    BY <2>2
  <2> QED BY <2>3 DEF x
<1>4. Counts(q) = [i \in 1..n |-> [packet |-> q[i].packet, countdown |-> q[i].countdown - 1]]
  BY <1>2, <1>3 DEF Counts
<1> QED BY <1>1, <1>2, <1>4, Zenon DEF n, q

(* What is left of a sequence without its first element.                     *)
LEMMA TailIs ==
  ASSUME NEW n \in Nat, NEW q, DOMAIN q = 1..n, q = [i \in 1..n |-> q[i]]
  PROVE  /\ Len(q) = n /\ (q # <<>> <=> n > 0)
         /\ n > 0 => /\ Head(q) = q[1] /\ Len(Tail(q)) = n - 1
                     /\ Tail(q) = [i \in 1..(n - 1) |-> q[i + 1]]
<1> DEFINE S == {q[i] : i \in 1..n}
<1>1. q \in Seq(S)
  <2>1. q \in [1..n -> S]
    OBVIOUS
  <2> QED BY <2>1
<1> HIDE DEF S
<1>2. Len(q) = n
  BY <1>1
<1>3. q # <<>> <=> n > 0
  BY <1>1, <1>2
<1>4. ASSUME n > 0
      PROVE  /\ Head(q) = q[1] /\ Len(Tail(q)) = n - 1
             /\ Tail(q) = [i \in 1..(n - 1) |-> q[i + 1]]
  <2>1. q # <<>>
    BY <1>3, <1>4
  <2>2. /\ Head(q) = q[1] /\ Tail(q) \in Seq(S) /\ Len(Tail(q)) = n - 1
        /\ \A i \in 1..(n - 1) : Tail(q)[i] = q[i + 1]
    BY <1>1, <1>2, <2>1
  <2>3. DOMAIN Tail(q) = 1..(n - 1)
    BY <2>2
  <2> QED BY <2>2, <2>3
<1> QED BY <1>2, <1>3, <1>4

LEMMA LanePasses ==
  ASSUME NEW l, NEW m, LaneOK(l), Passes(l, m)
  PROVE  LaneOK(m) /\ \A x \in Starts(m) : x + 1 \in Starts(l)
<1> DEFINE n == Len(l.waiting)
           q == Counts(l.waiting)
           c(i) == l.waiting[i].countdown
           k(i) == l.waiting[i].packet
<1>1. /\ n \in Nat /\ DOMAIN l.waiting = 1..n
      /\ q = [i \in 1..n |-> [packet |-> k(i), countdown |-> c(i) - 1]]
  BY CountsAre DEF LaneOK
<1>2. /\ DOMAIN q = 1..n /\ q = [i \in 1..n |-> q[i]]
      /\ \A i \in 1..n : q[i] = [packet |-> k(i), countdown |-> c(i) - 1]
  BY <1>1
<1>3. /\ \A i \in 1..n : c(i) \in Nat \ {0}
      /\ \A i, j \in 1..n : i < j => c(i) + Half <= c(j)
      /\ l.out # NoPacket => l.left \in 1..Half /\ \A i \in 1..n : l.left <= c(i)
      /\ Half \in Nat \ {0}
  BY <1>1, HalfIs DEF LaneOK, IsLane
<1>4. \A x : x \in Starts(l) <=> \/ \E i \in 1..n : x = c(i)
                                 \/ l.out # NoPacket /\ x = l.left - Half
  BY <1>1, StartsIn
<1>5. /\ Len(q) = n /\ (q # <<>> <=> n > 0)
      /\ n > 0 => /\ Head(q) = q[1] /\ Len(Tail(q)) = n - 1
                  /\ Tail(q) = [i \in 1..(n - 1) |-> q[i + 1]]
  <2> HIDE DEF q, n
  <2> QED BY <1>1, <1>2, TailIs
<1>6. CASE q # <<>> /\ Head(q).countdown = 0
  <2>1. /\ n > 0 /\ c(1) = 1 /\ m.left = Half /\ Len(m.waiting) = n - 1
        /\ m.waiting = [i \in 1..(n - 1) |-> q[i + 1]]
    <3>1. m.left = Half /\ m.waiting = Tail(q) /\ n > 0
      BY <1>5, <1>6 DEF Passes
    <3>2. q[1] = [packet |-> k(1), countdown |-> c(1) - 1] /\ c(1) \in Nat
      BY <1>1, <1>2, <1>3, <3>1
    <3> HIDE DEF q, n, c, k
    <3>3. c(1) = 1
      BY <1>5, <1>6, <3>1, <3>2
    <3> QED BY <1>5, <3>1, <3>3
  <2> DEFINE w == m.waiting
  <2>2. /\ DOMAIN w = 1..(n - 1) /\ n - 1 \in Nat
        /\ \A i \in 1..(n - 1) : /\ w[i] = [packet |-> k(i + 1), countdown |-> c(i + 1) - 1]
                                 /\ i + 1 \in 1..n
    BY <1>1, <1>2, <2>1
  <2> HIDE DEF q, n, c, k, w
  <2>3. \A i \in 1..(n - 1) : w[i].countdown = c(i + 1) - 1 /\ c(i + 1) - 1 >= Half
    <3> TAKE i \in 1..(n - 1)
    <3>1. i + 1 \in 1..n /\ 1 \in 1..n /\ 1 < i + 1
      BY <1>1, <2>1
    <3>2. c(1) + Half <= c(i + 1) /\ c(i + 1) \in Nat
      BY <1>3, <3>1
    <3>3. w[i].countdown = c(i + 1) - 1
      BY <2>2
    <3> QED BY <1>3, <2>1, <3>2, <3>3
  <2>4. IsLane(m)
    <3>1. w = [i \in 1..(n - 1) |-> [packet |-> w[i].packet, countdown |-> w[i].countdown]]
      <4>1. \A i \in 1..(n - 1) : w[i] = [packet |-> w[i].packet, countdown |-> w[i].countdown]
        BY <2>2
      <4>2. w = [i \in 1..(n - 1) |-> w[i]]
        BY <2>1, <2>2 DEF w
      <4> QED BY <4>1, <4>2
    <3>2. \A i \in 1..(n - 1) : w[i].countdown \in Nat \ {0}
      BY <1>1, <1>3, <2>2, <2>3
    <3>3. m.left \in 1..Half
      BY <1>3, <2>1
    <3> QED BY <2>1, <2>2, <3>1, <3>2, <3>3, Zenon DEF IsLane, w
  <2>5. \A i, j \in 1..(n - 1) : i < j => w[i].countdown + Half <= w[j].countdown
    <3> TAKE i \in 1..(n - 1), j \in 1..(n - 1)
    <3> HAVE i < j
    <3>1. c(i + 1) + Half <= c(j + 1)
      BY <1>1, <1>3, <2>2
    <3>2. c(i + 1) \in Nat /\ c(j + 1) \in Nat
      BY <1>3, <2>2
    <3> QED BY <1>3, <2>3, <3>1, <3>2
  <2>6. LaneOK(m)
    <3>1. \A i \in 1..(n - 1) : m.left <= w[i].countdown
      BY <1>3, <2>1, <2>2, <2>3
    <3> QED BY <2>2, <2>4, <2>5, <3>1 DEF LaneOK, w
  <2>7. ASSUME NEW x \in Starts(m) PROVE x + 1 \in Starts(l)
    <3>1. \/ \E i \in 1..(n - 1) : x = w[i].countdown
          \/ x = m.left - Half
      BY <2>2, StartsIn DEF w
    <3>2. CASE x = m.left - Half
      <4>1. x + 1 = c(1) /\ 1 \in 1..n
        BY <1>1, <1>3, <2>1, <3>2
      <4> QED BY <1>4, <4>1
    <3>3. CASE \E i \in 1..(n - 1) : x = w[i].countdown
      <4>1. PICK i \in 1..(n - 1) : x = w[i].countdown
        BY <3>3
      <4>2. i + 1 \in 1..n /\ x + 1 = c(i + 1)
        BY <1>3, <2>2, <2>3, <4>1
      <4> QED BY <1>4, <4>2
    <3> QED BY <3>1, <3>2, <3>3
  <2> QED BY <2>6, <2>7
<1>7. CASE ~(q # <<>> /\ Head(q).countdown = 0)
  <2>1. /\ m.waiting = q
        /\ m.out # NoPacket => l.out # NoPacket /\ l.left # 1 /\ m.left = l.left - 1
    BY <1>7, Zenon DEF Passes
  <2>2. \A i \in 1..n : q[i].countdown = c(i) - 1 /\ c(i) - 1 \in Nat \ {0}
    <3>1. n > 0 => c(1) # 1
      <4>1. n > 0 => q[1].countdown = c(1) - 1 /\ q # <<>> /\ Head(q) = q[1]
        BY <1>1, <1>2, <1>5
      <4> HIDE DEF q
      <4> QED BY <1>7, <4>1
    <3> TAKE i \in 1..n
    <3>2. q[i].countdown = c(i) - 1
      <4>1. q[i] = [packet |-> k(i), countdown |-> c(i) - 1]
        BY <1>2
      <4> HIDE DEF q, c, k
      <4> QED BY <4>1
    <3>3. i # 1 => c(1) + Half <= c(i) /\ c(1) \in Nat
      BY <1>1, <1>3
    <3>4. c(i) # 1
      <4> HIDE DEF c, q, n
      <4> QED BY <1>1, <1>3, <3>1, <3>3
    <3> HIDE DEF c, q, n
    <3> QED BY <1>3, <3>2, <3>4
  <2>3. \A i \in 1..n : q[i] = [packet |-> q[i].packet, countdown |-> q[i].countdown]
    <3> TAKE i \in 1..n
    <3>1. q[i] = [packet |-> k(i), countdown |-> c(i) - 1]
      BY <1>2
    <3> HIDE DEF q, c, k
    <3> QED BY <3>1
  <2> HIDE DEF q, n, c, k
  <2>4. m.out # NoPacket => m.left \in 1..Half
    BY <1>3, <2>1
  <2>5. IsLane(m)
    <3>1. q = [i \in 1..n |-> [packet |-> q[i].packet, countdown |-> q[i].countdown]]
      BY <1>2, <2>3
    <3>2. \A i \in 1..n : q[i].countdown \in Nat \ {0}
      BY <2>2
    <3> QED BY <1>1, <1>5, <2>1, <2>4, <3>1, <3>2, Zenon DEF IsLane
  <2>6. LaneOK(m)
    <3>1. \A i, j \in 1..n : i < j => q[i].countdown + Half <= q[j].countdown
      BY <1>3, <2>2
    <3>2. m.out # NoPacket => \A i \in 1..n : m.left <= q[i].countdown
      BY <1>3, <2>1, <2>2
    <3> QED BY <1>2, <2>1, <2>5, <3>1, <3>2 DEF LaneOK
  <2>7. ASSUME NEW x \in Starts(m) PROVE x + 1 \in Starts(l)
    <3>1. \/ \E i \in 1..n : x = q[i].countdown
          \/ m.out # NoPacket /\ x = m.left - Half
      BY <1>2, <2>1, StartsIn
    <3>2. CASE m.out # NoPacket /\ x = m.left - Half
      <4>1. l.out # NoPacket /\ x + 1 = l.left - Half
        BY <1>3, <2>1, <3>2
      <4> QED BY <1>4, <4>1
    <3>3. CASE \E i \in 1..n : x = q[i].countdown
      <4>1. PICK i \in 1..n : x = q[i].countdown
        BY <3>3
      <4>2. x + 1 = c(i)
        BY <1>3, <2>2, <4>1
      <4> QED BY <1>4, <4>2
    <3> QED BY <3>1, <3>2, <3>3
  <2> QED BY <2>6, <2>7
<1> QED BY <1>6, <1>7

(* A burst joins the lane, after all others of it.                           *)
LEMMA LaneJoined ==
  ASSUME NEW l, LaneOK(l), NEW p, NEW n \in Nat \ {0},
         \A x \in Starts(l) : x + Half <= n,
         NEW m, m.out = l.out, m.left = l.left,
         m.waiting = Append(l.waiting, [packet |-> p, countdown |-> n])
  PROVE  LaneOK(m) /\ \A x \in Starts(m) : x \in Starts(l) \/ x = n
<1> DEFINE k == Len(l.waiting)
           new == [packet |-> p, countdown |-> n]
           w == m.waiting
           q == l.waiting
<1>1. /\ k \in Nat /\ DOMAIN q = 1..k
      /\ q = [i \in 1..k |-> [packet |-> q[i].packet, countdown |-> q[i].countdown]]
      /\ \A i \in 1..k : q[i].countdown \in Nat \ {0}
  BY CountsAre, Zenon DEF LaneOK, IsLane
<1>2. /\ \A i, j \in 1..k : i < j => q[i].countdown + Half <= q[j].countdown
      /\ l.out # NoPacket => l.left \in 1..Half /\ \A i \in 1..k : l.left <= q[i].countdown
      /\ Half \in Nat \ {0}
  BY <1>1, HalfIs DEF LaneOK, IsLane
<1>3. \A x : x \in Starts(l) <=> \/ \E i \in 1..k : x = q[i].countdown
                                 \/ l.out # NoPacket /\ x = l.left - Half
  BY <1>1, StartsIn
<1>4. /\ Len(w) = k + 1 /\ DOMAIN w = 1..(k + 1) /\ w = [i \in 1..(k + 1) |-> w[i]]
      /\ w[k + 1] = new /\ \A i \in 1..k : w[i] = q[i]
  <2> DEFINE S == {q[i] : i \in 1..k} \cup {new}
  <2> HIDE DEF new
  <2>1. q \in Seq(S) /\ new \in S /\ Len(q) = k
    <3> HIDE DEF q, k
    <3>1. q \in [1..k -> S]
      BY <1>1
    <3> QED BY <1>1, <3>1 DEF q, k
  <2> HIDE DEF S, q, k
  <2>2. w = Append(q, new)
    BY DEF q, new
  <2> HIDE DEF w
  <2>3. w \in Seq(S) /\ Len(w) = k + 1 /\ w[k + 1] = new /\ \A i \in 1..k : w[i] = q[i]
    BY <1>1, <2>1, <2>2
  <2> QED BY <2>3
<1>5. /\ w[k + 1].countdown = n /\ w[k + 1] = [packet |-> p, countdown |-> n]
      /\ \A i \in 1..(k + 1) : i \in 1..k \/ i = k + 1
  BY <1>1, <1>4
<1>6. \A i \in 1..k : q[i].countdown + Half <= n
  BY <1>3
<1>7. l.out # NoPacket => l.left <= n
  <2>1. l.out # NoPacket => (l.left - Half) + Half <= n
    BY <1>3
  <2> QED BY <1>2, <2>1
<1> HIDE DEF q, k, w, new
<1>8. \A i \in 1..(k + 1) : /\ w[i].countdown \in Nat \ {0}
                            /\ w[i] = [packet |-> w[i].packet, countdown |-> w[i].countdown]
  <2> TAKE i \in 1..(k + 1)
  <2>1. CASE i = k + 1
    BY <1>5, <2>1
  <2>2. CASE i \in 1..k
    <3>1. q[i] = [packet |-> q[i].packet, countdown |-> q[i].countdown]
      BY <1>1, <2>2
    <3> QED BY <1>1, <1>4, <2>2, <3>1
  <2> QED BY <1>5, <2>1, <2>2
<1>9. IsLane(m)
  <2>1. w = [i \in 1..(k + 1) |-> [packet |-> w[i].packet, countdown |-> w[i].countdown]]
    BY <1>4, <1>8
  <2>2. k + 1 \in Nat
    BY <1>1
  <2>3. m.out # NoPacket => m.left \in 1..Half
    BY <1>2
  <2> QED BY <1>4, <1>8, <2>1, <2>2, <2>3, Zenon DEF IsLane, w
<1>10. \A i, j \in 1..(k + 1) : i < j => w[i].countdown + Half <= w[j].countdown
  <2> TAKE i \in 1..(k + 1), j \in 1..(k + 1)
  <2> HAVE i < j
  <2>1. i \in 1..k
    BY <1>1
  <2>2. CASE j = k + 1
    BY <1>4, <1>5, <1>6, <2>1, <2>2
  <2>3. CASE j \in 1..k
    BY <1>2, <1>4, <2>1, <2>3
  <2> QED BY <1>5, <2>2, <2>3
<1>11. m.out # NoPacket => \A i \in 1..(k + 1) : m.left <= w[i].countdown
  BY <1>2, <1>4, <1>5, <1>7
<1>12. LaneOK(m)
  BY <1>4, <1>9, <1>10, <1>11 DEF LaneOK, w
<1>13. ASSUME NEW x \in Starts(m) PROVE x \in Starts(l) \/ x = n
  <2>1. \/ \E i \in 1..(k + 1) : x = w[i].countdown
        \/ l.out # NoPacket /\ x = l.left - Half
    <3>1. m.waiting = w /\ m.out = l.out /\ m.left = l.left /\ DOMAIN w = 1..(k + 1)
      BY <1>4 DEF w
    <3>2. \/ \E i \in DOMAIN m.waiting : x = m.waiting[i].countdown
          \/ m.out # NoPacket /\ x = m.left - Half
      BY <1>13, StartsIn, Zenon
    <3> QED BY <3>1, <3>2, Zenon
  <2> QED BY <1>3, <1>4, <1>5, <2>1
<1> QED BY <1>12, <1>13

-----------------------------------------------------------------------------
(* The stages that leave the data bus alone *)

LEMMA LaneIs ==
  ASSUME NEW s
  PROVE  /\ Lane(s, NUM_RANKS) = [out |-> s.mc.data, left |-> s.mc.dataCyclesLeft,
                                  waiting |-> s.mc.writeData]
         /\ \A r \in Ranks : Lane(s, r) = [out |-> s.ranks[r].outgoingDataPacket,
                                           left |-> s.ranks[r].dataCyclesLeft,
                                           waiting |-> s.ranks[r].readReturn]
         /\ \A i \in Lanes : i = NUM_RANKS \/ i \in Ranks
         /\ NUM_RANKS \in Lanes /\ \A r \in Ranks : r \in Lanes /\ r # NUM_RANKS
BY Timings DEF Lane, Lanes, Ranks

SameBus(s, t) ==
  /\ t.error = "Data Bus Collision" => s.error = "Data Bus Collision"
  /\ t.mc.data = s.mc.data /\ t.mc.dataCyclesLeft = s.mc.dataCyclesLeft
  /\ t.mc.writeData = s.mc.writeData
  /\ \A r \in Ranks : /\ t.ranks[r].outgoingDataPacket = s.ranks[r].outgoingDataPacket
                      /\ t.ranks[r].dataCyclesLeft = s.ranks[r].dataCyclesLeft
                      /\ t.ranks[r].readReturn = s.ranks[r].readReturn

LEMMA SameLanes ==
  ASSUME NEW s, NEW t, SameBus(s, t)
  PROVE  \A i \in Lanes : Lane(t, i) = Lane(s, i)
BY LaneIs DEF SameBus

LEMMA SameEnds ==
  ASSUME NEW s, NEW t, SameBus(s, t), NEW n
  PROVE  EndBy(t, n) <=> EndBy(s, n)
BY SameLanes DEF EndBy

(* The banks may change, too, as long as the ones that may be used next wait *)
(* no less.                                                                  *)
LEMMA BusFramed ==
  ASSUME NEW s, NEW t, SameBus(s, t), t.mc.cmd = s.mc.cmd, NEW d, NEW e, BusFree(s, d),
         \A r \in Ranks, b \in Banks :
           t.bank[r][b].state = "RowActive" /\ t.bank[r][b].countdown = 0 =>
             /\ s.bank[r][b].state = "RowActive" /\ s.bank[r][b].countdown = 0
             /\ \A n \in Int :
                  /\ n <= s.bank[r][b].nextRead + RL + 1 + d => n <= t.bank[r][b].nextRead + RL + 1 + e
                  /\ n <= s.bank[r][b].nextWrite + WL + d => n <= t.bank[r][b].nextWrite + WL + e
  PROVE  BusFree(t, e)
<1>1. /\ t.error # "Data Bus Collision" /\ EndBy(t, RL + Half)
      /\ \A i \in Lanes : LaneOK(Lane(t, i))
      /\ \A i, j \in Lanes : i # j => Apart(Lane(t, i), Lane(t, j))
  BY SameLanes, SameEnds DEF BusFree, SameBus
<1>2. IsRead(t.mc.cmd) => EndBy(t, RL + 1)
  BY SameEnds DEF BusFree
<1>3. ASSUME NEW m, NEW n, \A k \in Int : k <= m => k <= n, AllEndBy(s, m)
      PROVE  AllEndBy(t, n)
  <2>1. \A i \in Lanes : \A x \in Starts(Lane(t, i)) : x + Half <= n
    <3> TAKE i \in Lanes
    <3> TAKE x \in Starts(Lane(t, i))
    <3>1. x \in Starts(Lane(s, i)) /\ x \in Int
      BY <1>1, SameLanes, StartsInt
    <3>2. x + Half <= m /\ x + Half \in Int
      BY <1>3, <3>1, HalfIs DEF AllEndBy, EndBy
    <3> QED BY <1>3, <3>2
  <2>2. IsRead(t.mc.cmd) => RL + 1 + Half <= n
    BY <1>3, HalfIs DEF AllEndBy
  <2> QED BY <2>1, <2>2 DEF AllEndBy, EndBy
<1>4. ASSUME NEW r \in Ranks, NEW b \in Banks, t.bank[r][b].state = "RowActive",
             t.bank[r][b].countdown = 0
      PROVE  /\ AllEndBy(t, t.bank[r][b].nextRead + RL + 1 + e)
             /\ AllEndBy(t, t.bank[r][b].nextWrite + WL + e)
  <2>1. /\ AllEndBy(s, s.bank[r][b].nextRead + RL + 1 + d)
        /\ AllEndBy(s, s.bank[r][b].nextWrite + WL + d)
    BY <1>4 DEF BusFree
  <2> QED BY <1>3, <1>4, <2>1
<1> QED BY <1>1, <1>2, <1>4 DEF BusFree

LEMMA BusStays ==
  ASSUME NEW s, NEW t, SameBus(s, t), SameBanks(s, t), NEW d, BusFree(s, d)
  PROVE  BusFree(t, d)
BY BusFramed DEF SameBanks

LEMMA OfferedBus ==
  ASSUME NEW s, WellFormed(s), NEW x
  PROVE  SameBus(s, addTransaction(s, x)) /\ addTransaction(s, x).pending = s.pending
<1> DEFINE t == addTransaction(s, x)
           old == s.mc
<1>1. t = s \/ \E trans, acc : t = [s EXCEPT !.mc.transactionQueue = trans, !.accepted = acc]
  BY Zenon DEF addTransaction
<1> HIDE DEF t
<1>2. CASE t = s
  BY <1>2 DEF SameBus, t
<1>3. CASE \E trans, acc : t = [s EXCEPT !.mc.transactionQueue = trans, !.accepted = acc]
  <2>1. PICK trans, acc : t = [s EXCEPT !.mc.transactionQueue = trans, !.accepted = acc]
    BY <1>3
  <2>2. /\ t.mc = [old EXCEPT !.transactionQueue = trans] /\ t.ranks = s.ranks
        /\ t.error = s.error /\ t.pending = s.pending
    BY <2>1 DEF WellFormed, IsState
  <2>3. IsController(old)
    BY DEF WellFormed, IsState
  <2> HIDE DEF old
  <2>4. /\ t.mc.data = old.data /\ t.mc.dataCyclesLeft = old.dataCyclesLeft
        /\ t.mc.writeData = old.writeData
    BY <2>2, <2>3 DEF IsController
  <2> QED BY <2>2, <2>4 DEF SameBus, old, t
<1> QED BY <1>1, <1>2, <1>3

LEMMA DeferredBus ==
  ASSUME NEW s, IsState(s), NEW x
  PROVE  SameBus(s, [s EXCEPT !.pending = x])
BY DEF IsState, SameBus

LEMMA PendingMovedBus ==
  ASSUME NEW s, WellFormed(s)
  PROVE  SameBus(s, MovePending(s))
<1>1. CASE ~(s.pending # <<>> /\ WillAcceptTransaction(s))
  BY <1>1 DEF MovePending, SameBus
<1>2. CASE s.pending # <<>> /\ WillAcceptTransaction(s)
  <2> DEFINE t == addTransaction(s, Head(s.pending))
             rest == Tail(t.pending)
             u == [t EXCEPT !.pending = rest]
  <2>1. Head(s.pending) \in Transactions
    BY <1>2 DEF WellFormed, Typed
  <2>2. SameBus(s, t) /\ IsState(t)
    BY <2>1, OfferedBus, AddTransaction DEF WellFormed
  <2>3. MovePending(s) = u
    BY <1>2, Zenon DEF MovePending
  <2> HIDE DEF t, rest
  <2>4. SameBus(t, u)
    BY <2>2, DeferredBus
  <2> HIDE DEF u
  <2>5. SameBus(s, u)
    BY <2>2, <2>4 DEF SameBus
  <2> QED BY <2>3, <2>5
<1> QED BY <1>1, <1>2

LEMMA RefreshDuedBus ==
  ASSUME NEW s, WellFormed(s)
  PROVE  SameBus(s, RefreshDue(s))
<1> DEFINE u == RefreshDue(s)
           r == s.mc.refreshRank
           old == s.ranks[r]
           yes == TRUE
           told == [old EXCEPT !.refreshWaiting = yes]
           rs == [s.ranks EXCEPT ![r] = told]
           was == s.mc
<1>1. /\ r \in Ranks /\ DOMAIN s.ranks = Ranks /\ IsRank(old) /\ IsController(was)
      /\ IsState(s)
  BY DEF WellFormed, Typed, IsState
<1>2. /\ told.outgoingDataPacket = old.outgoingDataPacket
      /\ told.dataCyclesLeft = old.dataCyclesLeft /\ told.readReturn = old.readReturn
  <2> HIDE DEF old, yes
  <2> QED BY <1>1 DEF IsRank
<1>3. \A a \in Ranks : rs[a] = IF a = r THEN told ELSE s.ranks[a]
  BY <1>1
<1>4. \/ u = s
      \/ u = [s EXCEPT !.ranks = rs]
      \/ \E q, c, n : u = [s EXCEPT !.queue = q, !.ranks = rs,
                                    !.mc = [was EXCEPT !.refreshCountdown = c, !.refreshRank = n]]
  <2> DEFINE due == s.mc.refreshCountdown[r] = 0
             soon == s.mc.powerDown[r] /\ s.mc.refreshCountdown[r] <= tXP
  <2>1. ASSUME due
        PROVE  \E q, c, n : u = [s EXCEPT !.queue = q, !.ranks = rs,
                                  !.mc = [was EXCEPT !.refreshCountdown = c, !.refreshRank = n]]
    <3>1. u = [s EXCEPT !.queue = needRefresh(s.queue, r), !.ranks = rs,
                 !.mc = [was EXCEPT !.refreshCountdown =
                                      [was.refreshCountdown EXCEPT ![r] = RefreshCycles],
                                    !.refreshRank = (r + 1) % NUM_RANKS]]
      BY <2>1, Zenon DEF RefreshDue
    <3> QED BY <3>1, Zenon
  <2>2. ASSUME ~due, soon PROVE u = [s EXCEPT !.ranks = rs]
    BY <2>2, Zenon DEF RefreshDue
  <2>3. ASSUME ~due, ~soon PROVE u = s
    BY <2>3, Zenon DEF RefreshDue
  <2> HIDE DEF due, soon, u, rs, was
  <2> QED BY <2>1, <2>2, <2>3
<1> HIDE DEF told
<1>5. \A a \in Ranks : /\ rs[a].outgoingDataPacket = s.ranks[a].outgoingDataPacket
                       /\ rs[a].dataCyclesLeft = s.ranks[a].dataCyclesLeft
                       /\ rs[a].readReturn = s.ranks[a].readReturn
  BY <1>2, <1>3
<1> HIDE DEF u, rs, was
<1>6. CASE u = s
  BY <1>6 DEF SameBus, u
<1>7. CASE u = [s EXCEPT !.ranks = rs]
  <2>1. u.ranks = rs /\ u.mc = s.mc /\ u.error = s.error
    BY <1>1, <1>7 DEF IsState
  <2> QED BY <1>5, <2>1 DEF SameBus, u
<1>8. CASE \E q, c, n : u = [s EXCEPT !.queue = q, !.ranks = rs,
                                      !.mc = [was EXCEPT !.refreshCountdown = c, !.refreshRank = n]]
  <2>1. PICK q, c, n : u = [s EXCEPT !.queue = q, !.ranks = rs,
                                     !.mc = [was EXCEPT !.refreshCountdown = c, !.refreshRank = n]]
    BY <1>8
  <2> DEFINE m == [was EXCEPT !.refreshCountdown = c, !.refreshRank = n]
  <2>2. m.data = was.data /\ m.dataCyclesLeft = was.dataCyclesLeft /\ m.writeData = was.writeData
    BY <1>1 DEF IsController
  <2>3. u = [s EXCEPT !.queue = q, !.ranks = rs, !.mc = m]
    BY <2>1
  <2> HIDE DEF m
  <2>4. u.ranks = rs /\ u.mc = m /\ u.error = s.error
    BY <1>1, <2>3 DEF IsState
  <2> QED BY <1>5, <2>2, <2>4 DEF SameBus, u, was
<1> QED BY <1>4, <1>6, <1>7, <1>8

LEMMA ScheduledBus ==
  ASSUME NEW s, WellFormed(s)
  PROVE  SameBus(s, ScheduleTransaction(s))
<1> DEFINE u == ScheduleTransaction(s)
           old == s.mc
<1>1. \/ u = s
      \/ \E q, a, b : u = [s EXCEPT !.mc = [old EXCEPT !.transactionQueue = a, !.pendingReads = b],
                                    !.queue = q]
  BY Zenon DEF ScheduleTransaction
<1>2. IsController(old) /\ IsState(s)
  BY DEF WellFormed, IsState
<1> HIDE DEF u, old
<1>3. CASE u = s
  BY <1>3 DEF SameBus, u
<1>4. CASE u # s
  <2>1. PICK q, a, b : u = [s EXCEPT !.mc = [old EXCEPT !.transactionQueue = a, !.pendingReads = b],
                                     !.queue = q]
    BY <1>1, <1>4
  <2> DEFINE m == [old EXCEPT !.transactionQueue = a, !.pendingReads = b]
  <2>2. m.data = old.data /\ m.dataCyclesLeft = old.dataCyclesLeft /\ m.writeData = old.writeData
    BY <1>2 DEF IsController
  <2>3. u = [s EXCEPT !.mc = m, !.queue = q]
    BY <2>1
  <2> HIDE DEF m
  <2>4. u.ranks = s.ranks /\ u.mc = m /\ u.error = s.error
    BY <1>2, <2>3 DEF IsState
  <2> QED BY <2>2, <2>4 DEF SameBus, u, old
<1> QED BY <1>3, <1>4

LEMMA ReturnedBus ==
  ASSUME NEW s, WellFormed(s)
  PROVE  SameBus(s, ReturnRead(s))
<1> DEFINE u == ReturnRead(s)
           p == Head(s.mc.returns)
           match == {i \in DOMAIN s.mc.pendingReads : s.mc.pendingReads[i].addr = p.addr}
           old == s.mc
<1>1. IsController(old) /\ IsState(s)
  BY DEF WellFormed, IsState
<1>2. CASE s.mc.returns = <<>>
  BY <1>2 DEF ReturnRead, SameBus
<1>3. CASE s.mc.returns # <<>> /\ match = {}
  <2> DEFINE message == "Can't find a matching transaction"
             err == IF s.error = "none" THEN message ELSE s.error
  <2>1. u = [s EXCEPT !.error = err]
    BY <1>3, Zenon DEF ReturnRead, Fail
  <2>2. err = "Data Bus Collision" => s.error = "Data Bus Collision"
    OBVIOUS
  <2> HIDE DEF u, err
  <2>3. u.ranks = s.ranks /\ u.mc = s.mc /\ u.error = err
    BY <1>1, <2>1 DEF IsState
  <2> QED BY <2>2, <2>3 DEF SameBus, u
<1>4. CASE s.mc.returns # <<>> /\ match # {}
  <2> DEFINE rest == Tail(s.mc.returns)
             reads == RemoveAt(s.mc.pendingReads, Min(match))
             m == [old EXCEPT !.returns = rest, !.pendingReads = reads]
  <2>1. PICK d, st : u = [s EXCEPT !.mc = m, !.done = d, !.stale = st]
    BY <1>4, Zenon DEF ReturnRead
  <2> HIDE DEF u, p, match, old, rest, reads
  <2>2. m.data = old.data /\ m.dataCyclesLeft = old.dataCyclesLeft /\ m.writeData = old.writeData
    BY <1>1 DEF IsController
  <2> HIDE DEF m
  <2>3. u.ranks = s.ranks /\ u.mc = m /\ u.error = s.error
    BY <1>1, <2>1 DEF IsState
  <2> QED BY <2>2, <2>3 DEF SameBus, u, old
<1> QED BY <1>2, <1>3, <1>4

LEMMA PoweredBus ==
  ASSUME NEW s, WellFormed(s), BusFree(s, 0)
  PROVE  BusFree(Power(s), 0)
<1> DEFINE idle(r) == isEmpty(s.queue, r) /\ ~s.ranks[r].refreshWaiting
           down == {r \in Ranks : idle(r) /\ \A b \in Banks : s.bank[r][b].state = "Idle"}
           up == {r \in Ranks : ~idle(r) /\ s.mc.powerDown[r] /\ s.bank[r][0].nextPowerUp = 0}
           u == Power(s)
           pd == [r \in Ranks |-> (s.mc.powerDown[r] \/ r \in down) /\ r \notin up]
           rs == [r \in Ranks |-> IF r \in down THEN RankPowerDown(s.ranks[r])
                                  ELSE IF r \in up THEN RankPowerUp(s.ranks[r])
                                  ELSE s.ranks[r]]
           table == [r \in Ranks |-> [b \in Banks |->
                       IF r \in down THEN BankPowerDown(s.bank[r][b])
                       ELSE IF r \in up THEN BankPowerUp(s.bank[r][b]) ELSE s.bank[r][b]]]
           old == s.mc
           message == "Trying to power a rank down or up when not allowed"
<1>1. /\ IsState(s) /\ IsTable(s.bank) /\ IsController(old) /\ DOMAIN s.ranks = Ranks
      /\ \A r \in Ranks : IsRank(s.ranks[r])
  BY DEF WellFormed, IsState, IsTable
<1>2. PICK ok : u = [Check(s, ok, message) EXCEPT !.mc.powerDown = pd, !.ranks = rs,
                                                  !.bank = table]
  BY Zenon DEF Power
<1>3. \A r \in Ranks, b \in Banks : table[r][b].state = "RowActive" => table[r][b] = s.bank[r][b]
  <2> TAKE r \in Ranks, b \in Banks
  <2>1. /\ BankPowerDown(s.bank[r][b]).state = "PowerDown"
        /\ BankPowerUp(s.bank[r][b]).state = "Idle"
    BY <1>1, BankPowered DEF IsTable
  <2>2. table[r][b] = IF r \in down THEN BankPowerDown(s.bank[r][b])
                      ELSE IF r \in up THEN BankPowerUp(s.bank[r][b]) ELSE s.bank[r][b]
    OBVIOUS
  <2> HIDE DEF table, down, up
  <2> QED BY <2>1, <2>2
<1>4. \A r \in Ranks : /\ rs[r].outgoingDataPacket = s.ranks[r].outgoingDataPacket
                       /\ rs[r].dataCyclesLeft = s.ranks[r].dataCyclesLeft
                       /\ rs[r].readReturn = s.ranks[r].readReturn
  <2> TAKE r \in Ranks
  <2> DEFINE was == s.ranks[r]
  <2>1. IsRank(was)
    BY <1>1
  <2> HIDE DEF was
  <2>2. ASSUME NEW t, t = was \/ t = RankPowerDown(was) \/ t = RankPowerUp(was)
        PROVE  /\ t.outgoingDataPacket = was.outgoingDataPacket
               /\ t.dataCyclesLeft = was.dataCyclesLeft /\ t.readReturn = was.readReturn
    <3>1. t = was \/ \E flag, bs : t = [was EXCEPT !.isPowerDown = flag, !.bankStates = bs]
      BY <2>2, Zenon DEF RankPowerDown, RankPowerUp
    <3> QED BY <2>1, <3>1 DEF IsRank
  <2>3. rs[r] = was \/ rs[r] = RankPowerDown(was) \/ rs[r] = RankPowerUp(was)
    BY DEF was
  <2> HIDE DEF rs
  <2> QED BY <2>2, <2>3 DEF was
<1> DEFINE t == Check(s, ok, message)
           m == [old EXCEPT !.powerDown = pd]
<1>5. /\ t.mc = s.mc /\ t.ranks = s.ranks /\ t.bank = s.bank
      /\ t = [bank |-> t.bank, queue |-> t.queue, ranks |-> t.ranks, mc |-> t.mc,
              pending |-> t.pending, accepted |-> t.accepted, store |-> t.store,
              done |-> t.done, stale |-> t.stale, error |-> t.error]
      /\ t.error = "Data Bus Collision" => s.error = "Data Bus Collision"
  BY <1>1 DEF Check, Fail, IsState
<1> HIDE DEF t, u, pd, rs, table, down, up, old
<1>6. /\ m.data = old.data /\ m.dataCyclesLeft = old.dataCyclesLeft
      /\ m.writeData = old.writeData /\ m.cmd = old.cmd
  BY <1>1 DEF IsController
<1>7. u = [t EXCEPT !.mc = m, !.ranks = rs, !.bank = table]
  BY <1>2, <1>5 DEF t, old
<1> HIDE DEF m
<1>8. u.mc = m /\ u.ranks = rs /\ u.bank = table /\ u.error = t.error
  BY <1>5, <1>7
<1>9. SameBus(s, u) /\ u.mc.cmd = s.mc.cmd
  BY <1>4, <1>5, <1>6, <1>8 DEF SameBus, old
<1>10. BusFree(u, 0)
  BY <1>3, <1>8, <1>9, BusFramed
<1> QED BY <1>10 DEF u

(* The clocks: nothing moves on the bus, and the banks have waited a cycle.  *)
LEMMA SteppedBus ==
  ASSUME NEW s, WellFormed(s), BusFree(s, 0)
  PROVE  BusFree(StepClocks(s), 1)
<1> DEFINE u == StepClocks(s)
           old == s.mc
           table == [r \in Ranks |-> [b \in Banks |-> step(s.bank[r][b])]]
           rs == [r \in Ranks |-> RankStep(s.ranks[r])]
<1>1. /\ IsState(s) /\ IsTable(s.bank) /\ IsController(old) /\ DOMAIN s.ranks = Ranks
      /\ \A r \in Ranks : IsRank(s.ranks[r])
  BY DEF WellFormed, IsState, IsTable
<1>2. PICK c : u = [s EXCEPT !.mc = [old EXCEPT !.refreshCountdown = c], !.bank = table,
                             !.ranks = rs]
  BY Zenon DEF StepClocks
<1>3. \A r \in Ranks : /\ rs[r].outgoingDataPacket = s.ranks[r].outgoingDataPacket
                       /\ rs[r].dataCyclesLeft = s.ranks[r].dataCyclesLeft
                       /\ rs[r].readReturn = s.ranks[r].readReturn
  <2> TAKE r \in Ranks
  <2> DEFINE was == s.ranks[r]
  <2>1. IsRank(was) /\ rs[r] = RankStep(was)
    BY <1>1
  <2> HIDE DEF was, rs
  <2>2. \E bs : RankStep(was) = [was EXCEPT !.bankStates = bs]
    BY Zenon DEF RankStep
  <2>3. /\ rs[r].outgoingDataPacket = was.outgoingDataPacket
        /\ rs[r].dataCyclesLeft = was.dataCyclesLeft /\ rs[r].readReturn = was.readReturn
    BY <2>1, <2>2 DEF IsRank
  <2> QED BY <2>3 DEF was
<1>4. \A r \in Ranks, b \in Banks :
        /\ table[r][b].state = s.bank[r][b].state
        /\ table[r][b].countdown = s.bank[r][b].countdown
        /\ s.bank[r][b].nextRead \in Nat /\ s.bank[r][b].nextWrite \in Nat
        /\ table[r][b].nextRead = less1(s.bank[r][b].nextRead)
        /\ table[r][b].nextWrite = less1(s.bank[r][b].nextWrite)
  <2> TAKE r \in Ranks, b \in Banks
  <2> DEFINE x == s.bank[r][b]
  <2>1. x \in Bank /\ table[r][b] = step(x)
    BY <1>1 DEF IsTable
  <2> HIDE DEF x, table
  <2>2. /\ step(x).state = x.state /\ step(x).countdown = x.countdown
        /\ x.nextRead \in Nat /\ x.nextWrite \in Nat
        /\ step(x).nextRead = less1(x.nextRead) /\ step(x).nextWrite = less1(x.nextWrite)
    BY <2>1 DEF step, Bank
  <2> QED BY <2>1, <2>2 DEF x
<1> DEFINE m == [old EXCEPT !.refreshCountdown = c]
<1> HIDE DEF u, rs, table, old
<1>5. /\ m.data = old.data /\ m.dataCyclesLeft = old.dataCyclesLeft
      /\ m.writeData = old.writeData /\ m.cmd = old.cmd
  BY <1>1 DEF IsController
<1>6. u = [s EXCEPT !.mc = m, !.bank = table, !.ranks = rs]
  BY <1>2
<1> HIDE DEF m
<1>7. u.mc = m /\ u.ranks = rs /\ u.bank = table /\ u.error = s.error
  BY <1>1, <1>6 DEF IsState
<1>8. SameBus(s, u) /\ u.mc.cmd = s.mc.cmd
  BY <1>3, <1>5, <1>7 DEF SameBus, old
<1>9. ASSUME NEW r \in Ranks, NEW b \in Banks, NEW n \in Int
      PROVE  /\ n <= s.bank[r][b].nextRead + RL + 1 + 0 => n <= u.bank[r][b].nextRead + RL + 1 + 1
             /\ n <= s.bank[r][b].nextWrite + WL + 0 => n <= u.bank[r][b].nextWrite + WL + 1
  <2>1. \A k \in Nat : less1(k) \in Nat /\ k <= less1(k) + 1
    BY Less1
  <2> QED BY <1>4, <1>7, <2>1, HalfIs
<1>10. BusFree(u, 1)
  BY <1>4, <1>7, <1>8, <1>9, BusFramed
<1> QED BY <1>10 DEF u

-----------------------------------------------------------------------------
(* The stages that move the bursts on *)

LEMMA RankPasses ==
  ASSUME NEW rank, IsRank(rank), NEW l,
         l = [out |-> rank.outgoingDataPacket, left |-> rank.dataCyclesLeft,
              waiting |-> rank.readReturn],
         IsLane(l), NEW t, t = RankUpdate(rank), NEW m,
         m = [out |-> t.outgoingDataPacket, left |-> t.dataCyclesLeft,
              waiting |-> t.readReturn]
  PROVE  Passes(l, m)
<1> DEFINE q == Counts(rank.readReturn)
           ready == q # <<>> /\ Head(q).countdown = 0
           sent == RankReturns(rank) # <<>>
           out == IF ready THEN Head(q).packet
                  ELSE IF sent THEN NoPacket ELSE rank.outgoingDataPacket
           left == IF ready THEN BL \div 2 ELSE less1(rank.dataCyclesLeft)
           reads == IF ready THEN Tail(q) ELSE q
<1>1. t = [rank EXCEPT !.outgoingDataPacket = out, !.dataCyclesLeft = left, !.readReturn = reads]
  BY Zenon DEF RankUpdate, Counts
<1>2. ~sent => rank.outgoingDataPacket = NoPacket \/ rank.dataCyclesLeft # 1
  BY DEF RankReturns
<1> HIDE DEF out, left, reads
<1>3. t.outgoingDataPacket = out /\ t.dataCyclesLeft = left /\ t.readReturn = reads
  BY <1>1 DEF IsRank
<1>4. m.out = out /\ m.left = left /\ m.waiting = reads
  BY <1>3
<1>5. l.out = rank.outgoingDataPacket /\ l.left = rank.dataCyclesLeft /\ l.waiting = rank.readReturn
  OBVIOUS
<1>6. CASE ready
  <2>1. out = Head(q).packet /\ left = Half /\ reads = Tail(q)
    BY <1>6, Zenon DEF out, left, reads, Half
  <2> QED BY <1>4, <1>5, <1>6, <2>1, Zenon DEF Passes
<1>7. CASE ~ready
  <2>1. out = (IF sent THEN NoPacket ELSE rank.outgoingDataPacket) /\ reads = q
        /\ left = less1(rank.dataCyclesLeft)
    BY <1>7, Zenon DEF out, left, reads
  <2>2. ASSUME m.out # NoPacket
        PROVE  l.out # NoPacket /\ l.left # 1 /\ m.left = l.left - 1
    <3>1. ~sent /\ l.out = m.out /\ l.left # 1
      BY <1>2, <1>4, <1>5, <2>1, <2>2
    <3>2. l.left \in 1..Half
      BY <2>2, <3>1 DEF IsLane
    <3>3. l.left \in Nat /\ l.left > 0
      BY <3>2, HalfIs
    <3> QED BY <1>4, <1>5, <2>1, <2>2, <3>1, <3>3 DEF less1
  <2> QED BY <1>4, <1>5, <1>7, <2>1, <2>2, Zenon DEF Passes
<1> QED BY <1>6, <1>7

LEMMA UpdatedLanes ==
  ASSUME NEW s, WellFormed(s), \A i \in Lanes : LaneOK(Lane(s, i))
  PROVE  LET u == UpdateRanks(s)
         IN  /\ \A r \in Ranks : Passes(Lane(s, r), Lane(u, r))
             /\ Lane(u, NUM_RANKS) = Lane(s, NUM_RANKS) /\ u.error = s.error
<1> DEFINE u == UpdateRanks(s)
           old == s.mc
           rs == [r \in Ranks |-> RankUpdate(s.ranks[r])]
<1>1. IsState(s) /\ IsController(old) /\ \A r \in Ranks : IsRank(s.ranks[r])
  BY DEF WellFormed, IsState
<1>2. PICK rets : u = [s EXCEPT !.ranks = rs, !.mc = [old EXCEPT !.returns = rets]]
  BY Zenon DEF UpdateRanks
<1>3. \A r \in Ranks : rs[r] = RankUpdate(s.ranks[r])
  OBVIOUS
<1> DEFINE m == [old EXCEPT !.returns = rets]
<1> HIDE DEF u, old, rs
<1>4. m.data = old.data /\ m.dataCyclesLeft = old.dataCyclesLeft /\ m.writeData = old.writeData
  BY <1>1 DEF IsController
<1>5. u = [s EXCEPT !.ranks = rs, !.mc = m]
  BY <1>2
<1> HIDE DEF m
<1>6. u.ranks = rs /\ u.mc = m /\ u.error = s.error
  BY <1>1, <1>5 DEF IsState
<1>7. Lane(u, NUM_RANKS) = Lane(s, NUM_RANKS)
  BY <1>4, <1>6, LaneIs DEF old
<1>8. ASSUME NEW r \in Ranks PROVE Passes(Lane(s, r), Lane(u, r))
  <2>1. LaneOK(Lane(s, r)) /\ IsRank(s.ranks[r]) /\ u.ranks[r] = RankUpdate(s.ranks[r])
    BY <1>1, <1>3, <1>6, LaneIs
  <2>2. /\ Lane(s, r) = [out |-> s.ranks[r].outgoingDataPacket, left |-> s.ranks[r].dataCyclesLeft,
                         waiting |-> s.ranks[r].readReturn]
        /\ Lane(u, r) = [out |-> u.ranks[r].outgoingDataPacket, left |-> u.ranks[r].dataCyclesLeft,
                         waiting |-> u.ranks[r].readReturn]
    BY LaneIs
  <2>3. IsLane(Lane(s, r))
    BY <2>1 DEF LaneOK
  <2> QED BY <2>1, <2>2, <2>3, RankPasses
<1> QED BY <1>6, <1>7, <1>8 DEF u

LEMMA CountedBus ==
  ASSUME NEW s, Between(s)
  PROVE  LET u == CountdownBanks(s)
         IN  /\ SameBus(s, u) /\ u.mc = s.mc
             /\ \A r \in Ranks, b \in Banks :
                  u.bank[r][b].state = "RowActive" /\ u.bank[r][b].countdown = 0
                    => u.bank[r][b] = s.bank[r][b]
<1> DEFINE u == CountdownBanks(s)
           table == [r \in Ranks |-> [b \in Banks |-> CountdownBank(s.bank[r][b])]]
<1>1. IsState(s)
  BY DEF Between, WellFormed
<1>2. u = [s EXCEPT !.bank = table]
  BY Zenon DEF CountdownBanks
<1>3. \A r \in Ranks, b \in Banks : table[r][b] = CountdownBank(s.bank[r][b])
  OBVIOUS
<1>4. \A r \in Ranks, b \in Banks : Covers(s.bank[r][b], Arrived(s, r)[b], 1)
  BY DEF Between, Covered, RankCovered
<1> HIDE DEF u, table
<1>5. u.bank = table /\ u.mc = s.mc /\ u.ranks = s.ranks /\ u.error = s.error
  BY <1>1, <1>2 DEF IsState
<1>6. ASSUME NEW c, NEW k, Covers(c, k, 1), NEW e, e = CountdownBank(c),
             e.state = "RowActive", e.countdown = 0
      PROVE  e = c
  <2>1. /\ c \in Bank /\ c.countdown \in Nat
        /\ c.state # "RowActive" => c.countdown = 0 \/ c.lastCommand \in {"PRECHARGE", "REFRESH"}
        /\ c.state = "RowActive" => c.countdown = 0 \/ c.lastCommand \in {"READ_P", "WRITE_P"}
    BY <1>6 DEF Covers, Open, Closing, Bank
  <2>2. /\ c.countdown = 0 => e = c
        /\ c.countdown > 1 => e = [c EXCEPT !.countdown = c.countdown - 1]
        /\ c.countdown = 1 /\ c.lastCommand \in {"READ_P", "WRITE_P"}
             => e = [c EXCEPT !.state = "Precharging", !.lastCommand = "PRECHARGE",
                              !.countdown = tRP]
        /\ c.countdown = 1 /\ c.lastCommand \in {"REFRESH", "PRECHARGE"}
             => e = [c EXCEPT !.state = "Idle", !.countdown = 0]
    BY <1>6, <2>1, CountdownIs
  <2>3. CASE c.countdown = 0
    BY <2>2, <2>3
  <2>4. CASE c.countdown > 1
    <3>1. e.countdown = c.countdown - 1
      BY <2>1, <2>2, <2>4 DEF Bank
    <3> QED BY <1>6, <2>1, <2>4, <3>1
  <2>5. CASE c.countdown = 1
    <3>1. e.state \in {"Precharging", "Idle"}
      <4>1. CASE c.lastCommand \in {"READ_P", "WRITE_P"}
        <5>1. e = [c EXCEPT !.state = "Precharging", !.lastCommand = "PRECHARGE", !.countdown = tRP]
          BY <2>2, <2>5, <4>1
        <5> QED BY <2>1, <5>1 DEF Bank
      <4>2. CASE c.lastCommand \in {"REFRESH", "PRECHARGE"}
        <5>1. e = [c EXCEPT !.state = "Idle", !.countdown = 0]
          BY <2>2, <2>5, <4>2
        <5> QED BY <2>1, <5>1 DEF Bank
      <4> QED BY <2>1, <2>5, <4>1, <4>2
    <3> QED BY <1>6, <3>1
  <2> QED BY <2>1, <2>3, <2>4, <2>5
<1>7. SameBus(s, u)
  BY <1>5 DEF SameBus
<1>8. ASSUME NEW r \in Ranks, NEW b \in Banks, u.bank[r][b].state = "RowActive",
             u.bank[r][b].countdown = 0
      PROVE  u.bank[r][b] = s.bank[r][b]
  BY <1>3, <1>4, <1>5, <1>6, <1>8
<1> QED BY <1>5, <1>7, <1>8 DEF u

(* One more burst waits.                                                     *)
Joins(q, w, n) == \E k : w = Append(q, [packet |-> k, countdown |-> n])

(* A rank takes a packet: only a read adds to its bursts.                    *)
LEMMA ReceivedLane ==
  ASSUME NEW rank, IsRank(rank), NEW p, NEW v, NEW t, t = RankReceives(rank, p, v)
  PROVE  /\ t.outgoingDataPacket = rank.outgoingDataPacket
         /\ t.dataCyclesLeft = rank.dataCyclesLeft
         /\ ~IsRead(p) => t.readReturn = rank.readReturn
         /\ IsRead(p) => Joins(rank.readReturn, t.readReturn, RL)
<1> DEFINE k == [p EXCEPT !.type = "DATA", !.data = v]
           reads == IF IsRead(p) THEN Append(rank.readReturn, [packet |-> k, countdown |-> RL])
                    ELSE rank.readReturn
<1>1. PICK banks, waits :
        t = [rank EXCEPT !.bankStates = banks, !.refreshWaiting = waits, !.readReturn = reads]
  BY Zenon DEF RankReceives
<1>2. /\ ~IsRead(p) => reads = rank.readReturn
      /\ IsRead(p) => Joins(rank.readReturn, reads, RL)
  BY Zenon DEF Joins
<1> HIDE DEF reads
<1>3. /\ t.readReturn = reads /\ t.outgoingDataPacket = rank.outgoingDataPacket
      /\ t.dataCyclesLeft = rank.dataCyclesLeft
  BY <1>1 DEF IsRank
<1> QED BY <1>2, <1>3, Zenon

LEMMA ToRankLanes ==
  ASSUME NEW s, WellFormed(s), NEW p
  PROVE  LET t == ToRank(s, p) IN
         /\ t = [bank |-> s.bank, queue |-> s.queue, ranks |-> t.ranks, mc |-> s.mc,
                 pending |-> s.pending, accepted |-> s.accepted, store |-> t.store,
                 done |-> s.done, stale |-> s.stale, error |-> t.error]
         /\ t.error = "Data Bus Collision" => s.error = "Data Bus Collision"
         /\ \A r \in Ranks :
              /\ t.ranks[r].outgoingDataPacket = s.ranks[r].outgoingDataPacket
              /\ t.ranks[r].dataCyclesLeft = s.ranks[r].dataCyclesLeft
              /\ ~IsRead(p) \/ r # p.rank => t.ranks[r].readReturn = s.ranks[r].readReturn
              /\ IsRead(p) /\ r = p.rank =>
                   Joins(s.ranks[r].readReturn, t.ranks[r].readReturn, RL)
<1> DEFINE t == ToRank(s, p)
           message == "received a command when not allowed"
           rank == RankReceives(s.ranks[p.rank], p, BankRead(s.store, p))
           rs == [s.ranks EXCEPT ![p.rank] = rank]
<1>1. IsState(s) /\ DOMAIN s.ranks = Ranks /\ \A r \in Ranks : IsRank(s.ranks[r])
  BY DEF WellFormed, IsState
<1>2. PICK ok, st : t = [Check(s, ok, message) EXCEPT !.ranks[p.rank] = rank, !.store = st]
  <2> DEFINE c == Check(s, Allowed(s.ranks[p.rank].bankStates, p), message)
  <2>1. c.ranks = s.ranks
    BY <1>1 DEF Check, Fail, IsState
  <2>2. t = [c EXCEPT !.ranks[p.rank] = RankReceives(c.ranks[p.rank], p, BankRead(s.store, p)),
                      !.store = IF p.type = "DATA" THEN BankWrite(c.store, p) ELSE c.store]
    BY Zenon DEF ToRank
  <2>3. t = [c EXCEPT !.ranks[p.rank] = rank,
                      !.store = IF p.type = "DATA" THEN BankWrite(c.store, p) ELSE c.store]
    BY <2>1, <2>2, Zenon
  <2> QED BY <2>3, Zenon
<1> DEFINE c == Check(s, ok, message)
<1>3. /\ c = [bank |-> s.bank, queue |-> s.queue, ranks |-> s.ranks, mc |-> s.mc,
              pending |-> s.pending, accepted |-> s.accepted, store |-> s.store,
              done |-> s.done, stale |-> s.stale, error |-> c.error]
      /\ c.error = "Data Bus Collision" => s.error = "Data Bus Collision"
  BY <1>1 DEF Check, Fail, IsState
<1>4. \A r \in Ranks : rs[r] = IF r = p.rank THEN rank ELSE s.ranks[r]
  BY <1>1
<1>5. t = [c EXCEPT !.ranks = [c.ranks EXCEPT ![p.rank] = rank], !.store = st]
  BY <1>2, Zenon
<1> DEFINE err == c.error
<1> HIDE DEF t, rank, c, err
<1>6. c = [bank |-> s.bank, queue |-> s.queue, ranks |-> s.ranks, mc |-> s.mc,
           pending |-> s.pending, accepted |-> s.accepted, store |-> s.store,
           done |-> s.done, stale |-> s.stale, error |-> err]
  BY <1>3, Zenon DEF err
<1>7. c.ranks = s.ranks
  BY <1>6
<1>8. t = [c EXCEPT !.ranks = rs, !.store = st]
  BY <1>5, <1>7
<1> HIDE DEF rs
<1>9. t = [bank |-> s.bank, queue |-> s.queue, ranks |-> rs, mc |-> s.mc,
           pending |-> s.pending, accepted |-> s.accepted, store |-> st,
           done |-> s.done, stale |-> s.stale, error |-> err]
  BY <1>6, <1>8
<1>10. t.ranks = rs /\ t.store = st /\ t.error = err
  BY <1>9
<1>11. ASSUME NEW r \in Ranks
       PROVE  /\ rs[r].outgoingDataPacket = s.ranks[r].outgoingDataPacket
              /\ rs[r].dataCyclesLeft = s.ranks[r].dataCyclesLeft
              /\ ~IsRead(p) \/ r # p.rank => rs[r].readReturn = s.ranks[r].readReturn
              /\ IsRead(p) /\ r = p.rank =>
                   Joins(s.ranks[r].readReturn, rs[r].readReturn, RL)
  <2>1. CASE r # p.rank
    BY <1>4, <2>1
  <2>2. CASE r = p.rank
    <3>1. /\ rank.outgoingDataPacket = s.ranks[r].outgoingDataPacket
          /\ rank.dataCyclesLeft = s.ranks[r].dataCyclesLeft
          /\ ~IsRead(p) => rank.readReturn = s.ranks[r].readReturn
          /\ IsRead(p) => Joins(s.ranks[r].readReturn, rank.readReturn, RL)
      <4>1. rank = RankReceives(s.ranks[r], p, BankRead(s.store, p)) /\ IsRank(s.ranks[r])
        BY <1>1, <2>2 DEF rank
      <4> QED BY <4>1, ReceivedLane
    <3>2. rs[r] = rank
      BY <1>4, <2>2
    <3> HIDE DEF rank
    <3>3. ~IsRead(p) \/ r # p.rank => ~IsRead(p)
      BY <2>2
    <3> QED BY <3>1, <3>2, <3>3
  <2> QED BY <2>1, <2>2
<1>12. err = "Data Bus Collision" => s.error = "Data Bus Collision"
  BY <1>3 DEF err
<1>13. t = [bank |-> s.bank, queue |-> s.queue, ranks |-> t.ranks, mc |-> s.mc,
            pending |-> s.pending, accepted |-> s.accepted, store |-> t.store,
            done |-> s.done, stale |-> s.stale, error |-> t.error]
  BY <1>9, <1>10, Zenon
<1> QED BY <1>10, <1>11, <1>12, <1>13, Zenon DEF t

LEMMA CommandLanes ==
  ASSUME NEW s, WellFormed(s), CommandOK(s)
  PROVE  LET u == CommandBus(s)
             p == s.mc.cmd IN
         /\ u.error = "Data Bus Collision" => s.error = "Data Bus Collision"
         /\ u.bank = s.bank /\ Lane(u, NUM_RANKS) = Lane(s, NUM_RANKS)
         /\ \A r \in Ranks :
              /\ ~IsRead(p) \/ r # p.rank => Lane(u, r) = Lane(s, r)
              /\ IsRead(p) /\ r = p.rank =>
                   /\ Lane(u, r).out = Lane(s, r).out /\ Lane(u, r).left = Lane(s, r).left
                   /\ Joins(Lane(s, r).waiting, Lane(u, r).waiting, RL)
<1> DEFINE u == CommandBus(s)
           p == s.mc.cmd
           t == ToRank(s, p)
           old == s.mc
           m == [old EXCEPT !.cmd = NoPacket, !.cmdCyclesLeft = 0]
<1>1. CASE p = NoPacket
  <2>1. u = s
    BY <1>1, Zenon DEF CommandBus
  <2>2. ~IsRead(p)
    BY <1>1 DEF NoPacket, IsRead
  <2> HIDE DEF u, p
  <2> QED BY <2>1, <2>2 DEF u, p
<1>2. CASE p # NoPacket
  <2>1. ~(s.mc.cmdCyclesLeft > 1)
    BY <1>2 DEF CommandOK
  <2>2. u = [t EXCEPT !.mc = m]
    BY <1>2, <2>1, Zenon DEF CommandBus
  <2>3. IsController(old)
    BY DEF WellFormed, IsState
  <2>4. /\ t = [bank |-> s.bank, queue |-> s.queue, ranks |-> t.ranks, mc |-> s.mc,
                pending |-> s.pending, accepted |-> s.accepted, store |-> t.store,
                done |-> s.done, stale |-> s.stale, error |-> t.error]
        /\ t.error = "Data Bus Collision" => s.error = "Data Bus Collision"
        /\ \A r \in Ranks :
             /\ t.ranks[r].outgoingDataPacket = s.ranks[r].outgoingDataPacket
             /\ t.ranks[r].dataCyclesLeft = s.ranks[r].dataCyclesLeft
             /\ ~IsRead(p) \/ r # p.rank => t.ranks[r].readReturn = s.ranks[r].readReturn
             /\ IsRead(p) /\ r = p.rank =>
                  Joins(s.ranks[r].readReturn, t.ranks[r].readReturn, RL)
    BY ToRankLanes
  <2> HIDE DEF t, u, p, old
  <2>5. m.data = old.data /\ m.dataCyclesLeft = old.dataCyclesLeft /\ m.writeData = old.writeData
    BY <2>3 DEF IsController
  <2> HIDE DEF m
  <2>6. u.mc = m /\ u.ranks = t.ranks /\ u.error = t.error /\ u.bank = s.bank
    <3> DEFINE rs == t.ranks
               st == t.store
               err == t.error
    <3>1. t = [bank |-> s.bank, queue |-> s.queue, ranks |-> rs, mc |-> s.mc,
               pending |-> s.pending, accepted |-> s.accepted, store |-> st,
               done |-> s.done, stale |-> s.stale, error |-> err]
      BY <2>4, Zenon
    <3> HIDE DEF rs, st, err
    <3>2. u.mc = m /\ u.ranks = rs /\ u.error = err /\ u.bank = s.bank
      BY <2>2, <3>1
    <3> QED BY <3>2, Zenon DEF rs, st, err
  <2>7. Lane(u, NUM_RANKS) = Lane(s, NUM_RANKS)
    BY <2>5, <2>6, LaneIs DEF old
  <2>8. ASSUME NEW r \in Ranks
        PROVE  /\ ~IsRead(p) \/ r # p.rank => Lane(u, r) = Lane(s, r)
               /\ IsRead(p) /\ r = p.rank =>
                    /\ Lane(u, r).out = Lane(s, r).out /\ Lane(u, r).left = Lane(s, r).left
                    /\ Joins(Lane(s, r).waiting, Lane(u, r).waiting, RL)
    <3>1. /\ Lane(s, r) = [out |-> s.ranks[r].outgoingDataPacket, left |-> s.ranks[r].dataCyclesLeft,
                           waiting |-> s.ranks[r].readReturn]
          /\ Lane(u, r) = [out |-> t.ranks[r].outgoingDataPacket, left |-> t.ranks[r].dataCyclesLeft,
                           waiting |-> t.ranks[r].readReturn]
      BY <2>6, LaneIs
    <3>a. /\ t.ranks[r].outgoingDataPacket = s.ranks[r].outgoingDataPacket
          /\ t.ranks[r].dataCyclesLeft = s.ranks[r].dataCyclesLeft
      BY <2>4, Zenon
    <3>2. /\ Lane(s, r).waiting = s.ranks[r].readReturn /\ Lane(u, r).waiting = t.ranks[r].readReturn
          /\ Lane(u, r).out = Lane(s, r).out /\ Lane(u, r).left = Lane(s, r).left
      BY <3>1, <3>a
    <3>3. CASE ~IsRead(p) \/ r # p.rank
      BY <2>4, <3>1, <3>3
    <3>4. CASE IsRead(p) /\ r = p.rank
      <4>1. Joins(s.ranks[r].readReturn, t.ranks[r].readReturn, RL)
        BY <2>4, <3>4
      <4>2. Joins(Lane(s, r).waiting, Lane(u, r).waiting, RL)
        BY <3>2, <4>1, Zenon
      <4> QED BY <3>2, <3>4, <4>2
    <3> QED BY <3>3, <3>4
  <2> QED BY <2>4, <2>6, <2>7, <2>8, Zenon DEF u, p
<1> QED BY <1>1, <1>2

LEMMA DataLane ==
  ASSUME NEW s, WellFormed(s)
  PROVE  LET u == DataBus(s) IN
         /\ u.error = "Data Bus Collision" => s.error = "Data Bus Collision"
         /\ u.mc.writeData = s.mc.writeData
         /\ \A r \in Ranks : Lane(u, r) = Lane(s, r)
         /\ u.mc.data # NoPacket =>
              /\ s.mc.data # NoPacket /\ s.mc.dataCyclesLeft > 1
              /\ u.mc.dataCyclesLeft = s.mc.dataCyclesLeft - 1
<1> DEFINE u == DataBus(s)
           p == s.mc.data
           old == s.mc
<1>1. IsController(old) /\ IsState(s)
  BY DEF WellFormed, IsState
<1>2. CASE p = NoPacket
  <2>1. u = s
    BY <1>2, Zenon DEF DataBus
  <2> QED BY <1>2, <2>1
<1>3. CASE p # NoPacket /\ s.mc.dataCyclesLeft > 1
  <2> DEFINE n == s.mc.dataCyclesLeft - 1
             m == [old EXCEPT !.dataCyclesLeft = n]
  <2>1. u = [s EXCEPT !.mc = m]
    BY <1>3, Zenon DEF DataBus
  <2> HIDE DEF u, n, old
  <2>2. m.dataCyclesLeft = n /\ m.writeData = old.writeData
    BY <1>1 DEF IsController
  <2> HIDE DEF m
  <2>3. u.mc = m /\ u.ranks = s.ranks /\ u.error = s.error
    BY <1>1, <2>1 DEF IsState
  <2>4. \A r \in Ranks : Lane(u, r) = Lane(s, r)
    BY <2>3, LaneIs
  <2> QED BY <1>3, <2>2, <2>3, <2>4 DEF u, n, old
<1>4. CASE p # NoPacket /\ ~(s.mc.dataCyclesLeft > 1)
  <2> DEFINE t == ToRank(s, p)
             m == [old EXCEPT !.data = NoPacket, !.dataCyclesLeft = 0]
  <2>1. PICK d : u = [t EXCEPT !.mc = m, !.done = d]
    BY <1>4, Zenon DEF DataBus
  <2>2. ~IsRead(p)
    BY <1>4 DEF WellFormed, Typed, DataPacket, IsRead
  <2>3. /\ t = [bank |-> s.bank, queue |-> s.queue, ranks |-> t.ranks, mc |-> s.mc,
                pending |-> s.pending, accepted |-> s.accepted, store |-> t.store,
                done |-> s.done, stale |-> s.stale, error |-> t.error]
        /\ t.error = "Data Bus Collision" => s.error = "Data Bus Collision"
        /\ \A r \in Ranks :
             /\ t.ranks[r].outgoingDataPacket = s.ranks[r].outgoingDataPacket
             /\ t.ranks[r].dataCyclesLeft = s.ranks[r].dataCyclesLeft
             /\ t.ranks[r].readReturn = s.ranks[r].readReturn
    <3>1. /\ t = [bank |-> s.bank, queue |-> s.queue, ranks |-> t.ranks, mc |-> s.mc,
                  pending |-> s.pending, accepted |-> s.accepted, store |-> t.store,
                  done |-> s.done, stale |-> s.stale, error |-> t.error]
          /\ t.error = "Data Bus Collision" => s.error = "Data Bus Collision"
      BY ToRankLanes, Zenon
    <3>2. ASSUME NEW r \in Ranks
          PROVE  /\ t.ranks[r].outgoingDataPacket = s.ranks[r].outgoingDataPacket
                 /\ t.ranks[r].dataCyclesLeft = s.ranks[r].dataCyclesLeft
                 /\ t.ranks[r].readReturn = s.ranks[r].readReturn
      <4>1. t.ranks[r].outgoingDataPacket = s.ranks[r].outgoingDataPacket
        BY ToRankLanes, Zenon
      <4>2. t.ranks[r].dataCyclesLeft = s.ranks[r].dataCyclesLeft
        BY ToRankLanes, Zenon
      <4>3. ~IsRead(p) => t.ranks[r].readReturn = s.ranks[r].readReturn
        BY ToRankLanes, Zenon
      <4> HIDE DEF t
      <4> QED BY <2>2, <4>1, <4>2, <4>3, Zenon
    <3> HIDE DEF t
    <3> QED BY <3>1, <3>2, Zenon
  <2> HIDE DEF t, u, p, old
  <2>4. m.data = NoPacket /\ m.writeData = old.writeData
    BY <1>1 DEF IsController
  <2> HIDE DEF m
  <2>5. u.mc = m /\ u.ranks = t.ranks /\ u.error = t.error
    <3> DEFINE rs == t.ranks
               st == t.store
               err == t.error
    <3>1. t = [bank |-> s.bank, queue |-> s.queue, ranks |-> rs, mc |-> s.mc,
               pending |-> s.pending, accepted |-> s.accepted, store |-> st,
               done |-> s.done, stale |-> s.stale, error |-> err]
      BY <2>3, Zenon
    <3> HIDE DEF rs, st, err
    <3>2. u.mc = m /\ u.ranks = rs /\ u.error = err
      BY <2>1, <3>1
    <3> QED BY <3>2, Zenon DEF rs, st, err
  <2>6. \A r \in Ranks : Lane(u, r) = Lane(s, r)
    <3> TAKE r \in Ranks
    <3>1. /\ u.ranks[r].outgoingDataPacket = s.ranks[r].outgoingDataPacket
          /\ u.ranks[r].dataCyclesLeft = s.ranks[r].dataCyclesLeft
          /\ u.ranks[r].readReturn = s.ranks[r].readReturn
      BY <2>3, <2>5
    <3> QED BY <3>1, LaneIs
  <2> QED BY <2>3, <2>4, <2>5, <2>6 DEF u, old
<1> QED BY <1>2, <1>3, <1>4

LEMMA WriteLane ==
  ASSUME NEW s, WellFormed(s)
  PROVE  LET u == SendWriteData(s)
             q == Counts(s.mc.writeData)
             ready == q # <<>> /\ Head(q).countdown = 0 IN
         /\ \A r \in Ranks : Lane(u, r) = Lane(s, r)
         /\ u.error = "Data Bus Collision" =>
              s.error = "Data Bus Collision" \/ (ready /\ s.mc.data # NoPacket)
         /\ ready => /\ u.mc.data = Head(q).packet /\ u.mc.dataCyclesLeft = Half
                     /\ u.mc.writeData = Tail(q)
         /\ ~ready => /\ u.mc.data = s.mc.data /\ u.mc.dataCyclesLeft = s.mc.dataCyclesLeft
                      /\ u.mc.writeData = q
<1> DEFINE u == SendWriteData(s)
           q == Counts(s.mc.writeData)
           ready == q # <<>> /\ Head(q).countdown = 0
           old == s.mc
           message == "Data Bus Collision"
           ok == s.mc.data = NoPacket
           t == Check(s, ok, message)
<1>1. IsController(old) /\ IsState(s)
  BY DEF WellFormed, IsState
<1>2. CASE ready
  <2> DEFINE first == Head(q).packet
             rest == Tail(q)
             m == [old EXCEPT !.data = first, !.dataCyclesLeft = BL \div 2, !.writeData = rest]
  <2>1. u = [t EXCEPT !.mc = m]
    BY <1>2, Zenon DEF SendWriteData, Counts
  <2>2. /\ t = [bank |-> s.bank, queue |-> s.queue, ranks |-> s.ranks, mc |-> s.mc,
                pending |-> s.pending, accepted |-> s.accepted, store |-> s.store,
                done |-> s.done, stale |-> s.stale, error |-> t.error]
        /\ t.error = "Data Bus Collision" => s.error = "Data Bus Collision" \/ ~ok
    BY <1>1 DEF Check, Fail, IsState
  <2> DEFINE err == t.error
             half == BL \div 2
  <2> HIDE DEF t, u, first, rest, old, ready, ok, err, half
  <2>3. m.data = first /\ m.dataCyclesLeft = half /\ m.writeData = rest
    <3>1. m = [old EXCEPT !.data = first, !.dataCyclesLeft = half, !.writeData = rest]
      BY DEF half
    <3> QED BY <1>1, <3>1 DEF IsController
  <2> HIDE DEF m
  <2>4. t = [bank |-> s.bank, queue |-> s.queue, ranks |-> s.ranks, mc |-> s.mc,
             pending |-> s.pending, accepted |-> s.accepted, store |-> s.store,
             done |-> s.done, stale |-> s.stale, error |-> err]
    BY <2>2, Zenon DEF err
  <2>5. u.mc = m /\ u.ranks = s.ranks /\ u.error = err
    BY <2>1, <2>4
  <2>6. \A r \in Ranks : Lane(u, r) = Lane(s, r)
    BY <2>5, LaneIs
  <2>7. u.error = "Data Bus Collision" => s.error = "Data Bus Collision" \/ s.mc.data # NoPacket
    BY <2>2, <2>5 DEF ok, err
  <2>8. u.mc.data = first /\ u.mc.dataCyclesLeft = Half /\ u.mc.writeData = rest
    BY <2>3, <2>5 DEF half, Half
  <2> HIDE DEF q
  <2>9. /\ ready => /\ u.mc.data = Head(q).packet /\ u.mc.dataCyclesLeft = Half
                    /\ u.mc.writeData = Tail(q)
        /\ u.error = "Data Bus Collision" =>
             s.error = "Data Bus Collision" \/ (ready /\ s.mc.data # NoPacket)
    BY <1>2, <2>7, <2>8, Zenon DEF first, rest
  <2> QED BY <1>2, <2>6, <2>9, Zenon DEF u, q, ready
<1>3. CASE ~ready
  <2> DEFINE m == [old EXCEPT !.writeData = q]
  <2>1. u = [s EXCEPT !.mc = m]
    BY <1>3, Zenon DEF SendWriteData, Counts
  <2> HIDE DEF u, q, old, ready
  <2>2. m.data = old.data /\ m.dataCyclesLeft = old.dataCyclesLeft /\ m.writeData = q
    BY <1>1 DEF IsController
  <2> HIDE DEF m
  <2>3. u.mc = m /\ u.ranks = s.ranks /\ u.error = s.error
    BY <1>1, <2>1 DEF IsState
  <2>4. \A r \in Ranks : Lane(u, r) = Lane(s, r)
    BY <2>3, LaneIs
  <2> QED BY <1>3, <2>2, <2>3, <2>4, Zenon DEF u, q, old, ready
<1> QED BY <1>2, <1>3

(* The two stages of the controller move its own bursts on, and the first    *)
(* one finds the bus free.                                                   *)
LEMMA ControllerPasses ==
  ASSUME NEW s, WellFormed(s), LaneOK(Lane(s, NUM_RANKS))
  PROVE  LET u == SendWriteData(DataBus(s)) IN
         /\ Passes(Lane(s, NUM_RANKS), Lane(u, NUM_RANKS))
         /\ \A r \in Ranks : Lane(u, r) = Lane(s, r)
         /\ u.error = "Data Bus Collision" => s.error = "Data Bus Collision"
<1> DEFINE t == DataBus(s)
           u == SendWriteData(t)
           l == Lane(s, NUM_RANKS)
           m == Lane(u, NUM_RANKS)
           q == Counts(s.mc.writeData)
           ready == q # <<>> /\ Head(q).countdown = 0
<1>1. /\ t.error = "Data Bus Collision" => s.error = "Data Bus Collision"
      /\ t.mc.writeData = s.mc.writeData
      /\ \A r \in Ranks : Lane(t, r) = Lane(s, r)
      /\ t.mc.data # NoPacket => /\ s.mc.data # NoPacket /\ s.mc.dataCyclesLeft > 1
                                 /\ t.mc.dataCyclesLeft = s.mc.dataCyclesLeft - 1
  BY DataLane
<1>2. WellFormed(t)
  BY DataArrived
<1> HIDE DEF t
<1>3. /\ \A r \in Ranks : Lane(u, r) = Lane(t, r)
      /\ u.error = "Data Bus Collision" =>
           t.error = "Data Bus Collision" \/ (ready /\ t.mc.data # NoPacket)
      /\ ready => /\ u.mc.data = Head(q).packet /\ u.mc.dataCyclesLeft = Half
                  /\ u.mc.writeData = Tail(q)
      /\ ~ready => /\ u.mc.data = t.mc.data /\ u.mc.dataCyclesLeft = t.mc.dataCyclesLeft
                   /\ u.mc.writeData = q
  <2>1. Counts(t.mc.writeData) = q
    BY <1>1
  <2> HIDE DEF q
  <2> QED BY <1>2, <2>1, WriteLane
<1>4. /\ l.out = s.mc.data /\ l.left = s.mc.dataCyclesLeft /\ l.waiting = s.mc.writeData
      /\ m.out = u.mc.data /\ m.left = u.mc.dataCyclesLeft /\ m.waiting = u.mc.writeData
  BY LaneIs
<1>5. ASSUME ready PROVE t.mc.data = NoPacket
  <2> SUFFICES ASSUME t.mc.data # NoPacket PROVE FALSE
    OBVIOUS
  <2> DEFINE n == Len(l.waiting)
  <2>1. /\ n \in Nat /\ DOMAIN l.waiting = 1..n
        /\ q = [i \in 1..n |-> [packet |-> l.waiting[i].packet,
                                countdown |-> l.waiting[i].countdown - 1]]
    BY <1>4, CountsAre DEF LaneOK
  <2>2. l.out # NoPacket /\ l.left > 1
    BY <1>1, <1>4
  <2>3. l.left \in Nat /\ \A i \in 1..n : l.left <= l.waiting[i].countdown
                                          /\ l.waiting[i].countdown \in Nat
    BY <2>1, <2>2, HalfIs DEF LaneOK, IsLane
  <2> HIDE DEF n, l, q
  <2>4. DOMAIN q = 1..n /\ q = [i \in 1..n |-> q[i]]
    BY <2>1
  <2>5. n > 0 /\ Head(q) = q[1]
    BY <1>5, <2>1, <2>4, TailIs DEF q
  <2>6. q[1].countdown = l.waiting[1].countdown - 1 /\ 1 \in 1..n
    BY <2>1, <2>5
  <2>7. q[1].countdown = 0
    BY <1>5, <2>5 DEF q
  <2> QED BY <2>2, <2>3, <2>6, <2>7
<1>6. u.error = "Data Bus Collision" => s.error = "Data Bus Collision"
  BY <1>1, <1>3, <1>5
<1>7. Passes(l, m)
  <2> HIDE DEF u, l, m
  <2>1. CASE ready
    <3>1. m.out = Head(q).packet /\ m.left = Half /\ m.waiting = Tail(q)
      BY <1>3, <1>4, <2>1
    <3> QED BY <1>4, <2>1, <3>1, Zenon DEF Passes
  <2>2. CASE ~ready
    <3>1. m.waiting = q
      BY <1>3, <1>4, <2>2
    <3>2. ASSUME m.out # NoPacket
          PROVE  l.out # NoPacket /\ l.left # 1 /\ m.left = l.left - 1
      <4>1. l.out # NoPacket /\ l.left > 1 /\ m.left = l.left - 1
        BY <1>1, <1>3, <1>4, <2>2, <3>2
      <4>2. l.left \in 1..Half
        BY <4>1 DEF LaneOK, IsLane, l
      <4> QED BY <4>1, <4>2, HalfIs
    <3> QED BY <1>4, <2>2, <3>1, <3>2, Zenon DEF Passes
  <2> QED BY <2>1, <2>2
<1> QED BY <1>1, <1>3, <1>6, <1>7 DEF t

-----------------------------------------------------------------------------
(* The bursts move on, and a read that arrives adds one *)

(* A lane a cycle later, with the burst of the read that has arrived.        *)
Advances(s, u, i) ==
  /\ LaneOK(Lane(u, i))
  /\ \A x \in Starts(Lane(u, i)) :
       \/ x + 1 \in Starts(Lane(s, i))
       \/ IsRead(s.mc.cmd) /\ i = s.mc.cmd.rank /\ x = RL

NoCollision(s) == s.error # "Data Bus Collision"

(* The banks that may be used next are the ones of the cycle before.         *)
OpenAsBefore(s, u) ==
  \A r \in Ranks, b \in Banks :
    u.bank[r][b].state = "RowActive" /\ u.bank[r][b].countdown = 0 =>
      u.bank[r][b] = s.bank[r][b] /\ s.bank[r][b] \in Bank

LEMMA BusAdvances ==
  ASSUME NEW s, NEW u, BusFree(s, 1), NoCollision(u), u.mc.cmd = NoPacket,
         \A i \in Lanes : Advances(s, u, i), OpenAsBefore(s, u)
  PROVE  BusFree(u, 0)
<1> DEFINE p == s.mc.cmd
<1>1. \A i \in Lanes : Starts(Lane(u, i)) \subseteq Int
  BY StartsInt DEF Advances
<1>a. Half \in Int /\ RL \in Int /\ WL \in Int
  BY HalfIs
<1>2. \A i \in Lanes : \A x \in Starts(Lane(u, i)) :
        x + 1 \in Starts(Lane(s, i)) \/ (IsRead(p) /\ i = p.rank /\ x = RL)
  BY DEF Advances
<1>3. ~IsRead(u.mc.cmd)
  <2>1. ~IsRead(NoPacket)
    BY DEF NoPacket, IsRead
  <2> QED BY <2>1
<1>4. ASSUME NEW n \in Int, AllEndBy(s, n + 1) PROVE AllEndBy(u, n)
  <2> SUFFICES ASSUME NEW i \in Lanes, NEW x \in Starts(Lane(u, i)) PROVE x + Half <= n
    BY <1>3 DEF AllEndBy, EndBy
  <2>1. CASE x + 1 \in Starts(Lane(s, i))
    <3>1. (x + 1) + Half <= n + 1
      BY <1>4, <2>1 DEF AllEndBy, EndBy
    <3>2. x \in Int
      BY <1>1
    <3> QED BY <1>a, <3>1, <3>2
  <2>2. CASE IsRead(p) /\ x = RL
    <3>1. RL + 1 + Half <= n + 1
      BY <1>4, <2>2 DEF AllEndBy
    <3> QED BY <1>a, <2>2, <3>1
  <2> QED BY <1>2, <2>1, <2>2
<1>5. EndBy(u, RL + Half)
  <2> SUFFICES ASSUME NEW i \in Lanes, NEW x \in Starts(Lane(u, i)) PROVE x + Half <= RL + Half
    BY DEF EndBy
  <2>1. CASE x + 1 \in Starts(Lane(s, i))
    <3>1. (x + 1) + Half <= RL + Half
      BY <2>1 DEF BusFree, EndBy
    <3>2. x \in Int
      BY <1>1
    <3> QED BY <1>a, <3>1, <3>2
  <2>2. CASE x = RL
    BY <1>a, <2>2
  <2> QED BY <1>2, <2>1, <2>2
<1>6. ASSUME NEW i \in Lanes, IsRead(p), NEW x \in Starts(Lane(u, i)), x + 1 \in Starts(Lane(s, i))
      PROVE  x + Half <= RL
  <2>1. (x + 1) + Half <= RL + 1
    BY <1>6 DEF BusFree, EndBy
  <2>2. x \in Int
    BY <1>1, <1>6
  <2> QED BY <1>a, <2>1, <2>2
<1>7. ASSUME NEW i \in Lanes, NEW j \in Lanes, i # j PROVE Apart(Lane(u, i), Lane(u, j))
  <2> SUFFICES ASSUME NEW x \in Starts(Lane(u, i)), NEW y \in Starts(Lane(u, j))
               PROVE  x + Half <= y \/ y + Half <= x
    BY DEF Apart
  <2>1. CASE x + 1 \in Starts(Lane(s, i)) /\ y + 1 \in Starts(Lane(s, j))
    <3>1. (x + 1) + Half <= y + 1 \/ (y + 1) + Half <= x + 1
      BY <1>7, <2>1 DEF BusFree, Apart
    <3>2. x \in Int /\ y \in Int
      BY <1>1
    <3> QED BY <1>a, <3>1, <3>2
  <2>2. CASE x + 1 \in Starts(Lane(s, i)) /\ IsRead(p) /\ y = RL
    BY <1>6, <2>2
  <2>3. CASE y + 1 \in Starts(Lane(s, j)) /\ IsRead(p) /\ x = RL
    BY <1>6, <2>3
  <2>4. ~(i = p.rank /\ j = p.rank)
    BY <1>7
  <2> QED BY <1>2, <2>1, <2>2, <2>3, <2>4
<1>8. ASSUME NEW r \in Ranks, NEW b \in Banks, u.bank[r][b].state = "RowActive",
             u.bank[r][b].countdown = 0
      PROVE  /\ AllEndBy(u, u.bank[r][b].nextRead + RL + 1 + 0)
             /\ AllEndBy(u, u.bank[r][b].nextWrite + WL + 0)
  <2> DEFINE c == s.bank[r][b]
  <2>1. u.bank[r][b] = c /\ c \in Bank
    BY <1>8 DEF OpenAsBefore
  <2>2. c.nextRead \in Nat /\ c.nextWrite \in Nat
    BY <2>1 DEF Bank
  <2>3. AllEndBy(s, c.nextRead + RL + 1 + 1) /\ AllEndBy(s, c.nextWrite + WL + 1)
    BY <1>8, <2>1 DEF BusFree
  <2> HIDE DEF c
  <2> DEFINE x == c.nextRead + RL + 1
             y == c.nextWrite + WL
  <2>4. x \in Int /\ y \in Int /\ c.nextRead + RL + 1 + 0 = x /\ c.nextWrite + WL + 0 = y
    BY <1>a, <2>2
  <2>5. AllEndBy(s, x + 1) /\ AllEndBy(s, y + 1)
    BY <2>3
  <2> HIDE DEF x, y
  <2>6. AllEndBy(u, x) /\ AllEndBy(u, y)
    BY <1>4, <2>4, <2>5
  <2> QED BY <2>1, <2>4, <2>6 DEF c
<1> QED BY <1>3, <1>5, <1>7, <1>8 DEF BusFree, Advances, NoCollision

LEMMA BusMoved ==
  ASSUME NEW s, Between(s), BusFree(s, 1)
  PROVE  LET u == SendWriteData(DataBus(CommandBus(CountdownBanks(MovePending(UpdateRanks(s))))))
         IN  Middle(u) /\ BusFree(u, 0)
<1> DEFINE s1 == UpdateRanks(s)
           s2 == MovePending(s1)
           s3 == CountdownBanks(s2)
           s4 == CommandBus(s3)
           s5 == DataBus(s4)
           u == SendWriteData(s5)
           p == s.mc.cmd
<1>1. WellFormed(s) /\ \A i \in Lanes : LaneOK(Lane(s, i))
  BY DEF Between, BusFree
<1>2. /\ \A r \in Ranks : Passes(Lane(s, r), Lane(s1, r))
      /\ Lane(s1, NUM_RANKS) = Lane(s, NUM_RANKS) /\ s1.error = s.error
      /\ SameBanks(s, s1) /\ Between(s1)
  <2>1. SameBanks(s, s1) /\ WellFormed(s1)
    BY <1>1, RanksUpdated
  <2>2. Between(s1)
    BY <2>1, Framed
  <2> QED BY <1>1, <2>1, <2>2, UpdatedLanes
<1> HIDE DEF s1
<1>3. SameBus(s1, s2) /\ SameBanks(s1, s2) /\ Between(s2)
  <2>1. WellFormed(s1)
    BY <1>2 DEF Between
  <2>2. SameBanks(s1, s2) /\ WellFormed(s2)
    BY <2>1, PendingMoved
  <2>3. Between(s2)
    BY <1>2, <2>2, Framed
  <2> QED BY <2>1, <2>2, <2>3, PendingMovedBus
<1> HIDE DEF s2
<1>4. /\ SameBus(s2, s3) /\ s3.mc = s2.mc /\ Counted(s3)
      /\ \A r \in Ranks, b \in Banks :
           s3.bank[r][b].state = "RowActive" /\ s3.bank[r][b].countdown = 0
             => s3.bank[r][b] = s2.bank[r][b]
  BY <1>3, CountedBus, BanksCounted
<1> HIDE DEF s3
<1>5. s3.mc.cmd = p /\ WellFormed(s3) /\ CommandOK(s3) /\ s2.bank = s.bank
  BY <1>2, <1>3, <1>4 DEF SameBanks, Counted
<1>6. /\ s4.error = "Data Bus Collision" => s3.error = "Data Bus Collision"
      /\ s4.bank = s3.bank /\ Lane(s4, NUM_RANKS) = Lane(s3, NUM_RANKS)
      /\ \A r \in Ranks :
           /\ ~IsRead(p) \/ r # p.rank => Lane(s4, r) = Lane(s3, r)
           /\ IsRead(p) /\ r = p.rank =>
                /\ Lane(s4, r).out = Lane(s3, r).out /\ Lane(s4, r).left = Lane(s3, r).left
                /\ Joins(Lane(s3, r).waiting, Lane(s4, r).waiting, RL)
  <2> DEFINE cmd == s3.mc.cmd
  <2>1. /\ s4.error = "Data Bus Collision" => s3.error = "Data Bus Collision"
        /\ s4.bank = s3.bank /\ Lane(s4, NUM_RANKS) = Lane(s3, NUM_RANKS)
        /\ \A r \in Ranks :
             /\ ~IsRead(cmd) \/ r # cmd.rank => Lane(s4, r) = Lane(s3, r)
             /\ IsRead(cmd) /\ r = cmd.rank =>
                  /\ Lane(s4, r).out = Lane(s3, r).out /\ Lane(s4, r).left = Lane(s3, r).left
                  /\ Joins(Lane(s3, r).waiting, Lane(s4, r).waiting, RL)
    BY <1>5, CommandLanes
  <2>2. cmd = p
    BY <1>5
  <2> HIDE DEF s4, cmd, p
  <2> QED BY <2>1, <2>2
<1>7. Middle(s4)
  BY <1>4, CommandArrived
<1> HIDE DEF s4, p
<1>8. \A i \in Lanes : Lane(s3, i) = Lane(s1, i)
  BY <1>3, <1>4, SameLanes
<1>9. LaneOK(Lane(s4, NUM_RANKS)) /\ Lane(s4, NUM_RANKS) = Lane(s, NUM_RANKS)
  BY <1>1, <1>2, <1>6, <1>8, LaneIs
<1>10. /\ Passes(Lane(s4, NUM_RANKS), Lane(u, NUM_RANKS))
       /\ \A r \in Ranks : Lane(u, r) = Lane(s4, r)
       /\ u.error = "Data Bus Collision" => s4.error = "Data Bus Collision"
  BY <1>7, <1>9, ControllerPasses DEF Middle
<1>11. SameBanks(s4, s5) /\ SameBanks(s5, u) /\ Middle(u)
  <2>1. SameBanks(s4, s5) /\ WellFormed(s5)
    BY <1>7, DataArrived DEF Middle
  <2>2. Middle(s5)
    BY <1>7, <2>1, Framed
  <2> HIDE DEF s5
  <2>3. SameBanks(s5, u) /\ WellFormed(u)
    BY <2>1, WriteDataSent
  <2>4. Middle(u)
    BY <2>2, <2>3, Framed
  <2> QED BY <2>1, <2>3, <2>4
<1> HIDE DEF s5, u
<1>12. NoCollision(u) /\ u.mc.cmd = NoPacket
  <2>1. u.error = "Data Bus Collision" => s.error = "Data Bus Collision"
    BY <1>2, <1>3, <1>4, <1>6, <1>10 DEF SameBus
  <2>2. u.mc.cmd = NoPacket
    BY <1>11 DEF Middle
  <2> QED BY <2>1, <2>2 DEF BusFree, NoCollision
<1>13. OpenAsBefore(s, u)
  <2>1. u.bank = s3.bank /\ \A r \in Ranks, b \in Banks : s.bank[r][b] \in Bank
    BY <1>1, <1>6, <1>11 DEF SameBanks, WellFormed, IsState
  <2> QED BY <1>4, <1>5, <2>1 DEF OpenAsBefore
<1>14. Advances(s, u, NUM_RANKS)
  <2>1. LaneOK(Lane(u, NUM_RANKS)) /\ \A x \in Starts(Lane(u, NUM_RANKS)) :
                                         x + 1 \in Starts(Lane(s, NUM_RANKS))
    BY <1>9, <1>10, LanePasses
  <2> QED BY <2>1 DEF Advances
<1>15. ASSUME NEW r \in Ranks PROVE Advances(s, u, r)
  <2> DEFINE k == Lane(s, r)
             l == Lane(s1, r)
             m == Lane(u, r)
  <2>1. LaneOK(k) /\ Passes(k, l) /\ Lane(s3, r) = l /\ Lane(s4, r) = m /\ r \in Lanes
    BY <1>1, <1>2, <1>8, <1>10, LaneIs
  <2> HIDE DEF k, l, m
  <2>2. LaneOK(l) /\ \A x \in Starts(l) : x + 1 \in Starts(k)
    BY <2>1, LanePasses
  <2>3. CASE ~IsRead(p) \/ r # p.rank
    <3>1. m = l
      BY <1>6, <2>1, <2>3
    <3> QED BY <2>2, <3>1 DEF Advances, m, k
  <2>4. CASE IsRead(p) /\ r = p.rank
    <3>1. m.out = l.out /\ m.left = l.left /\ Joins(l.waiting, m.waiting, RL)
      BY <1>6, <2>1, <2>4
    <3>2. PICK n : m.waiting = Append(l.waiting, [packet |-> n, countdown |-> RL])
      BY <3>1 DEF Joins
    <3>3. \A x \in Starts(l) : x + Half <= RL
      <4> TAKE x \in Starts(l)
      <4>1. (x + 1) + Half <= RL + 1
        BY <2>1, <2>2, <2>4 DEF BusFree, EndBy, k, p
      <4>2. x \in Int
        BY <2>2, StartsInt
      <4> QED BY <4>1, <4>2, HalfIs
    <3>4. RL \in Nat \ {0}
      BY HalfIs
    <3>5. LaneOK(m) /\ \A x \in Starts(m) : x \in Starts(l) \/ x = RL
      BY <2>2, <3>1, <3>2, <3>3, <3>4, LaneJoined
    <3> QED BY <2>2, <2>4, <3>5 DEF Advances, m, k, p
  <2> QED BY <2>3, <2>4
<1>16. \A i \in Lanes : Advances(s, u, i)
  BY <1>14, <1>15, LaneIs
<1>17. BusFree(u, 0)
  BY <1>12, <1>13, <1>16, BusAdvances
<1> QED BY <1>11, <1>17 DEF u, s5, s4, s3, s2, s1

-----------------------------------------------------------------------------
(* The next command: its burst finds the bus free, and the table makes the   *)
(* later ones wait for it *)

LEMMA BusDelays ==
  /\ BurstGap >= Half /\ BL \div 2 + tRTRS >= Half
  /\ READ_TO_WRITE_DELAY >= Half + 2
  /\ WRITE_TO_READ_DELAY_B >= Half /\ WRITE_TO_READ_DELAY_R >= Half
  /\ tRCD - AL >= Half + 1
<1>1. /\ BL \div 2 = Half /\ Half \in Nat /\ tRTRS \in Nat /\ tWTR \in Nat /\ tCCD \in Nat
      /\ RL \in Nat /\ WL \in Nat /\ WL = RL - 1
  BY HalfIs, TimingAssumption DEF Half
<1>2. tRTRS >= 1 /\ tRCD - AL >= Half + 1
  BY BusAssumption
<1>3. BurstGap >= Half
  BY <1>1, Larger DEF BurstGap
<1> HIDE DEF Half, RL, WL
<1>4. READ_TO_WRITE_DELAY >= Half + 2
  BY <1>1, <1>2 DEF READ_TO_WRITE_DELAY
<1>5. WRITE_TO_READ_DELAY_B >= Half /\ WRITE_TO_READ_DELAY_R >= Half
  BY <1>1, <1>2 DEF WRITE_TO_READ_DELAY_B, WRITE_TO_READ_DELAY_R
<1> QED BY <1>1, <1>2, <1>3, <1>4, <1>5

(* What the table has of a bank that may be used next, before and after p.   *)
Later(p, c, d) ==
  /\ d.nextRead \in Nat /\ d.nextWrite \in Nat
  /\ \/ ~IsRead(p) /\ ~IsWrite(p) /\ d.nextRead >= Half + 1 /\ d.nextWrite >= Half + 1
     \/ /\ c.state = "RowActive" /\ c.countdown = 0
        /\ c.nextRead \in Nat /\ c.nextWrite \in Nat
        /\ c.nextRead <= d.nextRead /\ c.nextWrite <= d.nextWrite
        /\ IsRead(p) => d.nextRead >= Half /\ d.nextWrite >= Half + 2
        /\ IsWrite(p) => d.nextRead >= Half /\ d.nextWrite >= Half

LEMMA ReadLater ==
  ASSUME NEW table, NEW p, IsRead(p), NEW r \in Ranks, NEW b \in Banks, table[r][b] \in Bank,
         NEW d, d = AfterRead(table, p)[r][b], d.state = "RowActive", d.countdown = 0
  PROVE  Later(p, table[r][b], d)
<1> DEFINE c == table[r][b]
           nr == larger(c.nextRead, BurstGap)
           nw == larger(c.nextWrite, READ_TO_WRITE_DELAY)
           ar == larger(c.nextRead, BL \div 2 + tRTRS)
<1>1. /\ c \in Bank /\ c.nextRead \in Nat /\ c.nextWrite \in Nat
      /\ nr \in Nat /\ nr >= Half /\ c.nextRead <= nr
      /\ nw \in Nat /\ nw >= Half + 2 /\ c.nextWrite <= nw
      /\ ar \in Nat /\ ar >= Half /\ c.nextRead <= ar
  <2>1. c.nextRead \in Nat /\ c.nextWrite \in Nat
    BY DEF Bank
  <2>2. /\ nr \in Nat /\ nr >= BurstGap /\ c.nextRead <= nr
        /\ nw \in Nat /\ nw >= READ_TO_WRITE_DELAY /\ c.nextWrite <= nw
        /\ ar \in Nat /\ ar >= BL \div 2 + tRTRS /\ c.nextRead <= ar
    BY <2>1, Larger, Delays
  <2> HIDE DEF nr, nw, ar, c
  <2> QED BY <2>1, <2>2, BusDelays, Delays, HalfIs DEF c
<1>2. ~IsWrite(p)
  BY ReadIs
<1>3. CASE r = p.rank /\ b = p.bank /\ p.type = "READ_P"
  <2>1. d.countdown = READ_TO_PRE_DELAY
    BY <1>3, AfterReadBank
  <2> QED BY <2>1, Delays
<1>4. CASE r = p.rank /\ ~(b = p.bank /\ p.type = "READ_P")
  <2>1. /\ d.state = c.state /\ d.countdown = c.countdown
        /\ d.nextRead = nr /\ d.nextWrite = nw
    BY <1>4, AfterReadBank
  <2> HIDE DEF c, nr, nw, ar
  <2> QED BY <1>1, <1>2, <2>1 DEF Later, c
<1>5. CASE r # p.rank
  <2>1. d.state = c.state /\ d.countdown = c.countdown
    BY <1>5, AfterReadBank
  <2>2. d = [c EXCEPT !.nextRead = ar, !.nextWrite = nw]
    BY <1>5, <2>1, Zenon DEF AfterRead
  <2> HIDE DEF c, nr, nw, ar
  <2>3. d.nextRead = ar /\ d.nextWrite = nw
    BY <1>1, <2>2 DEF Bank
  <2> QED BY <1>1, <1>2, <2>1, <2>3 DEF Later, c
<1> QED BY <1>3, <1>4, <1>5

LEMMA WriteLater ==
  ASSUME NEW table, NEW p, IsWrite(p), NEW r \in Ranks, NEW b \in Banks, table[r][b] \in Bank,
         NEW d, d = AfterWrite(table, p)[r][b], d.state = "RowActive", d.countdown = 0
  PROVE  Later(p, table[r][b], d)
<1> DEFINE c == table[r][b]
           nw == larger(c.nextWrite, BurstGap)
           nr == larger(c.nextRead, WRITE_TO_READ_DELAY_B)
           aw == larger(c.nextWrite, BL \div 2 + tRTRS)
           ar == larger(c.nextRead, WRITE_TO_READ_DELAY_R)
<1>1. /\ c \in Bank /\ c.nextRead \in Nat /\ c.nextWrite \in Nat
      /\ nr \in Nat /\ nr >= Half /\ c.nextRead <= nr
      /\ nw \in Nat /\ nw >= Half /\ c.nextWrite <= nw
      /\ ar \in Nat /\ ar >= Half /\ c.nextRead <= ar
      /\ aw \in Nat /\ aw >= Half /\ c.nextWrite <= aw
  <2>1. c.nextRead \in Nat /\ c.nextWrite \in Nat
    BY DEF Bank
  <2>2. /\ nr \in Nat /\ nr >= WRITE_TO_READ_DELAY_B /\ c.nextRead <= nr
        /\ nw \in Nat /\ nw >= BurstGap /\ c.nextWrite <= nw
        /\ ar \in Nat /\ ar >= WRITE_TO_READ_DELAY_R /\ c.nextRead <= ar
        /\ aw \in Nat /\ aw >= BL \div 2 + tRTRS /\ c.nextWrite <= aw
    BY <2>1, Larger, Delays
  <2> HIDE DEF nr, nw, ar, aw, c
  <2> QED BY <2>1, <2>2, BusDelays, Delays, HalfIs DEF c
<1>2. ~IsRead(p)
  BY WriteIs
<1>3. CASE r = p.rank /\ b = p.bank /\ p.type = "WRITE_P"
  <2>1. d.countdown = WRITE_TO_PRE_DELAY
    BY <1>3, AfterWriteBank
  <2> QED BY <2>1, Delays
<1>4. CASE r = p.rank /\ ~(b = p.bank /\ p.type = "WRITE_P")
  <2>1. /\ d.state = c.state /\ d.countdown = c.countdown
        /\ d.nextRead = nr /\ d.nextWrite = nw
    BY <1>4, AfterWriteBank
  <2> HIDE DEF c, nr, nw, ar, aw
  <2> QED BY <1>1, <1>2, <2>1 DEF Later, c
<1>5. CASE r # p.rank
  <2>1. d.state = c.state /\ d.countdown = c.countdown
    BY <1>5, AfterWriteBank
  <2>2. d = [c EXCEPT !.nextWrite = aw, !.nextRead = ar]
    BY <1>5, <2>1, Zenon DEF AfterWrite
  <2> HIDE DEF c, nr, nw, ar, aw
  <2>3. d.nextRead = ar /\ d.nextWrite = aw
    BY <1>1, <2>2 DEF Bank
  <2> QED BY <1>1, <1>2, <2>1, <2>3 DEF Later, c
<1> QED BY <1>3, <1>4, <1>5

(* A bank that the command has left open.                                    *)
LEMMA WaitsLater ==
  ASSUME NEW p, ~IsRead(p), ~IsWrite(p), NEW c \in Bank, NEW d \in Bank,
         d.state = "RowActive", d.countdown = 0, d.state = c.state, d.countdown = c.countdown,
         c.nextRead <= d.nextRead, c.nextWrite <= d.nextWrite
  PROVE  Later(p, c, d)
<1>1. /\ c.nextRead \in Nat /\ c.nextWrite \in Nat /\ d.nextRead \in Nat /\ d.nextWrite \in Nat
  BY DEF Bank
<1> QED BY <1>1 DEF Later

LEMMA CommandLater ==
  ASSUME NEW table, IsTable(table), NEW p, Sendable(table, p), NEW new,
         new = AfterCommand(table, p), Follows(table, new, p),
         NEW r \in Ranks, NEW b \in Banks, NEW d, d = new[r][b],
         d.state = "RowActive", d.countdown = 0
  PROVE  Later(p, table[r][b], d)
<1> DEFINE c == table[r][b]
<1>1. p \in Packet /\ p.rank \in Ranks /\ p.bank \in Banks /\ c \in Bank /\ d \in Bank
  BY DEF Sendable, Packet, IsTable, Follows
<1>2. CASE IsRead(p)
  <2>1. new = AfterRead(table, p)
    BY <1>2, ReadIs, Zenon DEF AfterCommand
  <2> QED BY <1>1, <1>2, <2>1, ReadLater
<1>3. CASE IsWrite(p)
  <2>1. new = AfterWrite(table, p)
    BY <1>3, WriteIs, Zenon DEF AfterCommand
  <2> QED BY <1>1, <1>3, <2>1, WriteLater
<1>4. CASE ~IsRead(p) /\ ~IsWrite(p) /\ r # p.rank
  <2>1. /\ d.state = c.state /\ d.countdown = c.countdown
        /\ c.nextRead <= d.nextRead /\ c.nextWrite <= d.nextWrite
    BY <1>4, Zenon DEF Follows, Waits
  <2> HIDE DEF c
  <2>2. Later(p, c, d)
    BY <1>1, <1>4, <2>1, WaitsLater
  <2> QED BY <2>2 DEF c
<1>5. CASE r = p.rank /\ p.type = "ACTIVATE"
  <2>1. new = AfterActivate(table, p) /\ ~IsRead(p) /\ ~IsWrite(p)
    BY <1>5, ActivateIs, Zenon DEF AfterCommand
  <2>2. /\ d.countdown = c.countdown
        /\ b = p.bank => /\ d.nextRead = larger(c.nextRead, tRCD - AL)
                         /\ d.nextWrite = larger(c.nextWrite, tRCD - AL)
        /\ b # p.bank => /\ d.state = c.state
                         /\ d.nextRead = c.nextRead /\ d.nextWrite = c.nextWrite
    BY <1>1, <1>5, <2>1, AfterActivateBank
  <2>3. c.nextRead \in Nat /\ c.nextWrite \in Nat
    BY <1>1 DEF Bank
  <2> HIDE DEF c
  <2>4. CASE b = p.bank
    <3> DEFINE n == tRCD - AL
    <3>1. n \in Nat /\ n >= Half + 1
      BY BusDelays, Delays
    <3> HIDE DEF n
    <3>2. d.nextRead = larger(c.nextRead, n) /\ d.nextWrite = larger(c.nextWrite, n)
      BY <2>2, <2>4 DEF n
    <3>3. /\ d.nextRead \in Nat /\ d.nextRead >= n
          /\ d.nextWrite \in Nat /\ d.nextWrite >= n
      BY <2>3, <3>1, <3>2, Larger
    <3>4. d.nextRead >= Half + 1 /\ d.nextWrite >= Half + 1
      BY <3>1, <3>3, HalfIs
    <3> QED BY <2>1, <3>3, <3>4 DEF Later
  <2>5. CASE b # p.bank
    <3>1. /\ d.state = c.state /\ d.countdown = c.countdown
          /\ c.nextRead <= d.nextRead /\ c.nextWrite <= d.nextWrite
      BY <2>2, <2>3, <2>5
    <3>2. Later(p, c, d)
      BY <1>1, <2>1, <3>1, WaitsLater
    <3> QED BY <3>2 DEF c
  <2> QED BY <2>4, <2>5
<1>6. CASE r = p.rank /\ p.type = "PRECHARGE"
  <2>1. new = AfterPrecharge(table, p) /\ ~IsRead(p) /\ ~IsWrite(p)
    BY <1>6, PrechargeIs, Zenon DEF AfterCommand
  <2>2. (b = p.bank => d.state = "Precharging") /\ (b # p.bank => d = c)
    BY <1>1, <1>6, <2>1, AfterPrechargeBank
  <2>3. d = c
    BY <2>2
  <2>4. c.nextRead <= c.nextRead /\ c.nextWrite <= c.nextWrite
    BY <1>1 DEF Bank
  <2> HIDE DEF c
  <2>5. Later(p, c, d)
    BY <1>1, <2>1, <2>3, <2>4, WaitsLater
  <2> QED BY <2>5 DEF c
<1>7. CASE r = p.rank /\ p.type = "REFRESH"
  <2>1. new = AfterRefresh(table, p)
    BY <1>7, RefreshIs, Zenon DEF AfterCommand
  <2>2. d.state = "Refreshing"
    <3>1. table[p.rank][b] \in Bank
      BY <1>1 DEF IsTable
    <3>2. AfterRefresh(table, p)[p.rank][b].state = "Refreshing"
      <4> DEFINE banks == table[p.rank]
      <4>1. banks[b] \in Bank
        BY <1>7, <3>1
      <4>2. p \in Packet /\ p.type = "REFRESH"
        BY <1>1, <1>7
      <4> HIDE DEF banks
      <4> QED BY <4>1, <4>2, RefreshFields
    <3> QED BY <1>7, <2>1, <3>2
  <2> QED BY <2>2
<1>8. p.type \in Commands
  BY <1>1 DEF Packet
<1> QED BY <1>2, <1>3, <1>4, <1>5, <1>6, <1>7, <1>8 DEF Commands, IsRead, IsWrite

(* A lane when the command p has left the queue.                             *)
Enters(s, u, p, i) ==
  /\ LaneOK(Lane(u, i))
  /\ \A x \in Starts(Lane(u, i)) :
       x \in Starts(Lane(s, i)) \/ (IsWrite(p) /\ i = NUM_RANKS /\ x = WL)

OpenLater(s, u, p) ==
  \A r \in Ranks, b \in Banks :
    u.bank[r][b].state = "RowActive" /\ u.bank[r][b].countdown = 0 =>
      Later(p, s.bank[r][b], u.bank[r][b])

LEMMA BusEnters ==
  ASSUME NEW s, NEW u, NEW p, BusFree(s, 0), NoCollision(u), u.mc.cmd = p,
         \A i \in Lanes : Enters(s, u, p, i), OpenLater(s, u, p),
         IsRead(p) => EndBy(s, RL + 1), IsWrite(p) => EndBy(s, WL)
  PROVE  BusFree(u, 0)
<1>1. \A i \in Lanes : Starts(Lane(u, i)) \subseteq Int
  BY StartsInt DEF Enters
<1>a. Half \in Int /\ RL \in Int /\ WL \in Int /\ WL = RL - 1
  BY HalfIs
<1>2. \A i \in Lanes : \A x \in Starts(Lane(u, i)) :
        x \in Starts(Lane(s, i)) \/ (IsWrite(p) /\ i = NUM_RANKS /\ x = WL)
  BY DEF Enters
<1>3. ASSUME NEW n \in Int, EndBy(s, n), IsWrite(p) => WL + Half <= n PROVE EndBy(u, n)
  <2> SUFFICES ASSUME NEW i \in Lanes, NEW x \in Starts(Lane(u, i)) PROVE x + Half <= n
    BY DEF EndBy
  <2>1. CASE x \in Starts(Lane(s, i))
    BY <1>3, <2>1 DEF EndBy
  <2>2. CASE IsWrite(p) /\ x = WL
    BY <1>3, <2>2
  <2> QED BY <1>2, <2>1, <2>2
<1>4. EndBy(u, RL + Half)
  <2>1. EndBy(s, RL + Half)
    BY DEF BusFree
  <2>2. RL + Half \in Int /\ WL + Half <= RL + Half
    BY <1>a
  <2> QED BY <1>3, <2>1, <2>2
<1>5. IsRead(p) => EndBy(u, RL + 1)
  <2>1. IsRead(p) => ~IsWrite(p)
    BY ReadIs
  <2>2. RL + 1 \in Int
    BY <1>a
  <2> QED BY <1>3, <2>1, <2>2
<1>6. ASSUME NEW i \in Lanes, NEW j \in Lanes, i # j PROVE Apart(Lane(u, i), Lane(u, j))
  <2> SUFFICES ASSUME NEW x \in Starts(Lane(u, i)), NEW y \in Starts(Lane(u, j))
               PROVE  x + Half <= y \/ y + Half <= x
    BY DEF Apart
  <2>1. CASE x \in Starts(Lane(s, i)) /\ y \in Starts(Lane(s, j))
    BY <1>6, <2>1 DEF BusFree, Apart
  <2>2. CASE x \in Starts(Lane(s, i)) /\ IsWrite(p) /\ y = WL
    BY <2>2 DEF EndBy
  <2>3. CASE y \in Starts(Lane(s, j)) /\ IsWrite(p) /\ x = WL
    BY <2>3 DEF EndBy
  <2>4. ~(i = NUM_RANKS /\ j = NUM_RANKS)
    BY <1>6
  <2> QED BY <1>2, <2>1, <2>2, <2>3, <2>4
<1>7. ASSUME NEW r \in Ranks, NEW b \in Banks, u.bank[r][b].state = "RowActive",
             u.bank[r][b].countdown = 0
      PROVE  /\ AllEndBy(u, u.bank[r][b].nextRead + RL + 1 + 0)
             /\ AllEndBy(u, u.bank[r][b].nextWrite + WL + 0)
  <2> DEFINE c == s.bank[r][b]
             d == u.bank[r][b]
             x == d.nextRead + RL + 1 + 0
             y == d.nextWrite + WL + 0
  <2>1. Later(p, c, d)
    BY <1>7 DEF OpenLater
  <2>2. c.state = "RowActive" /\ c.countdown = 0 =>
          EndBy(s, c.nextRead + RL + 1 + 0) /\ EndBy(s, c.nextWrite + WL + 0)
    BY DEF BusFree, AllEndBy
  <2> HIDE DEF c, d
  <2>3. d.nextRead \in Nat /\ d.nextWrite \in Nat /\ x \in Int /\ y \in Int
    BY <1>a, <2>1 DEF Later
  <2>4. EndBy(s, x) /\ EndBy(s, y)
    <3> SUFFICES ASSUME NEW i \in Lanes, NEW z \in Starts(Lane(s, i))
                 PROVE  z + Half <= x /\ z + Half <= y
      BY DEF EndBy
    <3>1. z \in Int
      BY StartsInt DEF BusFree
    <3>2. CASE d.nextRead >= Half + 1 /\ d.nextWrite >= Half + 1
      <4>1. z + Half <= RL + Half
        BY DEF BusFree, EndBy
      <4> QED BY <1>a, <2>3, <3>1, <3>2, <4>1
    <3>3. CASE /\ c.state = "RowActive" /\ c.countdown = 0
               /\ c.nextRead \in Nat /\ c.nextWrite \in Nat
               /\ c.nextRead <= d.nextRead /\ c.nextWrite <= d.nextWrite
      <4>1. z + Half <= c.nextRead + RL + 1 + 0 /\ z + Half <= c.nextWrite + WL + 0
        BY <2>2, <3>3 DEF EndBy
      <4>2. c.nextRead \in Nat /\ c.nextWrite \in Nat
               /\ c.nextRead <= d.nextRead /\ c.nextWrite <= d.nextWrite
        BY <3>3
      <4> QED BY <1>a, <2>3, <3>1, <4>1, <4>2
    <3> QED BY <2>1, <3>2, <3>3 DEF Later
  <2>5. IsWrite(p) => WL + Half <= x /\ WL + Half <= y
    <3>1. IsWrite(p) => d.nextRead >= Half /\ d.nextWrite >= Half
      BY <2>1 DEF Later
    <3> QED BY <1>a, <2>3, <3>1
  <2>6. IsRead(p) => RL + 1 + Half <= x /\ RL + 1 + Half <= y
    <3>1. IsRead(p) => d.nextRead >= Half /\ d.nextWrite >= Half + 2
      BY <2>1 DEF Later
    <3> QED BY <1>a, <2>3, <3>1
  <2> HIDE DEF x, y
  <2>7. EndBy(u, x) /\ EndBy(u, y)
    BY <1>3, <2>3, <2>4, <2>5
  <2>8. AllEndBy(u, x) /\ AllEndBy(u, y)
    BY <2>6, <2>7 DEF AllEndBy
  <2> QED BY <2>8 DEF x, y, d
<1> QED BY <1>4, <1>5, <1>6, <1>7 DEF BusFree, Enters, NoCollision

LEMMA OpenNow ==
  ASSUME NEW c, NEW k, Covers(c, k, 0), c.state = "RowActive", c.nextRead = 0 \/ c.nextWrite = 0
  PROVE  c.countdown = 0
<1>1. c.countdown \in Nat /\ (Open(c, k) \/ Closing(c, k, 0))
  BY DEF Covers, Bank
<1>2. CASE Open(c, k)
  BY <1>2 DEF Open
<1>3. CASE Closing(c, k, 0)
  BY <1>1, <1>3 DEF Closing
<1> QED BY <1>1, <1>2, <1>3

LEMMA IssuedBus ==
  ASSUME NEW s, Middle(s), BusFree(s, 0)
  PROVE  BusFree(IssueCommand(s), 0)
<1> DEFINE popped == pop(ini, s.queue, s.bank)
           p == popped.packet
           q == popped.queue
           u == IssueCommand(s)
           old == s.mc
<1>1. /\ IsState(s) /\ s.mc.cmd = NoPacket /\ IsTable(s.bank) /\ QueueOK(s.queue)
      /\ IsController(old)
      /\ \A r \in Ranks : Covered(s, r, s.ranks[r].bankStates, 0) /\ IsRank(s.ranks[r])
  BY DEF Middle, WellFormed, IsState, Typed, IsTable
<1>2. p = NoPacket \/ Sendable(s.bank, p)
  BY <1>1, PopGood DEF GoodTry
<1>3. CASE p = NoPacket
  <2>1. u = [s EXCEPT !.queue = q]
    BY <1>3, Zenon DEF IssueCommand
  <2> HIDE DEF u, q
  <2>2. u.bank = s.bank /\ u.ranks = s.ranks /\ u.mc = s.mc /\ u.error = s.error
    BY <1>1, <2>1 DEF IsState
  <2>3. SameBanks(s, u) /\ SameBus(s, u)
    BY <2>2 DEF SameBanks, SameBus
  <2> QED BY <2>3, BusStays DEF u
<1>4. CASE p # NoPacket
  <2> DEFINE new == AfterCommand(s.bank, p)
             k == [p EXCEPT !.type = "DATA"]
             data == [packet |-> k, countdown |-> WL]
             wd == IF IsWrite(p) THEN Append(s.mc.writeData, data) ELSE s.mc.writeData
             one == tCMD
             m == [old EXCEPT !.cmd = p, !.cmdCyclesLeft = one, !.writeData = wd]
             here == s.bank[p.rank][p.bank]
  <2>1. Sendable(s.bank, p) /\ p \in Packet /\ p.rank \in Ranks /\ p.bank \in Banks
    BY <1>2, <1>4 DEF Sendable, Packet
  <2>2. u = [s EXCEPT !.queue = q, !.bank = new, !.mc = m]
    BY <1>1, <1>4, Zenon DEF IssueCommand, Check
  <2>3. Follows(s.bank, new, p)
    <3>1. /\ s.mc.powerDown[p.rank] \in BOOLEAN
          /\ \A a \in Banks :
               /\ Covers(s.bank[p.rank][a], s.ranks[p.rank].bankStates[a], 0)
               /\ s.bank[p.rank][a].state = "PowerDown" <=> s.mc.powerDown[p.rank]
      BY <1>1, <2>1 DEF Covered, RankCovered
    <3> QED BY <1>1, <2>1, <3>1, CommandHanded
  <2>4. ASSUME here.state = "RowActive", here.nextRead = 0 \/ here.nextWrite = 0
        PROVE  here.countdown = 0
    <3>1. Covers(here, s.ranks[p.rank].bankStates[p.bank], 0)
      BY <1>1, <2>1 DEF Covered, RankCovered
    <3> HIDE DEF here
    <3> QED BY <2>4, <3>1, OpenNow
  <2>5. IsRead(p) => EndBy(s, RL + 1)
    <3> SUFFICES ASSUME IsRead(p) PROVE EndBy(s, RL + 1)
      OBVIOUS
    <3>1. here.state = "RowActive" /\ here.nextRead = 0
      BY <2>1, ReadIs DEF Sendable
    <3>2. EndBy(s, here.nextRead + RL + 1 + 0)
      BY <2>1, <2>4, <3>1 DEF BusFree, AllEndBy
    <3>3. 0 + RL + 1 + 0 = RL + 1
      BY HalfIs
    <3> HIDE DEF here
    <3> QED BY <3>1, <3>2, <3>3
  <2>6. IsWrite(p) => EndBy(s, WL)
    <3> SUFFICES ASSUME IsWrite(p) PROVE EndBy(s, WL)
      OBVIOUS
    <3>1. here.state = "RowActive" /\ here.nextWrite = 0
      BY <2>1, WriteIs DEF Sendable
    <3>2. EndBy(s, here.nextWrite + WL + 0)
      BY <2>1, <2>4, <3>1 DEF BusFree, AllEndBy
    <3>3. 0 + WL + 0 = WL
      BY HalfIs
    <3> HIDE DEF here
    <3> QED BY <3>1, <3>2, <3>3
  <2> HIDE DEF popped, p, q, u, old, new, k, wd, one, here
  <2>7. m.cmd = p /\ m.data = old.data /\ m.dataCyclesLeft = old.dataCyclesLeft /\ m.writeData = wd
    BY <1>1 DEF IsController
  <2> HIDE DEF m
  <2>8. u.bank = new /\ u.ranks = s.ranks /\ u.mc = m /\ u.error = s.error
    BY <1>1, <2>2 DEF IsState
  <2>9. NoCollision(u) /\ u.mc.cmd = p
    BY <2>7, <2>8 DEF BusFree, NoCollision
  <2>10. OpenLater(s, u, p)
    <3> SUFFICES ASSUME NEW r \in Ranks, NEW b \in Banks, new[r][b].state = "RowActive",
                        new[r][b].countdown = 0
                 PROVE  Later(p, s.bank[r][b], new[r][b])
      BY <2>8 DEF OpenLater
    <3>1. new = AfterCommand(s.bank, p)
      BY DEF new
    <3> QED BY <1>1, <2>1, <2>3, <3>1, CommandLater
  <2>11. ASSUME NEW r \in Ranks PROVE Enters(s, u, p, r)
    <3>1. Lane(u, r) = Lane(s, r) /\ LaneOK(Lane(s, r))
      BY <2>8, LaneIs DEF BusFree
    <3> QED BY <3>1 DEF Enters
  <2>12. Enters(s, u, p, NUM_RANKS)
    <3> DEFINE l == Lane(s, NUM_RANKS)
               n == Lane(u, NUM_RANKS)
    <3>1. LaneOK(l) /\ NUM_RANKS \in Lanes
      BY LaneIs DEF BusFree
    <3>2. n.out = l.out /\ n.left = l.left /\ l.waiting = s.mc.writeData /\ n.waiting = wd
          /\ l = [out |-> l.out, left |-> l.left, waiting |-> l.waiting]
          /\ n = [out |-> n.out, left |-> n.left, waiting |-> n.waiting]
      BY <2>7, <2>8, LaneIs DEF old
    <3>3. CASE IsWrite(p)
      <4>1. n.waiting = Append(l.waiting, [packet |-> k, countdown |-> WL])
        BY <3>2, <3>3 DEF wd
      <4>2. WL \in Nat \ {0} /\ \A x \in Starts(l) : x + Half <= WL
        BY <2>6, <3>1, <3>3, HalfIs DEF EndBy
      <4> HIDE DEF l, n
      <4>3. LaneOK(n) /\ \A x \in Starts(n) : x \in Starts(l) \/ x = WL
        BY <3>1, <3>2, <4>1, <4>2, LaneJoined
      <4> QED BY <3>3, <4>3 DEF Enters, l, n
    <3>4. CASE ~IsWrite(p)
      <4>1. n.waiting = l.waiting
        BY <3>2, <3>4 DEF wd
      <4> HIDE DEF l, n
      <4>2. n = l
        BY <3>2, <4>1
      <4> QED BY <3>1, <4>2 DEF Enters, l, n
    <3> QED BY <3>3, <3>4
  <2>13. \A i \in Lanes : Enters(s, u, p, i)
    BY <2>11, <2>12, LaneIs
  <2>14. BusFree(u, 0)
    BY <2>5, <2>6, <2>9, <2>10, <2>13, BusEnters
  <2> QED BY <2>14 DEF u
<1> QED BY <1>3, <1>4

-----------------------------------------------------------------------------
(* A cycle, and the clients *)

LEMMA UpdatedBus ==
  ASSUME NEW s, Between(s), BusFree(s, 1)
  PROVE  BusFree(update(s), 1)
<1> DEFINE s1 == SendWriteData(DataBus(CommandBus(CountdownBanks(MovePending(UpdateRanks(s))))))
           s2 == RefreshDue(s1)
           s3 == IssueCommand(s2)
           s4 == ScheduleTransaction(s3)
           s5 == Power(s4)
           s6 == ReturnRead(s5)
<1>1. Middle(s1) /\ BusFree(s1, 0)
  BY BusMoved
<1> HIDE DEF s1
<1>2. Middle(s2) /\ BusFree(s2, 0)
  <2>1. WellFormed(s1)
    BY <1>1 DEF Middle
  <2>2. SameBanks(s1, s2) /\ WellFormed(s2) /\ SameBus(s1, s2)
    BY <2>1, RefreshDued, RefreshDuedBus
  <2> HIDE DEF s2
  <2> QED BY <1>1, <2>2, Framed, BusStays
<1> HIDE DEF s2
<1>3. Issued(s3) /\ BusFree(s3, 0)
  BY <1>2, CommandIssued, IssuedBus
<1> HIDE DEF s3
<1>4. Issued(s4) /\ BusFree(s4, 0)
  <2>1. WellFormed(s3)
    BY <1>3 DEF Issued
  <2>2. SameBanks(s3, s4) /\ WellFormed(s4) /\ SameBus(s3, s4)
    BY <2>1, TransactionScheduled, ScheduledBus
  <2> HIDE DEF s4
  <2> QED BY <1>3, <2>2, Framed, BusStays
<1> HIDE DEF s4
<1>5. Issued(s5) /\ BusFree(s5, 0)
  <2>1. WellFormed(s4)
    BY <1>4 DEF Issued
  <2> QED BY <1>4, <2>1, Powered, PoweredBus
<1> HIDE DEF s5
<1>6. WellFormed(s6) /\ BusFree(s6, 0)
  <2>1. WellFormed(s5)
    BY <1>5 DEF Issued
  <2>2. SameBanks(s5, s6) /\ WellFormed(s6) /\ SameBus(s5, s6)
    BY <2>1, ReadReturned, ReturnedBus
  <2> HIDE DEF s6
  <2> QED BY <1>5, <2>2, BusStays
<1> HIDE DEF s6
<1>7. BusFree(StepClocks(s6), 1)
  BY <1>6, SteppedBus
<1>8. update(s) = StepClocks(s6)
  BY Zenon DEF update, ControllerUpdate, s6, s5, s4, s3, s2, s1
<1> QED BY <1>7, <1>8

LEMMA OfferKeepsBus ==
  ASSUME NEW s, Between(s), BusFree(s, 1), NEW t \in Transactions
  PROVE  BusFree(addTransaction(s, t), 1)
BY OfferedBus, AddTransaction, BusStays DEF Between

LEMMA DeferralKeepsBus ==
  ASSUME NEW s, Between(s), BusFree(s, 1), NEW x
  PROVE  BusFree([s EXCEPT !.pending = x], 1)
<1> DEFINE u == [s EXCEPT !.pending = x]
<1>1. IsState(s)
  BY DEF Between, WellFormed
<1>2. SameBus(s, u)
  BY <1>1, DeferredBus
<1>3. SameBanks(s, u)
  BY <1>1 DEF IsState, SameBanks
<1> HIDE DEF u
<1>4. BusFree(u, 1)
  BY <1>2, <1>3, BusStays
<1> QED BY <1>4 DEF u

LEMMA NextBus ==
  ASSUME NEW x, Between(x), BusFree(x, 1), Becomes(x)
  PROVE  BusInv'
<1>1. x = [bank |-> x.bank, queue |-> x.queue, ranks |-> x.ranks, mc |-> x.mc,
           pending |-> x.pending, accepted |-> x.accepted, store |-> x.store,
           done |-> x.done, stale |-> x.stale, error |-> x.error]
  BY DEF Between, WellFormed, IsState
<1>2. State' = [bank |-> x.bank, queue |-> x.queue, ranks |-> x.ranks, mc |-> x.mc,
                pending |-> x.pending, accepted |-> x.accepted, store |-> x.store,
                done |-> x.done, stale |-> x.stale, error |-> x.error]
  BY DEF Becomes, State
<1>3. State' = x
  BY <1>1, <1>2, Zenon
<1> QED BY <1>3 DEF BusInv

LEMMA LineOfferedBus ==
  ASSUME Between(State), BusInv, NEW t \in Transactions, OfferAndUpdate(t)
  PROVE  BusInv'
<1>1. Between(addTransaction(State, t)) /\ BusFree(addTransaction(State, t), 1)
  BY Offered, OfferKeepsBus DEF BusInv
<1>2. Between(update(addTransaction(State, t))) /\ BusFree(update(addTransaction(State, t)), 1)
  BY <1>1, Updated, UpdatedBus
<1> QED BY <1>2, NextBus DEF OfferAndUpdate

LEMMA LineWaitsBus ==
  ASSUME Between(State), BusInv, NEW t, WaitAndUpdate(t)
  PROVE  BusInv'
<1>1. Between(update(State)) /\ BusFree(update(State), 1)
  BY Updated, UpdatedBus DEF BusInv
<1> QED BY <1>1, NextBus DEF WaitAndUpdate

LEMMA InitBus == Init => BusInv
<1> SUFFICES ASSUME Init PROVE BusFree(State, 1)
  BY DEF BusInv
<1>1. /\ State.mc = mc /\ mc.cmd = NoPacket /\ mc.data = NoPacket /\ mc.writeData = <<>>
      /\ State.error = "none"
      /\ \A r \in Ranks : State.ranks[r] = NewRank
      /\ \A r \in Ranks, b \in Banks : State.bank[r][b] = NewBankState
  BY DEF State, Init
<1>2. NewRank.outgoingDataPacket = NoPacket /\ NewRank.readReturn = <<>>
  BY DEF NewRank
<1>3. \A i \in Lanes : Lane(State, i).out = NoPacket /\ Lane(State, i).waiting = <<>>
  <2>1. Lane(State, NUM_RANKS).out = NoPacket /\ Lane(State, NUM_RANKS).waiting = <<>>
    <3>1. State.mc.data = NoPacket /\ State.mc.writeData = <<>>
      BY <1>1
    <3> QED BY <3>1, LaneIs
  <2>2. ASSUME NEW r \in Ranks
        PROVE  Lane(State, r).out = NoPacket /\ Lane(State, r).waiting = <<>>
    <3>1. State.ranks[r].outgoingDataPacket = NoPacket /\ State.ranks[r].readReturn = <<>>
      BY <1>1, <1>2
    <3>2. Lane(State, r) = [out |-> State.ranks[r].outgoingDataPacket,
                            left |-> State.ranks[r].dataCyclesLeft,
                            waiting |-> State.ranks[r].readReturn]
      BY LaneIs, Zenon
    <3> QED BY <3>1, <3>2
  <2> QED BY <2>1, <2>2, LaneIs
<1>4. ASSUME NEW l, l.out = NoPacket, l.waiting = <<>>
      PROVE  LaneOK(l) /\ Starts(l) = {}
  <2>1. Len(l.waiting) = 0 /\ DOMAIN l.waiting = {} /\ 1..0 = {}
    BY <1>4
  <2>2. l.waiting = [i \in 1..0 |-> [packet |-> l.waiting[i].packet,
                                     countdown |-> l.waiting[i].countdown]]
    BY <1>4
  <2>3. IsLane(l)
    BY <1>4, <2>1, <2>2 DEF IsLane
  <2> QED BY <1>4, <2>1, <2>3 DEF LaneOK, Starts
<1>5. \A i \in Lanes : LaneOK(Lane(State, i)) /\ Starts(Lane(State, i)) = {}
  BY <1>3, <1>4
<1>6. NewBankState.state # "RowActive" /\ ~IsRead(NoPacket)
  BY DEF NewBankState, NoPacket, IsRead
<1> QED BY <1>1, <1>5, <1>6 DEF BusFree, EndBy, Apart

LEMMA StepBus == IndInv /\ BusInv /\ [Next]_vars => BusInv'
<1> SUFFICES ASSUME IndInv, BusInv, [Next]_vars PROVE BusInv'
  OBVIOUS
<1> USE ClientAssumption
<1>1. Client /\ Between(State)
  BY InvIs
<1>2. /\ ini \in Policies /\ count \in 0..MaxTrans /\ count \in Nat
      /\ line \in [id : 0..count, write : BOOLEAN, addr : Nat, wait : Nat, expect : Nat]
  BY <1>1 DEF Client
<1>3. CASE ReadLine
  <2>1. PICK w \in BOOLEAN, a \in ini.addresses, gap \in Gaps :
          IF gap = 0 THEN OfferAndUpdate(Transaction(w, a, 0))
                     ELSE WaitAndUpdate(Transaction(w, a, gap))
    BY <1>3 DEF ReadLine
  <2>2. Transaction(w, a, 0) \in Transactions
    BY <1>2, TransactionIn
  <2> QED BY <1>1, <2>1, <2>2, LineOfferedBus, LineWaitsBus
<1>4. CASE RetryLine
  <2>1. line # NoLine /\ ini.client = "trace"
    BY <1>4 DEF RetryLine
  <2>2. line \in Transactions
    BY <1>1, <1>2, <2>1 DEF Client, Transactions
  <2>3. OfferAndUpdate(line) \/ \E t : WaitAndUpdate(t)
    BY <1>4 DEF RetryLine
  <2> QED BY <1>1, <2>2, <2>3, LineOfferedBus, LineWaitsBus
<1>5. CASE EndOfTrace
  BY <1>1, <1>5, LineWaitsBus DEF EndOfTrace
<1>6. CASE TestUpdate
  <2>1. \E t : WaitAndUpdate(t)
    BY <1>6 DEF TestUpdate
  <2> QED BY <1>1, <2>1, LineWaitsBus
<1>7. ASSUME NEW w \in BOOLEAN, NEW a \in Addresses, Hand(w, a) PROVE BusInv'
  <2>1. \/ Becomes(addTransaction(State, Transaction(w, a, 0)))
        \/ Becomes([State EXCEPT !.pending = Append(@, Transaction(w, a, 0))])
    BY <1>7 DEF Hand
  <2>2. Transaction(w, a, 0) \in Transactions
    BY <1>2, TransactionIn
  <2>3. CASE Becomes(addTransaction(State, Transaction(w, a, 0)))
    BY <1>1, <2>2, <2>3, Offered, OfferKeepsBus, NextBus DEF BusInv
  <2>4. CASE Becomes([State EXCEPT !.pending = Append(@, Transaction(w, a, 0))])
    <3>1. /\ Between([State EXCEPT !.pending = Append(@, Transaction(w, a, 0))])
          /\ BusFree([State EXCEPT !.pending = Append(@, Transaction(w, a, 0))], 1)
      BY <1>1, <2>2, Deferred, DeferralKeepsBus DEF BusInv
    <3> QED BY <2>4, <3>1, NextBus
  <2> QED BY <2>1, <2>3, <2>4
<1>7a. CASE TestCall
  <2> DEFINE call == ini.test[count + 1]
  <2>1. Hand(call.write, call.addr) /\ count < Len(ini.test)
    BY <1>7a DEF TestCall
  <2>2. call \in [write : BOOLEAN, addr : Addresses, updates : Nat]
    <3> DEFINE Calls == [write : BOOLEAN, addr : Addresses, updates : Nat]
               calls == ini.test
    <3>0. calls \in Seq(Calls)
      BY <1>2, Zenon
    <3> HIDE DEF Calls, calls
    <3>1. calls \in Seq(Calls) /\ Len(calls) \in Nat
      BY <3>0
    <3>2. count + 1 \in 1..Len(calls)
      BY <1>2, <2>1, <3>1 DEF calls
    <3>3. calls[count + 1] \in Calls
      BY <3>1, <3>2
    <3> QED BY <3>3 DEF Calls, calls
  <2>3. call.write \in BOOLEAN /\ call.addr \in Addresses
    BY <2>2
  <2> HIDE DEF call
  <2> QED BY <1>7, <2>1, <2>3
<1>7b. CASE access
  <2>1. PICK w \in BOOLEAN, a \in ini.addresses : Hand(w, a)
    BY <1>7b DEF access
  <2> QED BY <1>2, <1>7, <2>1
<1>8. CASE UNCHANGED vars
  <2>1. State' = State
    BY <1>8 DEF vars, dramVars, State
  <2> QED BY <2>1 DEF BusInv
<1> QED BY <1>3, <1>4, <1>5, <1>6, <1>7a, <1>7b, <1>8 DEF Next

(* Two lanes that drive the bus have bursts that have started and not ended. *)
LEMMA BusyStarts ==
  ASSUME NEW l, LaneOK(l), l.out # NoPacket
  PROVE  l.left - Half \in Starts(l) /\ l.left \in 1..Half
BY StartsIn DEF LaneOK, IsLane

LEMMA OneDrives ==
  ASSUME NEW l, NEW m, LaneOK(l), LaneOK(m), Apart(l, m)
  PROVE  l.out = NoPacket \/ m.out = NoPacket
<1> SUFFICES ASSUME l.out # NoPacket, m.out # NoPacket PROVE FALSE
  OBVIOUS
<1>1. /\ l.left - Half \in Starts(l) /\ l.left \in 1..Half
      /\ m.left - Half \in Starts(m) /\ m.left \in 1..Half
  BY BusyStarts
<1>2. (l.left - Half) + Half <= m.left - Half \/ (m.left - Half) + Half <= l.left - Half
  BY <1>1 DEF Apart
<1> QED BY <1>1, <1>2, HalfIs

LEMMA BusExclusive == BusInv => DataBusExclusive
<1> SUFFICES ASSUME BusFree(State, 1) PROVE DataBusExclusive
  BY DEF BusInv
<1> DEFINE reads == {r \in Ranks : ranks[r].outgoingDataPacket # NoPacket}
<1>1. \A i \in Lanes, j \in Lanes :
        i # j => Lane(State, i).out = NoPacket \/ Lane(State, j).out = NoPacket
  BY OneDrives DEF BusFree
<1>2. /\ \A r \in Ranks : Lane(State, r).out = ranks[r].outgoingDataPacket
      /\ Lane(State, NUM_RANKS).out = mc.data /\ State.error = error
  <2>1. State.ranks = ranks /\ State.mc = mc /\ State.error = error
    BY DEF State
  <2>2. \A r \in Ranks : Lane(State, r).out = State.ranks[r].outgoingDataPacket
    <3> TAKE r \in Ranks
    <3>1. Lane(State, r) = [out |-> State.ranks[r].outgoingDataPacket,
                            left |-> State.ranks[r].dataCyclesLeft,
                            waiting |-> State.ranks[r].readReturn]
      BY LaneIs, Zenon
    <3> QED BY <3>1
  <2>3. Lane(State, NUM_RANKS).out = State.mc.data
    <3>1. Lane(State, NUM_RANKS) = [out |-> State.mc.data, left |-> State.mc.dataCyclesLeft,
                                    waiting |-> State.mc.writeData]
      BY LaneIs, Zenon
    <3> QED BY <3>1
  <2> QED BY <2>1, <2>2, <2>3
<1>3. \A a, b \in reads : a = b
  BY <1>1, <1>2, LaneIs
<1>4. Cardinality(reads) <= 1
  <2>1. CASE reads = {}
    BY <2>1, FS_EmptySet
  <2>2. CASE reads # {}
    <3>1. PICK r : r \in reads
      BY <2>2
    <3>2. reads = {r}
      BY <1>3, <3>1
    <3> HIDE DEF reads
    <3> QED BY <3>2, FS_Singleton
  <2> QED BY <2>1, <2>2
<1>5. reads = {} \/ mc.data = NoPacket
  <2>1. \A r \in reads : mc.data = NoPacket
    BY <1>1, <1>2, LaneIs
  <2> QED BY <2>1
<1>6. error # "Data Bus Collision"
  BY <1>2 DEF BusFree
<1> QED BY <1>4, <1>5, <1>6 DEF DataBusExclusive

(* At most one of the controller and the ranks drives the data bus in any    *)
(* cycle, and the exit "Data Bus Collision" of MemoryController.cpp is never *)
(* taken, whatever the policies, the number of ranks and banks, the timings  *)
(* and the transactions are: the delays that AfterCommand adds to the table, *)
(* between two ranks too, keep the bursts of reads and writes apart, though  *)
(* only two packets of the controller itself are ever checked.               *)
THEOREM DataBusKept == Spec => []DataBusExclusive
<1>1. Spec => []IndInv
  BY InitInv, NextInv, PTL DEF Spec
<1>2. Spec => []BusInv
  <2>1. Init => BusInv
    BY InitBus
  <2>2. IndInv /\ BusInv /\ [Next]_vars => BusInv'
    BY StepBus
  <2>3. Init /\ [][Next]_vars /\ []IndInv => []BusInv
    BY <2>1, <2>2, PTL
  <2> QED BY <1>1, <2>3, PTL DEF Spec
<1> QED BY <1>2, BusExclusive, PTL
=============================================================================
